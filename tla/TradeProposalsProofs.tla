------------------------ MODULE TradeProposalsProofs ------------------------
(***************************************************************************)
(* Theorems about TradeProposals, for every number of teams, contracts,    *)
(* proposals and workers: who holds what the trades moved, what a lapsed   *)
(* offer may still do, what a succeeded run of the expiry job means, and   *)
(* the refinement of AssetExchange.                                        *)
(***************************************************************************)
EXTENDS TradeProposals, FiniteSetTheorems, TLAPS

----------------------------------------------------------------------------
\* Types.

Move == [from : Teams, to : Teams, version : Nat]

Row == [status : Statuses, version : Nat \ {0}, proposer : Teams, teams : SUBSET Teams,
        moves : UNION {[S -> Move] : S \in SUBSET Items},
        retained : UNION {[S -> Amounts] : S \in SUBSET Contracts},
        promise : SUBSET (Teams \X Teams), consents : SUBSET Teams,
        expires : Nat, effective : Nat]

Done == {"completed", "correction_required"}

\* A trade's retentions stand as long as the trade does.
RetentionFollows ==
  \A p \in Proposals :
     retention[p] = IF trade[p].status \in Done THEN DOMAIN trade[p].retained ELSE {}

DueOffer == [trade : Proposals, deadline : Times, version : Nat]

WorkTyped(x) ==
  /\ x.pc \in {"idle", "batch", "claimed", "done", "failed"}
  /\ x.pc # "idle" => x.due \subseteq DueOffer
  /\ x.pc \in {"claimed", "done", "failed"} => x.offer \in DueOffer

\* A row whose columns agree with each other.
WellFormed(r) ==
  /\ r.effective <= r.expires
  /\ r.proposer \in r.teams /\ r.consents \subseteq r.teams
  /\ DOMAIN r.moves \subseteq Items /\ DOMAIN r.retained \subseteq DOMAIN r.moves \cap Contracts
  /\ \A i \in DOMAIN r.moves : /\ r.moves[i].from \in r.teams /\ r.moves[i].to \in r.teams
                               /\ r.moves[i].version \in Nat
  /\ \A c \in DOMAIN r.retained : r.retained[c] \in Amounts
  /\ r.promise \subseteq r.teams \X r.teams

GoodRow == {r \in Row : WellFormed(r)}

RowsTyped == trade \in [Proposals -> {NoTrade} \cup GoodRow]

TypeInv ==
  /\ TypeOK
  /\ RowsTyped
  /\ retention \in [Proposals -> SUBSET Contracts]
  /\ RetentionFollows
  /\ DOMAIN jobs = Proposals \X Times
  /\ DOMAIN work = Workers
  /\ \A w \in Workers : WorkTyped(work[w])

LEMMA ItemFacts ==
  /\ Contracts \subseteq Items /\ Proposals \subseteq Items
  /\ \A c \in Contracts : c \notin Proposals
  /\ \A p \in Proposals : p \notin Contracts
BY TradeAssumption DEF Items

LEMMA MinOfTwo ==
  ASSUME NEW a \in Nat, NEW b \in Nat
  PROVE  /\ Min({a, b}) \in {a, b}
         /\ Min({a, b}) <= a /\ Min({a, b}) <= b
<1>1. \E x \in {a, b} : \A y \in {a, b} : x <= y
  <2>1. CASE a <= b
    BY <2>1
  <2>2. CASE b <= a
    BY <2>2
  <2>3. QED
    BY <2>1, <2>2
<1>2. QED
  BY <1>1 DEF Min

\* What a submitted offer says.
LEMMA OfferTerms ==
  ASSUME NEW teams \in SUBSET Teams, NEW terms \in Offers(teams),
         touched \in [Items -> Nat]
  PROVE  /\ terms.moves \in UNION {[S -> Move] : S \in SUBSET Items}
         /\ DOMAIN terms.moves \subseteq Items
         /\ terms.retained \in UNION {[S -> Amounts] : S \in SUBSET Contracts}
         /\ DOMAIN terms.retained \subseteq DOMAIN terms.moves \cap Contracts
         /\ terms.promise \subseteq teams \X teams
         /\ \A i \in DOMAIN terms.moves :
               /\ terms.moves[i].from = owner[i] /\ owner[i] \in teams
               /\ terms.moves[i].to \in teams /\ terms.moves[i].version = touched[i]
<1>1. terms \in Written(teams)
  BY DEF Offers
<1> DEFINE WrittenOver(items) ==
      {[moves |-> [i \in items |-> [from |-> owner[i], to |-> dest[i], version |-> touched[i]]],
        retained |-> kept, promise |-> promise] :
          dest \in {d \in [items -> teams] : \A i \in items : d[i] # owner[i]},
          kept \in UNION {[some -> Amounts] : some \in SUBSET (items \cap Contracts)},
          promise \in Promises(teams)}
<1>2. PICK items \in SUBSET {i \in Items : owner[i] \in teams} : terms \in WrittenOver(items)
  <2>1. Written(teams) = UNION {WrittenOver(items) : items \in SUBSET {i \in Items : owner[i] \in teams}}
    BY DEF Written
  <2> HIDE DEF WrittenOver
  <2>2. QED
    BY <1>1, <2>1
<1>3. PICK dest \in [items -> teams],
           kept \in UNION {[some -> Amounts] : some \in SUBSET (items \cap Contracts)},
           promise \in Promises(teams) :
        terms = [moves |-> [i \in items |-> [from |-> owner[i], to |-> dest[i], version |-> touched[i]]],
                 retained |-> kept, promise |-> promise]
  BY <1>2
<1>4. PICK some \in SUBSET (items \cap Contracts) : kept \in [some -> Amounts]
  OBVIOUS
<1>5. terms.retained = kept /\ DOMAIN kept = some /\ kept \in [some -> Amounts]
  BY <1>3, <1>4
<1>6. terms.promise = promise /\ promise \subseteq teams \X teams
  BY <1>3 DEF Promises
<1>7. /\ terms.moves = [i \in items |-> [from |-> owner[i], to |-> dest[i], version |-> touched[i]]]
      /\ items \in SUBSET Items /\ \A i \in items : owner[i] \in teams /\ dest[i] \in teams
  BY <1>3
<1>8. terms.moves \in [items -> Move]
  BY <1>7 DEF Move
<1>9. DOMAIN terms.moves = items
  BY <1>7
<1>10. \A i \in items : /\ terms.moves[i].from = owner[i] /\ terms.moves[i].to = dest[i]
                        /\ terms.moves[i].version = touched[i]
  BY <1>7
<1>11. QED
  BY <1>4, <1>5, <1>6, <1>7, <1>8, <1>9, <1>10

\* A row that was written, and one that was not.
LEMMA RowFacts ==
  ASSUME RowsTyped, NEW p \in Proposals
  PROVE  /\ trade[p] = NoTrade <=> trade[p].status = "none"
         /\ trade[p].status # "none" =>
               /\ trade[p] \in GoodRow /\ trade[p] \in Row /\ WellFormed(trade[p])
               /\ trade[p].status \in Statuses /\ trade[p].version \in Nat \ {0}
               /\ trade[p].teams \subseteq Teams /\ trade[p].proposer \in Teams
               /\ trade[p].consents \subseteq Teams
               /\ trade[p].expires \in Nat /\ trade[p].effective \in Nat
               /\ trade[p].promise \subseteq Teams \X Teams
         /\ trade[p].status = "none" \/ trade[p].status \in Statuses
<1>1. trade[p] = NoTrade \/ trade[p] \in GoodRow
  BY DEF RowsTyped
<1>2. NoTrade.status = "none"
  BY DEF NoTrade
<1>3. ASSUME NEW r \in GoodRow
      PROVE  /\ r.status \in Statuses /\ r.version \in Nat \ {0} /\ r \in Row /\ WellFormed(r)
             /\ r.expires \in Nat /\ r.effective \in Nat /\ r.teams \subseteq Teams
             /\ r.promise \subseteq Teams \X Teams /\ r.proposer \in Teams
             /\ r.consents \subseteq Teams
  BY DEF Row, GoodRow
<1>4. "none" \notin Statuses
  BY DEF Statuses
<1>5. QED
  BY <1>1, <1>2, <1>3, <1>4

\* What a trade moves.
LEMMA MovesFacts ==
  ASSUME RowsTyped, NEW p \in Proposals, trade[p].status # "none", NEW i \in Moved(p)
  PROVE  /\ i \in Items
         /\ trade[p].moves[i].from \in trade[p].teams /\ trade[p].moves[i].to \in trade[p].teams
         /\ trade[p].moves[i].from \in Teams /\ trade[p].moves[i].to \in Teams
         /\ trade[p].moves[i].version \in Nat
BY RowFacts DEF WellFormed, Moved

\* A promise names teams of the trade.
LEMMA PromiseFacts ==
  ASSUME RowsTyped, NEW p \in Proposals, trade[p].status # "none", trade[p].promise # {}
  PROVE  Entitled(p) \in Teams
BY RowFacts DEF Entitled

\* A well-formed row is what the type invariant asks for.
LEMMA GoodRowFacts ==
  ASSUME NEW r \in GoodRow
  PROVE  r.status \in Statuses /\ r.version \in Nat \ {0} /\ r.teams \subseteq Teams /\ WellFormed(r)
BY DEF GoodRow, Row

\* The columns that never change.
SameTerms(r, s) ==
  /\ r.moves = s.moves /\ r.retained = s.retained /\ r.promise = s.promise
  /\ r.teams = s.teams /\ r.proposer = s.proposer /\ r.expires = s.expires

\* The columns that do.
Updated(r, st, cs, e) ==
  [r EXCEPT !.status = st, !.version = @ + 1, !.consents = cs, !.effective = e]

LEMMA RowUpdate ==
  ASSUME NEW r \in GoodRow, NEW st \in Statuses, NEW cs \in SUBSET r.teams,
         NEW e \in Nat, e <= r.expires,
         NEW s, s = Updated(r, st, cs, e)
  PROVE  /\ s \in GoodRow /\ SameTerms(s, r)
         /\ s.status = st /\ s.version = r.version + 1 /\ s.consents = cs /\ s.effective = e
<1>1. r \in Row /\ WellFormed(r) /\ r.teams \subseteq Teams
  BY DEF GoodRow, Row
<1>2. s \in Row
  <2>1. s = [status |-> st, version |-> r.version + 1, proposer |-> r.proposer, teams |-> r.teams,
             moves |-> r.moves, retained |-> r.retained, promise |-> r.promise,
             consents |-> cs, expires |-> r.expires, effective |-> e]
    BY <1>1 DEF Row, Updated
  <2>2. /\ r.version + 1 \in Nat \ {0} /\ r.proposer \in Teams /\ r.teams \in SUBSET Teams
        /\ r.promise \in SUBSET (Teams \X Teams) /\ cs \in SUBSET Teams /\ r.expires \in Nat
    BY <1>1 DEF Row
  <2>3. /\ r.moves \in UNION {[S -> Move] : S \in SUBSET Items}
        /\ r.retained \in UNION {[S -> Amounts] : S \in SUBSET Contracts}
    BY <1>1 DEF Row
  <2>4. QED
    BY <2>1, <2>2, <2>3 DEF Row
<1>3. /\ SameTerms(s, r)
      /\ s.status = st /\ s.version = r.version + 1 /\ s.consents = cs /\ s.effective = e
  BY <1>1 DEF Row, SameTerms, Updated
<1>4. WellFormed(s)
  BY <1>1, <1>3 DEF WellFormed, SameTerms
<1>5. QED
  BY <1>2, <1>3, <1>4 DEF GoodRow

\* The forms in which the actions write these columns.
LEMMA RowForms ==
  ASSUME NEW r \in GoodRow, NEW st, NEW cs, NEW e
  PROVE  /\ [r EXCEPT !.status = st, !.version = @ + 1] = Updated(r, st, r.consents, r.effective)
         /\ [r EXCEPT !.consents = cs, !.version = @ + 1] = Updated(r, r.status, cs, r.effective)
         /\ [r EXCEPT !.status = st, !.version = @ + 1, !.consents = cs] =
               Updated(r, st, cs, r.effective)
         /\ [r EXCEPT !.effective = e, !.version = @ + 1] = Updated(r, r.status, r.consents, e)
<1>1. r \in Row
  BY DEF GoodRow
<1>2. QED
  BY <1>1 DEF Row, Updated

----------------------------------------------------------------------------
\* What the actions do to the rows.

RowStep(p, st, cs, e) ==
  /\ trade[p].status # "none" /\ trade'[p] \in GoodRow /\ SameTerms(trade'[p], trade[p])
  /\ trade'[p].status = st /\ trade'[p].version = trade[p].version + 1
  /\ trade'[p].consents = cs /\ trade'[p].effective = e

OnlyRow(p) == \A q \in Proposals \ {p} : trade'[q] = trade[q]

LEMMA OneRow ==
  ASSUME RowsTyped, NEW p \in Proposals, NEW row \in GoodRow,
         trade' = [trade EXCEPT ![p] = row]
  PROVE  RowsTyped' /\ OnlyRow(p) /\ trade'[p] = row
BY DEF RowsTyped, OnlyRow

LEMMA ClosedStep ==
  ASSUME RowsTyped, NEW p \in Proposals, trade[p].status # "none", NEW st \in Statuses,
         trade' = Closed(p, st)
  PROVE  RowsTyped' /\ OnlyRow(p) /\ RowStep(p, st, trade[p].consents, trade[p].effective)
<1> DEFINE row == [trade[p] EXCEPT !.status = st, !.version = @ + 1]
<1>1. trade[p] \in GoodRow /\ WellFormed(trade[p]) /\ trade[p].effective \in Nat
  BY RowFacts
<1>2. row = Updated(trade[p], st, trade[p].consents, trade[p].effective)
  BY <1>1, RowForms
<1>3. trade[p].consents \in SUBSET trade[p].teams /\ trade[p].effective <= trade[p].expires
  BY <1>1 DEF WellFormed
<1>4. /\ row \in GoodRow /\ SameTerms(row, trade[p])
      /\ row.status = st /\ row.version = trade[p].version + 1
      /\ row.consents = trade[p].consents /\ row.effective = trade[p].effective
  <2> HIDE DEF row
  <2>1. QED
    BY <1>1, <1>2, <1>3, RowUpdate
<1>5. trade' = [trade EXCEPT ![p] = row]
  BY <1>1 DEF Closed, RowsTyped
<1>6. RowsTyped' /\ OnlyRow(p) /\ trade'[p] = row
  <2> HIDE DEF row
  <2>1. QED
    BY <1>4, <1>5, OneRow
<1>7. QED
  BY <1>4, <1>6 DEF RowStep

LEMMA AnsweredStep ==
  ASSUME RowsTyped, NEW p \in Proposals, trade[p].status # "none", NEW st \in Statuses,
         NEW cs \in SUBSET trade[p].teams,
         trade' = [Closed(p, st) EXCEPT ![p].consents = cs]
  PROVE  RowsTyped' /\ OnlyRow(p) /\ RowStep(p, st, cs, trade[p].effective)
<1> DEFINE row == [trade[p] EXCEPT !.status = st, !.version = @ + 1, !.consents = cs]
<1>1. trade[p] \in GoodRow /\ WellFormed(trade[p]) /\ trade[p].effective \in Nat
  BY RowFacts
<1>2. row = Updated(trade[p], st, cs, trade[p].effective)
  BY <1>1, RowForms
<1>3. trade[p].effective <= trade[p].expires
  BY <1>1 DEF WellFormed
<1>4. /\ row \in GoodRow /\ SameTerms(row, trade[p])
      /\ row.status = st /\ row.version = trade[p].version + 1
      /\ row.consents = cs /\ row.effective = trade[p].effective
  <2> HIDE DEF row
  <2>1. QED
    BY <1>1, <1>2, <1>3, RowUpdate
<1>5. trade' = [trade EXCEPT ![p] = row]
  BY <1>1 DEF Closed, RowsTyped
<1>6. RowsTyped' /\ OnlyRow(p) /\ trade'[p] = row
  <2> HIDE DEF row
  <2>1. QED
    BY <1>4, <1>5, OneRow
<1>7. QED
  BY <1>4, <1>6 DEF RowStep

LEMMA ConsentStep ==
  ASSUME RowsTyped, NEW p \in Proposals, trade[p].status # "none",
         NEW t \in trade[p].teams,
         trade' = [trade EXCEPT ![p].consents = @ \cup {t}, ![p].version = @ + 1]
  PROVE  /\ RowsTyped' /\ OnlyRow(p)
         /\ RowStep(p, trade[p].status, trade[p].consents \cup {t}, trade[p].effective)
<1> DEFINE cs == trade[p].consents \cup {t}
           row == [trade[p] EXCEPT !.consents = cs, !.version = @ + 1]
<1>1. trade[p] \in GoodRow /\ WellFormed(trade[p]) /\ trade[p].effective \in Nat
  BY RowFacts
<1>2. row = Updated(trade[p], trade[p].status, cs, trade[p].effective)
  BY <1>1, RowForms
<1>3. trade[p].effective <= trade[p].expires /\ trade[p].status \in Statuses
      /\ cs \in SUBSET trade[p].teams
  BY <1>1, RowFacts DEF WellFormed
<1>4. /\ row \in GoodRow /\ SameTerms(row, trade[p])
      /\ row.status = trade[p].status /\ row.version = trade[p].version + 1
      /\ row.consents = cs /\ row.effective = trade[p].effective
  <2> HIDE DEF row, cs
  <2>1. QED
    BY <1>1, <1>2, <1>3, RowUpdate
<1>5. trade' = [trade EXCEPT ![p] = row]
  BY <1>1 DEF RowsTyped
<1>6. RowsTyped' /\ OnlyRow(p) /\ trade'[p] = row
  <2> HIDE DEF row
  <2>1. QED
    BY <1>4, <1>5, OneRow
<1>7. QED
  BY <1>4, <1>6 DEF RowStep

\* The clock and the deadline.
TimesTyped ==
  /\ now \in Nat /\ tradeDeadline \in Nat
  /\ owner \in [Items -> Teams \cup {Nobody}] /\ touched \in [Items -> Nat]

LEMMA LapsesEarly ==
  ASSUME TimesTyped
  PROVE  Lapses(now) \in Nat /\ Lapses(now) <= now + Lifetime /\ now + Lifetime \in Nat
<1>1. now + Lifetime \in Nat /\ tradeDeadline \in Nat
  BY TradeAssumption DEF TimesTyped
<1>2. QED
  BY <1>1, MinOfTwo DEF Lapses

LEMMA SubmittedRow ==
  ASSUME TimesTyped, NEW teams \in SUBSET Teams, NEW proposer \in teams, NEW terms \in Offers(teams)
  PROVE  Submitted(proposer, teams, terms) \in GoodRow
<1> DEFINE row == Submitted(proposer, teams, terms)
<1>1. /\ Lapses(now) \in Nat /\ Lapses(now) <= now + Lifetime /\ now + Lifetime \in Nat
  BY LapsesEarly
<1>2. /\ terms.moves \in UNION {[S -> Move] : S \in SUBSET Items}
      /\ terms.retained \in UNION {[S -> Amounts] : S \in SUBSET Contracts}
      /\ terms.promise \subseteq teams \X teams
  BY OfferTerms DEF TimesTyped
<1>3. "proposed" \in Statuses /\ 1 \in Nat \ {0} /\ {proposer} \in SUBSET Teams
      /\ terms.promise \in SUBSET (Teams \X Teams)
  BY <1>2 DEF Statuses
<1>4. row \in Row
  BY <1>1, <1>2, <1>3 DEF Submitted, Row
<1>5. WellFormed(row)
  <2>1. /\ DOMAIN terms.moves \subseteq Items
        /\ DOMAIN terms.retained \subseteq DOMAIN terms.moves \cap Contracts
        /\ \A i \in DOMAIN terms.moves :
              /\ terms.moves[i].from \in teams /\ terms.moves[i].to \in teams
              /\ terms.moves[i].version \in Nat
    BY OfferTerms DEF TimesTyped
  <2>2. \A c \in DOMAIN terms.retained : terms.retained[c] \in Amounts
    BY <1>2
  <2>3. QED
    BY <1>1, <1>2, <2>1, <2>2 DEF Submitted, WellFormed
<1>6. QED
  BY <1>4, <1>5 DEF GoodRow

\* Some rows are closed with the same status, the others are left alone.
LEMMA ClosedRow ==
  ASSUME RowsTyped, NEW q \in Proposals, trade[q].status # "none", NEW st \in Statuses,
         trade'[q] = [trade[q] EXCEPT !.status = st, !.version = @ + 1]
  PROVE  RowStep(q, st, trade[q].consents, trade[q].effective)
<1>1. trade[q] \in GoodRow /\ WellFormed(trade[q]) /\ trade[q].effective \in Nat
  BY RowFacts
<1>2. trade'[q] = Updated(trade[q], st, trade[q].consents, trade[q].effective)
  BY <1>1, RowForms
<1>3. trade[q].consents \in SUBSET trade[q].teams /\ trade[q].effective <= trade[q].expires
  BY <1>1 DEF WellFormed
<1>4. QED
  BY <1>1, <1>2, <1>3, RowUpdate DEF RowStep

LEMMA ExchangeRows ==
  ASSUME RowsTyped, NEW p \in Proposals, Open(p), Exchange(p)
  PROVE  /\ RowsTyped'
         /\ RowStep(p, "completed", trade[p].teams, trade[p].effective)
         /\ \A q \in Proposals \ {p} :
               /\ Overtaken(p, q) => RowStep(q, "cancelled", trade[q].consents, trade[q].effective)
               /\ ~Overtaken(p, q) => trade'[q] = trade[q]
<1>1. trade[p].status # "none" /\ "completed" \in Statuses /\ "cancelled" \in Statuses
  BY DEF Open, Statuses
<1>2. trade[p] \in GoodRow /\ WellFormed(trade[p]) /\ trade[p].effective \in Nat
  BY <1>1, RowFacts
<1> DEFINE row == [trade[p] EXCEPT !.status = "completed", !.version = @ + 1,
                                   !.consents = trade[p].teams]
<1>3. row = Updated(trade[p], "completed", trade[p].teams, trade[p].effective)
  BY <1>2, RowForms
<1>4. trade'[p] = row
  BY DEF Exchange
<1>5. RowStep(p, "completed", trade[p].teams, trade[p].effective)
  <2> HIDE DEF row
  <2>1. trade[p].teams \in SUBSET trade[p].teams /\ trade[p].effective <= trade[p].expires
    BY <1>2 DEF WellFormed
  <2>2. QED
    BY <1>1, <1>2, <1>3, <1>4, <2>1, RowUpdate DEF RowStep
<1>6. ASSUME NEW q \in Proposals \ {p}
      PROVE  /\ Overtaken(p, q) => RowStep(q, "cancelled", trade[q].consents, trade[q].effective)
             /\ ~Overtaken(p, q) => trade'[q] = trade[q]
  <2>1. CASE Overtaken(p, q)
    <3>1. trade'[q] = [trade[q] EXCEPT !.status = "cancelled", !.version = @ + 1]
      BY <2>1 DEF Exchange
    <3>2. trade[q].status # "none"
      BY <2>1 DEF Overtaken, Open
    <3>3. QED
      BY <1>1, <2>1, <3>1, <3>2, ClosedRow
  <2>2. CASE ~Overtaken(p, q)
    BY <2>2 DEF Exchange
  <2>3. QED
    BY <2>1, <2>2
<1>7. RowsTyped'
  <2>1. trade' = [q \in Proposals |-> trade'[q]]
    BY DEF Exchange
  <2>2. \A q \in Proposals : trade'[q] \in {NoTrade} \cup GoodRow
    BY <1>5, <1>6 DEF RowStep, RowsTyped
  <2>3. QED
    BY <2>1, <2>2 DEF RowsTyped
<1>8. QED
  BY <1>5, <1>6, <1>7

LEMMA BuyOutRows ==
  ASSUME RowsTyped, NEW c \in Contracts, BuyOut(c)
  PROVE  /\ RowsTyped'
         /\ \A q \in Proposals :
               /\ q \in Offering(c) =>
                     RowStep(q, "cancelled", trade[q].consents, trade[q].effective)
               /\ q \notin Offering(c) => trade'[q] = trade[q]
<1>1. ASSUME NEW q \in Proposals
      PROVE  /\ q \in Offering(c) =>
                     RowStep(q, "cancelled", trade[q].consents, trade[q].effective)
             /\ q \notin Offering(c) => trade'[q] = trade[q]
  <2>1. CASE q \in Offering(c)
    <3>1. trade'[q] = [trade[q] EXCEPT !.status = "cancelled", !.version = @ + 1]
      BY <2>1 DEF BuyOut
    <3>2. trade[q].status # "none" /\ "cancelled" \in Statuses
      BY <2>1 DEF Offering, Open, Statuses
    <3>3. QED
      BY <2>1, <3>1, <3>2, ClosedRow
  <2>2. CASE q \notin Offering(c)
    BY <2>2 DEF BuyOut
  <2>3. QED
    BY <2>1, <2>2
<1>2. trade' = [q \in Proposals |-> trade'[q]]
  BY DEF BuyOut
<1>3. RowsTyped'
  BY <1>1, <1>2 DEF RowStep, RowsTyped
<1>4. QED
  BY <1>1, <1>3

\* An offer whose deadline is moved had not lapsed.
LEMMA DeadlineRows ==
  ASSUME RowsTyped, TimesTyped, NEW d \in Deadlines, ChangeDeadline(d)
  PROVE  /\ RowsTyped'
         /\ \A q \in Proposals :
               \/ trade'[q] = trade[q]
               \/ /\ Open(q) /\ now < trade[q].effective
                  /\ \E e \in Nat : RowStep(q, trade[q].status, trade[q].consents, e)
<1>1. ASSUME NEW q \in Proposals
      PROVE  \/ trade'[q] = trade[q]
             \/ /\ Open(q) /\ now < trade[q].effective
                /\ \E e \in Nat : RowStep(q, trade[q].status, trade[q].consents, e)
  <2> DEFINE e == Rescheduled(q, d)
  <2>1. CASE Open(q) /\ ~LapsedBefore(q) /\ e # trade[q].effective
    <3>1. trade'[q] = [trade[q] EXCEPT !.effective = e, !.version = @ + 1]
      BY <2>1 DEF ChangeDeadline
    <3>2. trade[q].status # "none"
      BY <2>1 DEF Open
    <3>3. /\ trade[q] \in GoodRow /\ WellFormed(trade[q]) /\ trade[q].effective \in Nat
          /\ trade[q].expires \in Nat /\ trade[q].status \in Statuses
      BY <3>2, RowFacts
    <3>4. d \in Nat
      BY TradeAssumption
    <3>5. e \in Nat /\ e <= trade[q].expires
      BY <3>3, <3>4, MinOfTwo DEF Rescheduled
    <3>6. trade[q].consents \in SUBSET trade[q].teams
      BY <3>3 DEF WellFormed
    <3> HIDE DEF e
    <3>7. trade'[q] = Updated(trade[q], trade[q].status, trade[q].consents, e)
      BY <3>1, <3>3, RowForms
    <3>8. RowStep(q, trade[q].status, trade[q].consents, e)
      BY <3>2, <3>3, <3>5, <3>6, <3>7, RowUpdate DEF RowStep
    <3>9. now < trade[q].effective
      BY <2>1, <3>3 DEF LapsedBefore, TimesTyped
    <3>10. QED
      BY <2>1, <3>5, <3>8, <3>9
  <2>2. CASE ~(Open(q) /\ ~LapsedBefore(q) /\ e # trade[q].effective)
    BY <2>2 DEF ChangeDeadline
  <2>3. QED
    BY <2>1, <2>2
<1>2. trade' = [q \in Proposals |-> trade'[q]]
  BY DEF ChangeDeadline
<1>3. RowsTyped'
  BY <1>1, <1>2 DEF RowStep, RowsTyped
<1>4. QED
  BY <1>1, <1>3

\* A submission writes one row; a counter-offer declines the offer it answers.
LEMMA SubmittedRows ==
  ASSUME RowsTyped, TimesTyped, NEW p \in Fresh,
         NEW teams \in SUBSET Teams, NEW proposer \in teams, NEW terms \in Offers(teams),
         \/ Propose(p, proposer, teams, terms)
         \/ \E q \in Proposals : Counter(p, q, proposer, teams, terms)
  PROVE  /\ RowsTyped' /\ MayPropose(proposer, teams, terms)
         /\ p \in Proposals /\ trade[p].status = "none"
         /\ trade'[p] = Submitted(proposer, teams, terms) /\ trade'[p] \in GoodRow
         /\ \A q \in Proposals \ {p} :
               \/ trade'[q] = trade[q]
               \/ /\ trade[q].status = "proposed"
                  /\ RowStep(q, "declined", trade[q].consents \ {proposer}, trade[q].effective)
         /\ UNCHANGED <<now, league, tradeDeadline, rosters, record, job, bounds>>
<1>1. p \in Proposals /\ trade[p].status = "none"
  BY DEF Fresh
<1> DEFINE row == Submitted(proposer, teams, terms)
<1>2. row \in GoodRow
  BY SubmittedRow
<1> HIDE DEF row
<1>3. CASE Propose(p, proposer, teams, terms)
  <2>1. trade' = [trade EXCEPT ![p] = row]
    BY <1>3 DEF Propose, row
  <2>2. RowsTyped' /\ OnlyRow(p) /\ trade'[p] = row
    BY <1>1, <1>2, <2>1, OneRow
  <2>3. QED
    BY <1>1, <1>2, <1>3, <2>2 DEF Propose, OnlyRow, row
<1>4. ASSUME NEW q \in Proposals, Counter(p, q, proposer, teams, terms)
      PROVE  /\ RowsTyped' /\ MayPropose(proposer, teams, terms)
             /\ trade'[p] = row
             /\ \A x \in Proposals \ {p} :
                   \/ trade'[x] = trade[x]
                   \/ /\ trade[x].status = "proposed"
                      /\ RowStep(x, "declined", trade[x].consents \ {proposer}, trade[x].effective)
             /\ UNCHANGED <<now, league, tradeDeadline, rosters, record, job, bounds>>
  <2>1. trade[q].status \in {"proposed", "declined"} /\ q # p
    BY <1>1, <1>4 DEF Counter, MayCounter
  <2>2. CASE trade[q].status = "declined"
    <3>1. trade' = [trade EXCEPT ![p] = row]
      BY <1>4, <2>2 DEF Counter, row
    <3>2. RowsTyped' /\ OnlyRow(p) /\ trade'[p] = row
      BY <1>1, <1>2, <3>1, OneRow
    <3>3. QED
      BY <1>4, <3>2 DEF Counter, OnlyRow
  <2>3. CASE trade[q].status = "proposed"
    <3> DEFINE cs == trade[q].consents \ {proposer}
               old == [trade[q] EXCEPT !.status = "declined", !.version = @ + 1, !.consents = cs]
    <3>1. trade' = [[trade EXCEPT ![q] = old] EXCEPT ![p] = row]
      <4>1. trade' = [[Closed(q, "declined") EXCEPT ![q].consents = @ \ {proposer}]
                         EXCEPT ![p] = row]
        BY <1>4, <2>3 DEF Counter, row
      <4>2. trade[q] \in GoodRow
        BY <2>1, RowFacts
      <4>3. [Closed(q, "declined") EXCEPT ![q].consents = @ \ {proposer}]
               = [trade EXCEPT ![q] = old]
        BY <4>2 DEF Closed, RowsTyped, GoodRow, Row
      <4>4. QED
        BY <4>1, <4>3
    <3>2. trade[q] \in GoodRow /\ WellFormed(trade[q]) /\ trade[q].effective \in Nat
      BY <2>1, RowFacts
    <3>3. old = Updated(trade[q], "declined", cs, trade[q].effective)
      BY <3>2, RowForms
    <3>4. /\ cs \in SUBSET trade[q].teams /\ trade[q].effective <= trade[q].expires
          /\ "declined" \in Statuses
      BY <3>2 DEF WellFormed, Statuses
    <3>5. /\ old \in GoodRow /\ SameTerms(old, trade[q])
          /\ old.status = "declined" /\ old.version = trade[q].version + 1
          /\ old.consents = cs /\ old.effective = trade[q].effective
      <4> HIDE DEF old, cs
      <4>1. QED
        BY <3>2, <3>3, <3>4, RowUpdate
    <3> HIDE DEF old
    <3>6. /\ trade'[q] = old /\ trade'[p] = row
          /\ \A x \in Proposals \ {p, q} : trade'[x] = trade[x]
          /\ RowsTyped'
      BY <1>1, <1>2, <2>1, <3>1, <3>5 DEF RowsTyped
    <3>7. RowStep(q, "declined", cs, trade[q].effective)
      BY <2>1, <3>5, <3>6 DEF RowStep
    <3>8. QED
      BY <1>4, <2>3, <3>6, <3>7 DEF Counter
  <2>4. QED
    BY <2>1, <2>2, <2>3
<1>5. QED
  BY <1>1, <1>2, <1>3, <1>4 DEF row

----------------------------------------------------------------------------
\* The steps, by what they do to the trades.

\* An open offer is closed or gets the consent of another team.
ClosedBy(p) ==
  \E st \in {"declined", "cancelled", "expired"}, cs \in SUBSET trade[p].teams :
     RowStep(p, st, cs, trade[p].effective)

AgreedBy(p) ==
  \E t \in trade[p].teams \ trade[p].consents, st \in {"proposed", "awaiting"} :
     RowStep(p, st, trade[p].consents \cup {t}, trade[p].effective)

Answered(p) ==
  /\ Open(p) /\ RowsTyped' /\ OnlyRow(p)
  /\ ClosedBy(p) \/ AgreedBy(p)
  /\ UNCHANGED <<now, tradeDeadline, rosters, record>>

ExchangeBy(p) ==
  /\ Open(p) /\ now < trade[p].effective
  /\ Eligible(trade[p])
  /\ \E t \in trade[p].teams : trade[p].teams = trade[p].consents \cup {t}
  /\ Exchange(p)
  /\ UNCHANGED <<now, tradeDeadline, lapsed>>

Submits(p, teams, proposer, terms) ==
  \/ Propose(p, proposer, teams, terms)
  \/ \E q \in Proposals : Counter(p, q, proposer, teams, terms)

Submission ==
  \E p \in Fresh, teams \in SUBSET Teams : \E proposer \in teams, terms \in Offers(teams) :
     Submits(p, teams, proposer, terms)

Aside == UNCHANGED <<now, tradeDeadline, rosters, trade, record>>

LEMMA AnswersAre ==
  ASSUME RowsTyped, NEW p \in Proposals, NEW t,
         Cancel(p) \/ Reject(p, t) \/ AcceptInPart(p, t) \/ AcceptForApproval(p, t)
  PROVE  Answered(p)
<1>1. Open(p) /\ trade[p].status # "none"
  BY DEF Cancel, Reject, AcceptInPart, AcceptForApproval, MayAccept, MayAnswer, Open
<1>2. trade[p].consents \subseteq trade[p].teams
  BY <1>1, RowFacts DEF WellFormed
<1>3. UNCHANGED <<now, tradeDeadline, rosters, record>>
  BY DEF Cancel, Reject, AcceptInPart, AcceptForApproval
<1>4. "declined" \in Statuses /\ "cancelled" \in Statuses /\ "awaiting" \in Statuses
  BY DEF Statuses
<1>5. CASE Cancel(p)
  <2>1. RowsTyped' /\ OnlyRow(p) /\ RowStep(p, "cancelled", trade[p].consents, trade[p].effective)
    BY <1>1, <1>4, <1>5, ClosedStep DEF Cancel
  <2>2. QED
    BY <1>1, <1>2, <1>3, <2>1 DEF Answered, ClosedBy
<1>6. CASE Reject(p, t)
  <2> DEFINE cs == trade[p].consents \ {t}
  <2>1. trade' = [Closed(p, "declined") EXCEPT ![p].consents = cs]
    <3>1. trade[p] \in GoodRow
      BY <1>1, RowFacts
    <3>2. Closed(p, "declined")[p].consents = trade[p].consents
      BY <3>1 DEF Closed, RowsTyped, GoodRow, Row
    <3>3. QED
      BY <1>6, <3>2 DEF Reject
  <2>2. cs \in SUBSET trade[p].teams
    BY <1>2
  <2> HIDE DEF cs
  <2>3. RowsTyped' /\ OnlyRow(p) /\ RowStep(p, "declined", cs, trade[p].effective)
    BY <1>1, <1>4, <2>1, <2>2, AnsweredStep
  <2>4. QED
    BY <1>1, <1>3, <2>2, <2>3 DEF Answered, ClosedBy
<1>7. CASE AcceptInPart(p, t)
  <2>1. t \in trade[p].teams \ trade[p].consents /\ trade[p].status = "proposed"
    BY <1>7 DEF AcceptInPart, MayAccept
  <2>2. RowsTyped' /\ OnlyRow(p)
        /\ RowStep(p, "proposed", trade[p].consents \cup {t}, trade[p].effective)
    BY <1>1, <1>7, <2>1, ConsentStep DEF AcceptInPart
  <2>3. QED
    BY <1>1, <1>3, <2>1, <2>2 DEF Answered, AgreedBy
<1>8. CASE AcceptForApproval(p, t)
  <2> DEFINE cs == trade[p].consents \cup {t}
  <2>1. t \in trade[p].teams \ trade[p].consents
    BY <1>8 DEF AcceptForApproval, MayAccept
  <2>2. trade' = [Closed(p, "awaiting") EXCEPT ![p].consents = cs]
    <3>1. trade[p] \in GoodRow
      BY <1>1, RowFacts
    <3>2. Closed(p, "awaiting")[p].consents = trade[p].consents
      BY <3>1 DEF Closed, RowsTyped, GoodRow, Row
    <3>3. QED
      BY <1>8, <3>2 DEF AcceptForApproval
  <2>3. cs \in SUBSET trade[p].teams
    BY <1>2, <2>1
  <2>4. RowsTyped' /\ OnlyRow(p) /\ RowStep(p, "awaiting", cs, trade[p].effective)
    <3> HIDE DEF cs
    <3>1. QED
      BY <1>1, <1>4, <2>2, <2>3, AnsweredStep
  <2>5. QED
    BY <1>1, <1>3, <2>1, <2>4 DEF Answered, AgreedBy
<1>9. QED
  BY <1>5, <1>6, <1>7, <1>8

LEMMA ExpiryIs ==
  ASSUME RowsTyped, NEW w \in Workers, WorkTyped(work[w]), Expire(w)
  PROVE  Aside \/ \E p \in Proposals : Answered(p)
<1> DEFINE p == work[w].offer.trade
<1>1. p \in Proposals
  BY DEF Expire, WorkTyped, DueOffer
<1>2. UNCHANGED <<now, tradeDeadline, rosters, record>>
  BY DEF Expire
<1> HIDE DEF p
<1>3. CASE trade' = Closed(p, "expired") /\ Open(p)
  <2>1. trade[p].status # "none" /\ "expired" \in Statuses
    BY <1>3 DEF Open, Statuses
  <2>2. RowsTyped' /\ OnlyRow(p) /\ RowStep(p, "expired", trade[p].consents, trade[p].effective)
    BY <1>1, <1>3, <2>1, ClosedStep
  <2>3. trade[p].consents \in SUBSET trade[p].teams
    BY <1>1, <2>1, RowFacts DEF WellFormed
  <2>4. QED
    BY <1>1, <1>2, <1>3, <2>2, <2>3 DEF Answered, ClosedBy
<1>4. CASE trade' = trade
  BY <1>2, <1>4 DEF Aside
<1>5. QED
  BY <1>3, <1>4 DEF Expire, p

LEMMA ExchangesAre ==
  ASSUME RowsTyped, NEW p \in Proposals, NEW t, AcceptAndExchange(p, t) \/ Approve(p)
  PROVE  ExchangeBy(p)
<1>1. CASE AcceptAndExchange(p, t)
  <2>1. /\ Open(p) /\ now < trade[p].effective /\ Eligible(trade[p])
        /\ t \in trade[p].teams /\ trade[p].teams \ trade[p].consents = {t}
    BY <1>1 DEF AcceptAndExchange, MayAccept, MayAnswer, LastToAccept
  <2>2. trade[p].teams = trade[p].consents \cup {t}
    BY <2>1, RowFacts DEF WellFormed, Open
  <2>3. QED
    BY <1>1, <2>1, <2>2 DEF ExchangeBy, AcceptAndExchange
<1>2. CASE Approve(p)
  <2>1. Open(p) /\ trade[p].status # "none"
    BY <1>2 DEF Approve, Open
  <2>2. trade[p].proposer \in trade[p].teams
    BY <2>1, RowFacts DEF WellFormed
  <2>3. QED
    BY <1>2, <2>1, <2>2 DEF ExchangeBy, Approve
<1>3. QED
  BY <1>1, <1>2

LEMMA StepCases ==
  ASSUME RowsTyped, \A w \in Workers : WorkTyped(work[w]), [Next]_vars
  PROVE  \/ Aside \/ Submission
         \/ \E p \in Proposals :
               \/ Answered(p) \/ ExchangeBy(p) \/ Reverse(p)
               \/ \E slotTaken \in BOOLEAN : MarkForCorrection(p, slotTaken)
         \/ \E c \in Contracts : BuyOut(c) \/ MoveOnRoster(c)
         \/ \E d \in Deadlines : ChangeDeadline(d)
         \/ Tick
<1>1. CASE UNCHANGED vars
  BY <1>1 DEF vars, Aside, rosters, record
<1>2. CASE Submissions
  BY <1>2 DEF Submissions, Submission, Submits
<1>3. CASE Answers
  <2>1. PICK p \in Proposals :
           \/ Cancel(p)
           \/ \E t \in Teams : Reject(p, t) \/ AcceptInPart(p, t)
                                 \/ AcceptForApproval(p, t) \/ AcceptAndExchange(p, t)
    BY <1>3 DEF Answers
  <2>2. Answered(p) \/ ExchangeBy(p)
    BY <2>1, AnswersAre, ExchangesAre
  <2>3. QED
    BY <2>2
<1>4. CASE Commissions
  <2>1. CASE PauseLeague \/ ResumeLeague
    BY <2>1 DEF PauseLeague, ResumeLeague, Aside
  <2>2. ASSUME NEW p \in Proposals, Approve(p)
        PROVE  ExchangeBy(p)
    BY <2>2, ExchangesAre
  <2>3. QED
    BY <1>4, <2>1, <2>2 DEF Commissions
<1>5. ASSUME NEW w \in Workers, Step(w) \/ Crash(w)
      PROVE  Aside \/ \E p \in Proposals : Answered(p)
  <2>1. CASE Expire(w)
    BY <2>1, ExpiryIs
  <2>2. CASE ~Expire(w)
    BY <1>5, <2>2 DEF Step, List, Claim, Succeed, Fail, EndCycle, Crash, Aside
  <2>3. QED
    BY <2>1, <2>2
<1>6. QED
  BY <1>1, <1>2, <1>3, <1>4, <1>5 DEF Next

----------------------------------------------------------------------------
\* Type correctness.

LEMMA TypedTimes == TypeInv => TimesTyped
BY TradeAssumption DEF TypeInv, TypeOK, TimesTyped, Times

LEMMA RetentionStays ==
  ASSUME TypeInv, retention' = retention,
         \A q \in Proposals :
            \/ trade'[q] = trade[q]
            \/ trade[q].status \notin Done /\ trade'[q].status \notin Done
            \/ /\ trade[q].status \in Done /\ trade'[q].status \in Done
               /\ trade'[q].retained = trade[q].retained
  PROVE  RetentionFollows'
BY DEF TypeInv, RetentionFollows

\* What an exchange and a buyout do besides the rows of the trades.
LEMMA ExchangeParts ==
  ASSUME NEW p, Exchange(p)
  PROVE  /\ owner' = [i \in Items |->
               IF i \in Moved(p) THEN HolderAfter(p, i)
               ELSE IF i = p /\ trade[p].promise # {} THEN Entitled(p)
               ELSE owner[i]]
         /\ touched' = [i \in Items |->
               IF i \in Moved(p) \/ (i = p /\ trade[p].promise # {}) THEN touched[i] + 1 ELSE touched[i]]
         /\ retention' = [retention EXCEPT ![p] = DOMAIN trade[p].retained]
         /\ executed' = Append(executed, p)
BY ZenonT(30) DEF Exchange

LEMMA BuyOutParts ==
  ASSUME NEW c, BuyOut(c)
  PROVE  /\ owner' = [owner EXCEPT ![c] = Nobody]
         /\ touched' = [touched EXCEPT ![c] = @ + 1]
         /\ owner[c] # Nobody
         /\ UNCHANGED <<now, tradeDeadline, retention, record, jobs, work>>
<1> USE DEF record, job
<1>1. QED
  BY ZenonT(30) DEF BuyOut

LEMMA HoldersTyped ==
  ASSUME TypeInv, NEW p \in Proposals, Open(p), Exchange(p)
  PROVE  /\ owner' \in [Items -> Teams \cup {Nobody}] /\ touched' \in [Items -> Nat]
         /\ retention' \in [Proposals -> SUBSET Contracts] /\ executed' \in Seq(Proposals)
<1>1. RowsTyped /\ trade[p].status # "none"
  BY DEF TypeInv, Open
<1>2. \A i \in Moved(p) : HolderAfter(p, i) \in Teams \cup {Nobody}
  BY <1>1, MovesFacts DEF HolderAfter
<1>3. trade[p].promise # {} => Entitled(p) \in Teams
  BY <1>1, PromiseFacts
<1>4. owner' \in [Items -> Teams \cup {Nobody}]
  <2>1. owner' = [i \in Items |->
               IF i \in Moved(p) THEN HolderAfter(p, i)
               ELSE IF i = p /\ trade[p].promise # {} THEN Entitled(p)
               ELSE owner[i]]
    BY ExchangeParts
  <2>2. QED
    BY <1>2, <1>3, <2>1 DEF TypeInv, TypeOK
<1>5. touched' \in [Items -> Nat]
  <2>1. touched' = [i \in Items |->
               IF i \in Moved(p) \/ (i = p /\ trade[p].promise # {}) THEN touched[i] + 1 ELSE touched[i]]
    BY ExchangeParts
  <2>2. touched \in [Items -> Nat]
    BY DEF TypeInv, TypeOK
  <2>3. QED
    BY <2>1, <2>2
<1>6. DOMAIN trade[p].retained \in SUBSET Contracts
  BY <1>1, RowFacts DEF WellFormed
<1>7. retention' \in [Proposals -> SUBSET Contracts]
  <2>1. retention' = [retention EXCEPT ![p] = DOMAIN trade[p].retained]
    BY ExchangeParts
  <2>2. QED
    BY <1>6, <2>1 DEF TypeInv
<1>8. executed' \in Seq(Proposals)
  <2>1. executed' = Append(executed, p)
    BY ExchangeParts
  <2>2. QED
    BY <2>1 DEF TypeInv, TypeOK
<1>9. QED
  BY <1>4, <1>5, <1>7, <1>8

TradesTyped ==
  /\ RowsTyped /\ RetentionFollows
  /\ retention \in [Proposals -> SUBSET Contracts]
  /\ owner \in [Items -> Teams \cup {Nobody}] /\ touched \in [Items -> Nat]
  /\ executed \in Seq(Proposals) /\ lapsed \subseteq Proposals
  /\ tradeDeadline \in Deadlines

LEMMA TradesTypedInductive ==
  ASSUME TypeInv, [Next]_vars
  PROVE  TradesTyped'
<1> USE DEF rosters, record
<1>1. /\ RowsTyped /\ TimesTyped /\ RetentionFollows /\ TradesTyped
      /\ \A w \in Workers : WorkTyped(work[w])
  BY TypedTimes DEF TypeInv, TypeOK, TradesTyped
<1>2. CASE Aside
  BY <1>1, <1>2 DEF Aside, TradesTyped, RowsTyped, RetentionFollows
<1>3. ASSUME NEW p \in Fresh, NEW teams \in SUBSET Teams, NEW proposer \in teams,
             NEW terms \in Offers(teams), Submits(p, teams, proposer, terms)
      PROVE  TradesTyped'
  <2>1. /\ RowsTyped' /\ p \in Proposals /\ trade[p].status = "none"
        /\ trade'[p] = Submitted(proposer, teams, terms)
        /\ \A q \in Proposals \ {p} :
               \/ trade'[q] = trade[q]
               \/ /\ trade[q].status = "proposed"
                  /\ RowStep(q, "declined", trade[q].consents \ {proposer}, trade[q].effective)
        /\ UNCHANGED <<now, league, tradeDeadline, rosters, record, job, bounds>>
    BY <1>1, <1>3, SubmittedRows DEF Submits
  <2>2. trade'[p].status = "proposed"
    BY <2>1 DEF Submitted
  <2>3. RetentionFollows'
    BY <2>1, <2>2, RetentionStays DEF RowStep, Done
  <2>4. QED
    BY <1>1, <2>1, <2>3 DEF TradesTyped
<1>4. ASSUME NEW p \in Proposals, Answered(p)
      PROVE  TradesTyped'
  <2>1. RetentionFollows'
    BY <1>4, RetentionStays DEF Answered, OnlyRow, ClosedBy, AgreedBy, RowStep, Done, Open
  <2>2. QED
    BY <1>1, <1>4, <2>1 DEF Answered, TradesTyped
<1>5. ASSUME NEW p \in Proposals, ExchangeBy(p)
      PROVE  TradesTyped'
  <2>1. /\ RowsTyped'
        /\ RowStep(p, "completed", trade[p].teams, trade[p].effective)
        /\ \A q \in Proposals \ {p} :
              /\ Overtaken(p, q) => RowStep(q, "cancelled", trade[q].consents, trade[q].effective)
              /\ ~Overtaken(p, q) => trade'[q] = trade[q]
    BY <1>1, <1>5, ExchangeRows DEF ExchangeBy
  <2>2. retention' = [retention EXCEPT ![p] = DOMAIN trade[p].retained]
    BY <1>5 DEF ExchangeBy, Exchange
  <2>3. ASSUME NEW q \in Proposals
        PROVE  retention'[q] = IF trade'[q].status \in Done THEN DOMAIN trade'[q].retained ELSE {}
    <3>1. CASE q = p
      BY <1>1, <2>1, <2>2, <3>1 DEF RowStep, SameTerms, Done, TradesTyped
    <3>2. CASE q # p /\ Overtaken(p, q)
      BY <1>1, <2>1, <2>2, <3>2 DEF RowStep, Done, Overtaken, Open, RetentionFollows, TradesTyped
    <3>3. CASE q # p /\ ~Overtaken(p, q)
      BY <1>1, <2>1, <2>2, <3>3 DEF RetentionFollows, TradesTyped
    <3>4. QED
      BY <3>1, <3>2, <3>3
  <2>4. QED
    BY <1>1, <1>5, <2>1, <2>3, HoldersTyped DEF TradesTyped, RetentionFollows, ExchangeBy
<1>6. ASSUME NEW p \in Proposals, Reverse(p)
      PROVE  TradesTyped'
  <2>1. RowsTyped' /\ OnlyRow(p) /\ RowStep(p, "reversed", trade[p].consents, trade[p].effective)
    BY <1>1, <1>6, ClosedStep DEF Reverse, Statuses
  <2>2. retention' = [retention EXCEPT ![p] = {}]
    BY <1>6 DEF Reverse
  <2>3. RetentionFollows'
    BY <1>1, <2>1, <2>2 DEF RetentionFollows, OnlyRow, RowStep, Done, TradesTyped
  <2>4. \A i \in Moved(p) : trade[p].moves[i].from \in Teams
    BY <1>1, <1>6, MovesFacts DEF Reverse
  <2>5. owner' \in [Items -> Teams \cup {Nobody}] /\ touched' \in [Items -> Nat]
    BY <1>1, <1>6, <2>4 DEF Reverse, TradesTyped
  <2>6. QED
    BY <1>1, <1>6, <2>1, <2>2, <2>3, <2>5 DEF TradesTyped, Reverse
<1>7. ASSUME NEW p \in Proposals, NEW slotTaken \in BOOLEAN, MarkForCorrection(p, slotTaken)
      PROVE  TradesTyped'
  <2>1. /\ RowsTyped' /\ OnlyRow(p)
        /\ RowStep(p, "correction_required", trade[p].consents, trade[p].effective)
    BY <1>1, <1>7, ClosedStep DEF MarkForCorrection, Statuses
  <2>2. RetentionFollows'
    BY <1>7, <2>1, RetentionStays DEF MarkForCorrection, OnlyRow, RowStep, SameTerms, Done
  <2>3. QED
    BY <1>1, <1>7, <2>1, <2>2 DEF TradesTyped, MarkForCorrection
<1>8. ASSUME NEW c \in Contracts, BuyOut(c)
      PROVE  TradesTyped'
  <2>1. /\ RowsTyped'
        /\ \A q \in Proposals :
               /\ q \in Offering(c) =>
                     RowStep(q, "cancelled", trade[q].consents, trade[q].effective)
               /\ q \notin Offering(c) => trade'[q] = trade[q]
    BY <1>1, <1>8, BuyOutRows
  <2>2. RetentionFollows'
    BY <1>8, <2>1, RetentionStays DEF BuyOut, RowStep, Done, Offering, Open
  <2>3. owner' \in [Items -> Teams \cup {Nobody}] /\ touched' \in [Items -> Nat]
    <3>1. owner' = [owner EXCEPT ![c] = Nobody] /\ touched' = [touched EXCEPT ![c] = @ + 1]
      BY <1>8, BuyOutParts
    <3>2. QED
      BY <1>1, <3>1, ItemFacts DEF TradesTyped
  <2>4. QED
    BY <1>1, <1>8, <2>1, <2>2, <2>3 DEF TradesTyped, BuyOut
<1>9. ASSUME NEW c \in Contracts, MoveOnRoster(c)
      PROVE  TradesTyped'
  <2>1. touched' \in [Items -> Nat]
    BY <1>1, <1>9, ItemFacts DEF MoveOnRoster, TradesTyped
  <2>2. QED
    BY <1>1, <1>9, <2>1 DEF MoveOnRoster, TradesTyped, RowsTyped, RetentionFollows
<1>10. ASSUME NEW d \in Deadlines, ChangeDeadline(d)
       PROVE  TradesTyped'
  <2>1. /\ RowsTyped'
        /\ \A q \in Proposals :
               \/ trade'[q] = trade[q]
               \/ /\ Open(q) /\ now < trade[q].effective
                  /\ \E e \in Nat : RowStep(q, trade[q].status, trade[q].consents, e)
    BY <1>1, <1>10, DeadlineRows
  <2>2. RetentionFollows'
    BY <1>10, <2>1, RetentionStays DEF ChangeDeadline, RowStep, SameTerms, Done, Open
  <2>3. QED
    BY <1>1, <1>10, <2>1, <2>2 DEF TradesTyped, ChangeDeadline
<1>11. CASE Tick
  BY <1>1, <1>11 DEF Tick, TradesTyped, RowsTyped, RetentionFollows
<1>12. QED
  BY <1>1, <1>2, <1>3, <1>4, <1>5, <1>6, <1>7, <1>8, <1>9, <1>10, <1>11, StepCases DEF Submission

\* The job's rows and the hands of its workers.
JobsTyped ==
  /\ DOMAIN jobs = Proposals \X Times
  /\ \A o \in Proposals \X Times : jobs[o].status \in {"none", "leased", "succeeded", "failed"}
  /\ DOMAIN work = Workers
  /\ \A w \in Workers : WorkTyped(work[w])

LEMMA DueTyped ==
  ASSUME TypeInv
  PROVE  Due \subseteq DueOffer
<1> SUFFICES ASSUME NEW d \in Due PROVE d \in DueOffer
  OBVIOUS
<1>1. PICK p \in Proposals :
        /\ Open(p) /\ trade[p].effective <= now
        /\ d = [trade |-> p, deadline |-> trade[p].effective, version |-> trade[p].version]
  BY DEF Due
<1>2. trade[p].effective \in Nat /\ trade[p].version \in Nat
  BY <1>1, RowFacts DEF TypeInv, Open
<1>3. trade[p].effective \in Times
  BY <1>1, <1>2, TradeAssumption DEF TypeInv, TypeOK, Times
<1>4. QED
  BY <1>1, <1>2, <1>3 DEF DueOffer

LEMMA OccurrenceTyped ==
  ASSUME NEW d \in DueOffer
  PROVE  Occurrence(d) \in Proposals \X Times
BY DEF DueOffer, Occurrence

\* One worker's hands change, or one row of the job.
LEMMA WorkChanges ==
  ASSUME JobsTyped, NEW w \in Workers, NEW x, WorkTyped(x), work' = [work EXCEPT ![w] = x]
  PROVE  DOMAIN work' = Workers /\ \A v \in Workers : WorkTyped(work'[v])
BY DEF JobsTyped

LEMMA JobsChange ==
  ASSUME JobsTyped, NEW o \in Proposals \X Times, NEW row,
         row.status \in {"none", "leased", "succeeded", "failed"},
         jobs' = [jobs EXCEPT ![o] = row]
  PROVE  /\ DOMAIN jobs' = Proposals \X Times
         /\ \A x \in Proposals \X Times :
               jobs'[x].status \in {"none", "leased", "succeeded", "failed"}
BY DEF JobsTyped

LEMMA HandsTyped ==
  ASSUME NEW at, NEW due \in SUBSET DueOffer, NEW d \in DueOffer, NEW v
  PROVE  /\ WorkTyped(Idle)
         /\ WorkTyped([pc |-> "batch", at |-> at, due |-> due])
         /\ WorkTyped([pc |-> "claimed", at |-> at, due |-> due, offer |-> d, version |-> v])
BY DEF WorkTyped, Idle

LEMMA NextOfferTyped ==
  ASSUME JobsTyped, NEW w \in Workers, work[w].pc # "idle", work' = NextOffer(w)
  PROVE  DOMAIN work' = Workers /\ \A v \in Workers : WorkTyped(work'[v])
<1> DEFINE x == [pc |-> "batch", at |-> work[w].at, due |-> work[w].due]
<1>1. work[w].due \subseteq DueOffer
  BY DEF JobsTyped, WorkTyped
<1>2. WorkTyped(x)
  BY <1>1 DEF WorkTyped
<1>3. work' = [work EXCEPT ![w] = x]
  BY DEF NextOffer
<1> HIDE DEF x
<1>4. QED
  BY <1>2, <1>3, WorkChanges

LEMMA HeldOffer ==
  ASSUME JobsTyped, NEW w \in Workers, work[w].pc \in {"claimed", "done", "failed"}
  PROVE  /\ work[w].offer \in DueOffer /\ work[w].offer.trade \in Proposals
         /\ Occurrence(work[w].offer) \in Proposals \X Times
         /\ Occurrence(work[w].offer)[1] = work[w].offer.trade
BY OccurrenceTyped DEF JobsTyped, WorkTyped, DueOffer, Occurrence

LEMMA JobsTypedInductive ==
  ASSUME TypeInv, [Next]_vars
  PROVE  JobsTyped'
<1> USE DEF job
<1>1. JobsTyped /\ Due \subseteq DueOffer
  BY DueTyped DEF TypeInv, TypeOK, JobsTyped
<1>2. CASE UNCHANGED <<jobs, work>>
  BY <1>1, <1>2 DEF JobsTyped
<1>3. CASE \/ UNCHANGED vars \/ Submissions \/ Answers \/ Commissions \/ Tick
           \/ \E c \in Contracts : BuyOut(c) \/ MoveOnRoster(c)
  <2>1. UNCHANGED <<jobs, work>>
    BY <1>3 DEF vars, Submissions, Propose, Counter, Answers, Cancel, Reject, AcceptInPart,
       AcceptForApproval, AcceptAndExchange, Commissions, Approve, Reverse, MarkForCorrection,
       ChangeDeadline, PauseLeague, ResumeLeague, Tick, BuyOut, MoveOnRoster
  <2>2. QED
    BY <1>2, <2>1
<1>4. ASSUME NEW w \in Workers, List(w)
      PROVE  JobsTyped'
  <2>1. WorkTyped([pc |-> "batch", at |-> now, due |-> Due])
    BY <1>1 DEF WorkTyped
  <2>2. DOMAIN work' = Workers /\ \A v \in Workers : WorkTyped(work'[v])
    BY <1>1, <1>4, <2>1, WorkChanges DEF List
  <2>3. QED
    BY <1>1, <1>4, <2>2 DEF List, JobsTyped
<1>5. ASSUME NEW w \in Workers, NEW d, Claim(w, d)
      PROVE  JobsTyped'
  <2> DEFINE row == jobs[Occurrence(d)]
             rest == work[w].due \ {d}
             v == RunVersion(row) + 1
             leased == [status |-> "leased", worker |-> w, until |-> work[w].at + LeaseDuration,
                        version |-> v]
             hands == [pc |-> "claimed", at |-> work[w].at, due |-> rest, offer |-> d, version |-> v]
             skipped == [work[w] EXCEPT !.due = rest]
  <2>1. d \in DueOffer /\ rest \in SUBSET DueOffer /\ work[w].pc = "batch"
    BY <1>1, <1>5 DEF Claim, JobsTyped, WorkTyped
  <2>2. Occurrence(d) \in Proposals \X Times
    BY <2>1, OccurrenceTyped
  <2>3. CASE jobs' = [jobs EXCEPT ![Occurrence(d)] = leased] /\ work' = [work EXCEPT ![w] = hands]
    <3>1. leased.status = "leased"
      OBVIOUS
    <3>2. WorkTyped(hands)
      BY <2>1 DEF WorkTyped
    <3> HIDE DEF leased, hands
    <3>3. QED
      BY <1>1, <2>2, <2>3, <3>1, <3>2, WorkChanges, JobsChange DEF JobsTyped
  <2>4. CASE jobs' = jobs /\ work' = [work EXCEPT ![w].due = rest]
    <3>1. work' = [work EXCEPT ![w] = skipped]
      BY <2>4
    <3>2. WorkTyped(skipped)
      BY <2>1 DEF WorkTyped
    <3> HIDE DEF skipped
    <3>3. QED
      BY <1>1, <2>4, <3>1, <3>2, WorkChanges DEF JobsTyped
  <2>5. QED
    BY <1>5, <2>3, <2>4 DEF Claim
<1>6. ASSUME NEW w \in Workers, Expire(w)
      PROVE  JobsTyped'
  <2>1. work[w].pc = "claimed" /\ jobs' = jobs
    BY <1>6 DEF Expire
  <2>2. CASE Outcome(w) = "skipped"
    <3>1. work' = NextOffer(w)
      BY <1>6, <2>2 DEF Expire
    <3>2. QED
      BY <1>1, <2>1, <3>1, NextOfferTyped DEF JobsTyped
  <2>3. CASE Outcome(w) # "skipped"
    <3> DEFINE x == [work[w] EXCEPT !.pc = Outcome(w)]
    <3>1. Outcome(w) \in {"skipped", "failed", "done"}
      BY DEF Outcome
    <3>2. work' = [work EXCEPT ![w] = x]
      BY <1>6, <2>3 DEF Expire
    <3>3. WorkTyped(x)
      BY <1>1, <2>1, <2>3, <3>1 DEF JobsTyped, WorkTyped
    <3> HIDE DEF x
    <3>4. QED
      BY <1>1, <2>1, <3>2, <3>3, WorkChanges DEF JobsTyped
  <2>4. QED
    BY <2>2, <2>3
<1>7. ASSUME NEW w \in Workers, NEW st \in {"succeeded", "failed"}, jobs' = EndedRun(w, st),
             work[w].pc \in {"done", "failed"}
      PROVE  /\ DOMAIN jobs' = Proposals \X Times
             /\ \A x \in Proposals \X Times :
                   jobs'[x].status \in {"none", "leased", "succeeded", "failed"}
  <2> DEFINE row == [status |-> st, version |-> work[w].version + 1]
             o == Occurrence(work[w].offer)
  <2>1. o \in Proposals \X Times
    BY <1>1, <1>7, HeldOffer
  <2>2. jobs' = [jobs EXCEPT ![o] = row]
    BY <1>7 DEF EndedRun
  <2>3. row.status \in {"none", "leased", "succeeded", "failed"}
    OBVIOUS
  <2> HIDE DEF row, o
  <2>4. QED
    BY <1>1, <2>1, <2>2, <2>3 DEF JobsTyped
<1>8. ASSUME NEW w \in Workers, Succeed(w)
      PROVE  JobsTyped'
  <2>1. DOMAIN work' = Workers /\ \A v \in Workers : WorkTyped(work'[v])
    BY <1>1, <1>8, NextOfferTyped DEF Succeed
  <2>2. jobs' = jobs \/ jobs' = EndedRun(w, "succeeded")
    BY <1>8 DEF Succeed
  <2>3. QED
    BY <1>1, <1>7, <1>8, <2>1, <2>2 DEF Succeed, JobsTyped
<1>9. ASSUME NEW w \in Workers, Fail(w)
      PROVE  JobsTyped'
  <2>1. work' = NextOffer(w) \/ work' = [work EXCEPT ![w] = Idle]
    BY <1>9 DEF Fail
  <2>2. WorkTyped(Idle)
    BY DEF WorkTyped, Idle
  <2>3. DOMAIN work' = Workers /\ \A v \in Workers : WorkTyped(work'[v])
    BY <1>1, <1>9, <2>1, <2>2, NextOfferTyped, WorkChanges DEF Fail
  <2>4. jobs' = jobs \/ jobs' = EndedRun(w, "failed")
    BY <1>9 DEF Fail
  <2>5. QED
    BY <1>1, <1>7, <1>9, <2>3, <2>4 DEF Fail, JobsTyped
<1>10. ASSUME NEW w \in Workers, EndCycle(w) \/ Crash(w)
       PROVE  JobsTyped'
  <2>1. work' = [work EXCEPT ![w] = Idle] /\ jobs' = jobs
    BY <1>10 DEF EndCycle, Crash
  <2>2. WorkTyped(Idle)
    BY DEF WorkTyped, Idle
  <2>3. QED
    BY <1>1, <2>1, <2>2, WorkChanges DEF JobsTyped
<1>11. QED
  BY <1>3, <1>4, <1>5, <1>6, <1>8, <1>9, <1>10 DEF Next, Step

\* The clock, the league's status and the counters of the bounds.
LEMMA CountersTyped ==
  ASSUME TypeInv, [Next]_vars
  PROVE  /\ now' \in Times /\ league' \in {"active", "frozen"}
         /\ interventions' \in 0..MaxInterventions /\ crashes' \in 0..MaxCrashes
<1> USE DEF bounds
<1>1. /\ now \in Times /\ league \in {"active", "frozen"}
      /\ interventions \in 0..MaxInterventions /\ crashes \in 0..MaxCrashes
  BY DEF TypeInv, TypeOK
<1>2. CASE UNCHANGED <<now, league, interventions, crashes>>
  BY <1>1, <1>2
<1>3. CASE Submissions \/ Answers \/ UNCHANGED vars
  <2>1. UNCHANGED <<now, league, interventions, crashes>>
    BY <1>3 DEF vars, Submissions, Propose, Counter, Answers, Cancel, Reject, AcceptInPart,
       AcceptForApproval, AcceptAndExchange
  <2>2. QED
    BY <1>2, <2>1
<1>4. ASSUME Intervene
      PROVE  interventions' \in 0..MaxInterventions /\ crashes' \in 0..MaxCrashes
  BY <1>1, <1>4, TradeAssumption DEF Intervene
<1>5. CASE Commissions
  <2>1. CASE \E p \in Proposals :
                Approve(p) \/ Reverse(p) \/ \E slotTaken \in BOOLEAN : MarkForCorrection(p, slotTaken)
    BY <1>1, <2>1 DEF Approve, Reverse, MarkForCorrection
  <2>2. CASE (\E d \in Deadlines : ChangeDeadline(d)) \/ PauseLeague \/ ResumeLeague
    <3>1. now' = now /\ league' \in {"active", "frozen"}
      BY <1>1, <2>2 DEF ChangeDeadline, PauseLeague, ResumeLeague
    <3>2. Intervene \/ UNCHANGED <<interventions, crashes>>
      BY <2>2 DEF ChangeDeadline, PauseLeague, ResumeLeague
    <3>3. QED
      BY <1>1, <1>4, <3>1, <3>2
  <2>3. QED
    BY <1>5, <2>1, <2>2 DEF Commissions
<1>6. CASE \E c \in Contracts : BuyOut(c) \/ MoveOnRoster(c)
  <2>1. now' = now /\ league' = league /\ Intervene
    BY <1>6 DEF BuyOut, MoveOnRoster
  <2>2. QED
    BY <1>1, <1>4, <2>1
<1>7. CASE Tick
  BY <1>1, <1>7, TradeAssumption DEF Tick, Times
<1>8. ASSUME NEW w \in Workers, Step(w) \/ Crash(w)
      PROVE  /\ now' = now /\ league' = league /\ interventions' = interventions
             /\ crashes' \in 0..MaxCrashes
  BY <1>1, <1>8, TradeAssumption DEF Step, List, Claim, Expire, Succeed, Fail, EndCycle, Crash
<1>9. QED
  BY <1>1, <1>3, <1>4, <1>5, <1>6, <1>7, <1>8 DEF Next

LEMMA TypeInductive ==
  ASSUME TypeInv, [Next]_vars
  PROVE  TypeInv'
<1>1. TradesTyped' /\ JobsTyped'
  BY TradesTypedInductive, JobsTypedInductive
<1>2. /\ now' \in Times /\ league' \in {"active", "frozen"}
      /\ interventions' \in 0..MaxInterventions /\ crashes' \in 0..MaxCrashes
  BY CountersTyped
<1>3. \A p \in Proposals : trade'[p] # NoTrade =>
          /\ trade'[p].status \in Statuses
          /\ trade'[p].version \in Nat \ {0}
          /\ trade'[p].effective <= trade'[p].expires
          /\ Terms(p)'
  <2> SUFFICES ASSUME NEW p \in Proposals, trade'[p] # NoTrade
               PROVE  /\ trade'[p].status \in Statuses /\ trade'[p].version \in Nat \ {0}
                      /\ trade'[p].effective <= trade'[p].expires
                      /\ Terms(p)'
    OBVIOUS
  <2>1. trade'[p] \in GoodRow
    BY <1>1 DEF TradesTyped, RowsTyped
  <2>2. /\ trade'[p].status \in Statuses /\ trade'[p].version \in Nat \ {0}
        /\ trade'[p].teams \subseteq Teams /\ WellFormed(trade'[p])
    BY <2>1, GoodRowFacts
  <2>3. QED
    BY <2>2 DEF WellFormed, Terms, Moved
<1>4. \A p \in Proposals : retention'[p] = {} \/ retention'[p] = DOMAIN trade'[p].retained
  BY <1>1 DEF TradesTyped, RetentionFollows
<1>5. \A w \in Workers : work'[w].pc \in {"idle", "batch", "claimed", "done", "failed"}
  BY <1>1 DEF JobsTyped, WorkTyped
<1>6. TypeOK'
  BY <1>1, <1>2, <1>3, <1>4, <1>5 DEF TypeOK, TradesTyped, JobsTyped
<1>7. QED
  BY <1>1, <1>6 DEF TypeInv, TradesTyped, JobsTyped

LEMMA TypeInitial == Init => TypeInv
<1> SUFFICES ASSUME Init PROVE TypeInv
  OBVIOUS
<1>1. RowsTyped
  BY DEF Init, RowsTyped
<1>2. \A p \in Proposals : trade[p] = NoTrade /\ retention[p] = {} /\ trade[p].status = "none"
  BY DEF Init, NoTrade
<1>3. RetentionFollows /\ retention \in [Proposals -> SUBSET Contracts]
  BY <1>2 DEF RetentionFollows, Done, Init
<1>4. owner \in [Items -> Teams \cup {Nobody}]
  BY DEF Init
<1>5. touched \in [Items -> Nat] /\ executed \in Seq(Proposals) /\ lapsed \subseteq Proposals
  BY DEF Init
<1>6. /\ DOMAIN jobs = Proposals \X Times /\ DOMAIN work = Workers
      /\ \A o \in Proposals \X Times : jobs[o].status = "none"
      /\ \A w \in Workers : work[w].pc = "idle" /\ WorkTyped(work[w])
  BY DEF Init, NoJob, Idle, WorkTyped
<1>7. now \in Times /\ interventions \in 0..MaxInterventions /\ crashes \in 0..MaxCrashes
  BY TradeAssumption DEF Init, Times
<1>8. league \in {"active", "frozen"} /\ tradeDeadline \in Deadlines
  BY DEF Init
<1>9. TypeOK
  BY <1>2, <1>4, <1>5, <1>6, <1>7, <1>8 DEF TypeOK
<1>10. QED
  BY <1>1, <1>3, <1>6, <1>9 DEF TypeInv

LEMMA TypesHold == Spec => []TypeInv
<1>1. TypeInv /\ [Next]_vars => TypeInv'
  BY TypeInductive
<1>2. QED
  BY <1>1, TypeInitial, PTL DEF Spec

\* The state has the types of the tables, whatever is offered, exchanged,
\* reversed or expired in whatever order.
THEOREM TypeCorrect == Spec => []TypeOK
<1>1. TypeInv => TypeOK
  BY DEF TypeInv
<1>2. QED
  BY <1>1, TypesHold, PTL

----------------------------------------------------------------------------
\* Lapsed offers.

\* What is true of a lapsed offer: it was written and not completed, and if it
\* is open its deadline is behind it.
LapsedInv ==
  \A p \in lapsed :
     /\ trade[p].status \notin {"none", "completed", "reversed", "correction_required"}
     /\ Open(p) => trade[p].effective <= now

LEMMA LapsedInductive ==
  ASSUME TypeInv, LapsedInv, [Next]_vars
  PROVE  LapsedInv'
<1> USE DEF rosters, record
<1>1. /\ RowsTyped /\ TimesTyped /\ lapsed \subseteq Proposals
      /\ \A w \in Workers : WorkTyped(work[w])
  BY TypedTimes DEF TypeInv, TypeOK
<1> DEFINE Lapsed(p) == /\ trade[p].status \notin {"none", "completed", "reversed", "correction_required"}
                        /\ Open(p) => trade[p].effective <= now
<1>2. ASSUME NEW p \in lapsed, trade'[p] = trade[p], now' = now
      PROVE  Lapsed(p)'
  BY <1>2 DEF LapsedInv, Open
<1>3. CASE Aside
  BY <1>3 DEF Aside, LapsedInv, Open
<1>4. ASSUME NEW p \in Fresh, NEW teams \in SUBSET Teams, NEW proposer \in teams,
             NEW terms \in Offers(teams), Submits(p, teams, proposer, terms)
      PROVE  LapsedInv'
  <2>1. /\ p \in Proposals /\ trade[p].status = "none" /\ now' = now /\ lapsed' = lapsed
        /\ \A q \in Proposals \ {p} :
               \/ trade'[q] = trade[q]
               \/ /\ trade[q].status = "proposed"
                  /\ RowStep(q, "declined", trade[q].consents \ {proposer}, trade[q].effective)
    BY <1>1, <1>4, SubmittedRows DEF Submits
  <2>2. p \notin lapsed
    BY <2>1 DEF LapsedInv
  <2>3. QED
    BY <1>1, <1>2, <2>1, <2>2 DEF LapsedInv, RowStep, Open
<1>5. ASSUME NEW p \in Proposals, Answered(p)
      PROVE  LapsedInv'
  BY <1>1, <1>5 DEF Answered, OnlyRow, ClosedBy, AgreedBy, RowStep, LapsedInv, Open
<1>6. ASSUME NEW p \in Proposals, ExchangeBy(p)
      PROVE  LapsedInv'
  <2>1. /\ \A q \in Proposals \ {p} :
              /\ Overtaken(p, q) => RowStep(q, "cancelled", trade[q].consents, trade[q].effective)
              /\ ~Overtaken(p, q) => trade'[q] = trade[q]
        /\ trade[p].effective \in Nat
    BY <1>1, <1>6, ExchangeRows, RowFacts DEF ExchangeBy, Open
  <2>2. p \notin lapsed
    BY <1>1, <1>6, <2>1 DEF ExchangeBy, LapsedInv, TimesTyped
  <2>3. now' = now /\ lapsed' = lapsed
    BY <1>6 DEF ExchangeBy
  <2>4. QED
    BY <1>1, <1>2, <2>1, <2>2, <2>3 DEF LapsedInv, RowStep, Open
<1>7. ASSUME NEW p \in Proposals, NEW slotTaken \in BOOLEAN,
             Reverse(p) \/ MarkForCorrection(p, slotTaken)
      PROVE  LapsedInv'
  <2>1. trade[p].status = "completed" /\ now' = now /\ lapsed' = lapsed
    BY <1>7 DEF Reverse, MarkForCorrection
  <2>2. OnlyRow(p)
    BY <1>1, <1>7, <2>1, ClosedStep DEF Reverse, MarkForCorrection, Statuses
  <2>3. QED
    BY <1>1, <1>2, <2>1, <2>2 DEF LapsedInv, OnlyRow
<1>8. ASSUME NEW c \in Contracts, BuyOut(c)
      PROVE  LapsedInv'
  <2>1. \A q \in Proposals :
               /\ q \in Offering(c) =>
                     RowStep(q, "cancelled", trade[q].consents, trade[q].effective)
               /\ q \notin Offering(c) => trade'[q] = trade[q]
    BY <1>1, <1>8, BuyOutRows
  <2>2. now' = now /\ lapsed' = lapsed
    BY <1>8, BuyOutParts
  <2>3. QED
    BY <1>1, <1>2, <2>1, <2>2 DEF LapsedInv, RowStep, Open
<1>9. ASSUME NEW d \in Deadlines, ChangeDeadline(d)
      PROVE  LapsedInv'
  <2>1. \A q \in Proposals :
               \/ trade'[q] = trade[q]
               \/ /\ Open(q) /\ now < trade[q].effective
                  /\ \E e \in Nat : RowStep(q, trade[q].status, trade[q].consents, e)
    BY <1>1, <1>9, DeadlineRows
  <2>2. now' = now /\ lapsed' = lapsed
    BY <1>9 DEF ChangeDeadline
  <2>3. \A q \in lapsed : Open(q) => ~(now < trade[q].effective)
    BY <1>1, RowFacts DEF LapsedInv, TimesTyped, Open
  <2>4. QED
    BY <1>1, <1>2, <2>1, <2>2, <2>3 DEF LapsedInv
<1>10. CASE Tick
  <2>1. /\ now' = now + 1 /\ trade' = trade
        /\ lapsed' = lapsed \cup {p \in Proposals : Open(p) /\ trade[p].effective <= now + 1}
    BY <1>10 DEF Tick
  <2>2. ASSUME NEW p \in lapsed' PROVE Lapsed(p)'
    <3>1. CASE p \in lapsed
      <4>1. Open(p) => trade[p].effective \in Nat
        BY <1>1, <3>1, RowFacts DEF Open
      <4>2. QED
        BY <1>1, <2>1, <3>1, <4>1 DEF LapsedInv, TimesTyped, Open
    <3>2. CASE p \notin lapsed
      BY <2>1, <2>2, <3>2 DEF Open
    <3>3. QED
      BY <3>1, <3>2
  <2>3. QED
    BY <2>2 DEF LapsedInv
<1>11. ASSUME NEW c \in Contracts, MoveOnRoster(c)
       PROVE  LapsedInv'
  BY <1>1, <1>2, <1>11 DEF MoveOnRoster, LapsedInv
<1>12. QED
  BY <1>1, <1>3, <1>4, <1>5, <1>6, <1>7, <1>8, <1>9, <1>10, <1>11, StepCases DEF Submission

\* An offer that was open when its deadline passed is never exchanged, even
\* when the job is late or the commissioner reopens the deadline: exchanges
\* look at the offer's own deadline and a new league deadline leaves the
\* deadline of a lapsed offer where it was.
THEOREM LapsedStay == Spec => []LapsedOffersNeverComplete
<1>1. Init => LapsedInv
  BY DEF Init, LapsedInv
<1>2. TypeInv /\ LapsedInv /\ [Next]_vars => LapsedInv'
  BY LapsedInductive
<1>3. LapsedInv => LapsedOffersNeverComplete
  BY DEF LapsedInv, LapsedOffersNeverComplete
<1>4. QED
  BY <1>1, <1>2, <1>3, TypesHold, PTL DEF Spec

----------------------------------------------------------------------------
\* Runs of the expiry job.

\* A trade that was written and is no longer open stays so.
Settled(p) == trade[p].status \notin {"none", "proposed", "awaiting"}

LEMMA SettledStays ==
  ASSUME TypeInv, [Next]_vars, NEW p \in Proposals
  PROVE  /\ Settled(p) => Settled(p)'
         /\ trade[p].status # "none" => trade'[p].status # "none"
<1> DEFINE Goal(q) == /\ Settled(q) => Settled(q)'
                      /\ trade[q].status # "none" => trade'[q].status # "none"
<1> SUFFICES \A q \in Proposals : Goal(q)
  OBVIOUS
<1>1. RowsTyped /\ TimesTyped /\ \A w \in Workers : WorkTyped(work[w])
  BY TypedTimes DEF TypeInv
<1>2. ASSUME NEW q \in Proposals, trade'[q] = trade[q] PROVE Goal(q)
  BY <1>2 DEF Settled
<1>3. ASSUME NEW q \in Proposals, Open(q), trade'[q].status # "none" PROVE Goal(q)
  BY <1>3 DEF Settled, Open
<1>4. ASSUME NEW q \in Proposals, NEW st \in Statuses \ {"proposed", "awaiting"},
             NEW cs, NEW e, RowStep(q, st, cs, e)
      PROVE  Goal(q)
  BY <1>4 DEF RowStep, Settled, Statuses
<1>5. CASE Aside \/ Tick \/ \E c \in Contracts : MoveOnRoster(c)
  BY <1>2, <1>5 DEF Aside, Tick, MoveOnRoster
<1>6. ASSUME NEW n \in Fresh, NEW teams \in SUBSET Teams, NEW proposer \in teams,
             NEW terms \in Offers(teams), Submits(n, teams, proposer, terms)
      PROVE  \A q \in Proposals : Goal(q)
  <2>1. /\ n \in Proposals /\ trade[n].status = "none"
        /\ \A q \in Proposals \ {n} :
               \/ trade'[q] = trade[q]
               \/ /\ trade[q].status = "proposed"
                  /\ RowStep(q, "declined", trade[q].consents \ {proposer}, trade[q].effective)
    BY <1>1, <1>6, SubmittedRows DEF Submits
  <2>2. Goal(n)
    BY <2>1 DEF Settled
  <2>3. \A q \in Proposals \ {n} : Goal(q)
    BY <1>2, <1>4, <2>1 DEF Statuses
  <2>4. QED
    BY <2>2, <2>3
<1>7. ASSUME NEW n \in Proposals, Answered(n)
      PROVE  \A q \in Proposals : Goal(q)
  <2>1. Goal(n)
    BY <1>3, <1>7 DEF Answered, ClosedBy, AgreedBy, RowStep
  <2>2. QED
    BY <1>2, <1>7, <2>1 DEF Answered, OnlyRow
<1>8. ASSUME NEW n \in Proposals, ExchangeBy(n)
      PROVE  \A q \in Proposals : Goal(q)
  <2>1. /\ RowStep(n, "completed", trade[n].teams, trade[n].effective)
        /\ \A q \in Proposals \ {n} :
              /\ Overtaken(n, q) => RowStep(q, "cancelled", trade[q].consents, trade[q].effective)
              /\ ~Overtaken(n, q) => trade'[q] = trade[q]
    BY <1>1, <1>8, ExchangeRows DEF ExchangeBy
  <2>2. "completed" \in Statuses \ {"proposed", "awaiting"}
        /\ "cancelled" \in Statuses \ {"proposed", "awaiting"}
    BY DEF Statuses
  <2>3. QED
    BY <1>2, <1>4, <2>1, <2>2
<1>9. ASSUME NEW n \in Proposals, NEW slotTaken \in BOOLEAN,
             Reverse(n) \/ MarkForCorrection(n, slotTaken)
      PROVE  \A q \in Proposals : Goal(q)
  <2>1. "reversed" \in Statuses \ {"proposed", "awaiting"}
        /\ "correction_required" \in Statuses \ {"proposed", "awaiting"}
    BY DEF Statuses
  <2>2. /\ OnlyRow(n)
        /\ \/ RowStep(n, "reversed", trade[n].consents, trade[n].effective)
           \/ RowStep(n, "correction_required", trade[n].consents, trade[n].effective)
    BY <1>1, <1>9, <2>1, ClosedStep DEF Reverse, MarkForCorrection
  <2>3. Goal(n)
    BY <1>4, <2>1, <2>2
  <2>4. QED
    BY <1>2, <2>2, <2>3 DEF OnlyRow
<1>10. ASSUME NEW c \in Contracts, BuyOut(c)
       PROVE  \A q \in Proposals : Goal(q)
  <2>1. \A q \in Proposals :
               /\ q \in Offering(c) =>
                     RowStep(q, "cancelled", trade[q].consents, trade[q].effective)
               /\ q \notin Offering(c) => trade'[q] = trade[q]
    BY <1>1, <1>10, BuyOutRows
  <2>2. "cancelled" \in Statuses \ {"proposed", "awaiting"}
    BY DEF Statuses
  <2>3. QED
    BY <1>2, <1>4, <2>1, <2>2
<1>11. ASSUME NEW d \in Deadlines, ChangeDeadline(d)
       PROVE  \A q \in Proposals : Goal(q)
  <2>1. \A q \in Proposals :
               \/ trade'[q] = trade[q]
               \/ /\ Open(q) /\ now < trade[q].effective
                  /\ \E e \in Nat : RowStep(q, trade[q].status, trade[q].consents, e)
    BY <1>1, <1>11, DeadlineRows
  <2>2. QED
    BY <1>2, <1>3, <2>1 DEF RowStep
<1> HIDE DEF Goal
<1>12. QED
  BY <1>1, <1>5, <1>6, <1>7, <1>8, <1>9, <1>10, <1>11, StepCases DEF Submission

\* What a run of the job stands for: the offers in hand were written, and one
\* whose transaction is done, or whose run succeeded, is settled.
RunInv ==
  /\ \A w \in Workers :
        /\ work[w].pc # "idle" =>
              \A d \in work[w].due : trade[d.trade].status # "none"
        /\ work[w].pc \in {"claimed", "done", "failed"} =>
              trade[work[w].offer.trade].status # "none"
        /\ work[w].pc = "done" => Settled(work[w].offer.trade)
  /\ \A o \in Proposals \X Times : jobs[o].status = "succeeded" => Settled(o[1])

LEMMA RunInductive ==
  ASSUME TypeInv, RunInv, [Next]_vars
  PROVE  RunInv'
<1> USE DEF job
<1>1. /\ JobsTyped /\ JobsTyped' /\ RowsTyped
  BY TypeInductive DEF TypeInv, TypeOK, JobsTyped
<1>2. \A p \in Proposals : /\ Settled(p) => Settled(p)'
                           /\ trade[p].status # "none" => trade'[p].status # "none"
  BY SettledStays
<1>3. ASSUME NEW w \in Workers
      PROVE  /\ work[w].pc # "idle" => \A d \in work[w].due : d.trade \in Proposals
             /\ work[w].pc \in {"claimed", "done", "failed"} => work[w].offer.trade \in Proposals
  BY <1>1 DEF JobsTyped, WorkTyped, DueOffer
<1> DEFINE SettledAfter(p) == trade'[p].status \notin {"none", "proposed", "awaiting"}
           HandsAfter(x) ==
             /\ x.pc # "idle" => \A d \in x.due : trade'[d.trade].status # "none"
             /\ x.pc \in {"claimed", "done", "failed"} => trade'[x.offer.trade].status # "none"
             /\ x.pc = "done" => SettledAfter(x.offer.trade)
           RunsAfter == \A o \in Proposals \X Times : jobs'[o].status = "succeeded" => SettledAfter(o[1])
<1>4. ASSUME NEW w \in Workers PROVE HandsAfter(work[w])
  BY <1>2, <1>3 DEF RunInv, Settled
<1>5. ASSUME \A w \in Workers : HandsAfter(work'[w]), RunsAfter
      PROVE  RunInv'
  BY <1>5 DEF RunInv, Settled
<1>6. ASSUME NEW o \in Proposals \X Times, jobs[o].status = "succeeded"
      PROVE  SettledAfter(o[1])
  <2>1. o[1] \in Proposals
    OBVIOUS
  <2>2. QED
    BY <1>2, <1>6, <2>1 DEF RunInv, Settled
<1>7. ASSUME NEW w \in Workers, NEW x, HandsAfter(x), work' = [work EXCEPT ![w] = x]
      PROVE  \A v \in Workers : HandsAfter(work'[v])
  <2>1. work'[w] = x /\ \A v \in Workers \ {w} : work'[v] = work[v]
    BY <1>1, <1>7 DEF JobsTyped
  <2> HIDE DEF HandsAfter
  <2>2. QED
    BY <1>4, <1>7, <2>1
<1>8. ASSUME NEW w \in Workers, work[w].pc # "idle", work' = NextOffer(w)
      PROVE  \A v \in Workers : HandsAfter(work'[v])
  <2> DEFINE x == [pc |-> "batch", at |-> work[w].at, due |-> work[w].due]
  <2>1. HandsAfter(x)
    BY <1>4, <1>8
  <2>2. work' = [work EXCEPT ![w] = x]
    BY <1>8 DEF NextOffer
  <2> HIDE DEF x, HandsAfter
  <2>3. QED
    BY <1>7, <2>1, <2>2
<1>9. ASSUME NEW w \in Workers, work' = [work EXCEPT ![w] = Idle]
      PROVE  \A v \in Workers : HandsAfter(work'[v])
  <2>1. HandsAfter(Idle)
    BY DEF Idle
  <2> HIDE DEF HandsAfter
  <2>2. QED
    BY <1>7, <1>9, <2>1
<1>10. ASSUME jobs' = jobs PROVE RunsAfter
  BY <1>6, <1>10
<1>11. ASSUME NEW o \in Proposals \X Times, NEW row, jobs' = [jobs EXCEPT ![o] = row],
              row.status = "succeeded" => SettledAfter(o[1])
       PROVE  RunsAfter
  <2>1. jobs'[o] = row /\ \A x \in (Proposals \X Times) \ {o} : jobs'[x] = jobs[x]
    BY <1>1, <1>11 DEF JobsTyped
  <2> HIDE DEF SettledAfter
  <2>2. QED
    BY <1>6, <1>11, <2>1
<1>12. CASE UNCHANGED <<jobs, work>>
  <2>1. \A w \in Workers : HandsAfter(work'[w])
    BY <1>4, <1>12
  <2> HIDE DEF HandsAfter, RunsAfter
  <2>2. QED
    BY <1>5, <1>10, <1>12, <2>1
<1>13. CASE \/ UNCHANGED vars \/ Submissions \/ Answers \/ Commissions \/ Tick
            \/ \E c \in Contracts : BuyOut(c) \/ MoveOnRoster(c)
  <2>1. UNCHANGED <<jobs, work>>
    BY <1>13 DEF vars, Submissions, Propose, Counter, Answers, Cancel, Reject, AcceptInPart,
       AcceptForApproval, AcceptAndExchange, Commissions, Approve, Reverse, MarkForCorrection,
       ChangeDeadline, PauseLeague, ResumeLeague, Tick, BuyOut, MoveOnRoster
  <2>2. QED
    BY <1>12, <2>1
<1>14. ASSUME NEW w \in Workers, List(w)
       PROVE  RunInv'
  <2> DEFINE x == [pc |-> "batch", at |-> now, due |-> Due]
  <2>1. work' = [work EXCEPT ![w] = x] /\ jobs' = jobs /\ trade' = trade
    BY <1>14 DEF List
  <2>2. \A d \in Due : trade[d.trade].status # "none"
    BY DEF Due, Open
  <2>3. HandsAfter(x)
    BY <2>1, <2>2
  <2> HIDE DEF x, HandsAfter, RunsAfter
  <2>4. QED
    BY <1>5, <1>7, <1>10, <2>1, <2>3
<1>15. ASSUME NEW w \in Workers, NEW d, Claim(w, d)
       PROVE  RunInv'
  <2> DEFINE row == jobs[Occurrence(d)]
             rest == work[w].due \ {d}
             v == RunVersion(row) + 1
             leased == [status |-> "leased", worker |-> w, until |-> work[w].at + LeaseDuration,
                        version |-> v]
             hands == [pc |-> "claimed", at |-> work[w].at, due |-> rest, offer |-> d, version |-> v]
             skipped == [work[w] EXCEPT !.due = rest]
             o == Occurrence(d)
  <2>1. work[w].pc = "batch" /\ d \in work[w].due /\ trade' = trade /\ d \in DueOffer
    BY <1>1, <1>15 DEF Claim, JobsTyped, WorkTyped
  <2>2. o \in Proposals \X Times
    BY <2>1, OccurrenceTyped
  <2>3. CASE jobs' = [jobs EXCEPT ![o] = leased] /\ work' = [work EXCEPT ![w] = hands]
    <3>1. leased.status # "succeeded"
      OBVIOUS
    <3>2. HandsAfter(hands)
      BY <1>4, <2>1
    <3> HIDE DEF leased, hands, o, HandsAfter, RunsAfter, SettledAfter
    <3>3. QED
      BY <1>5, <1>7, <1>11, <2>2, <2>3, <3>1, <3>2
  <2>4. CASE jobs' = jobs /\ work' = [work EXCEPT ![w].due = rest]
    <3>1. work' = [work EXCEPT ![w] = skipped]
      BY <2>4
    <3>2. HandsAfter(skipped)
      BY <1>4, <2>1
    <3> HIDE DEF skipped, HandsAfter, RunsAfter
    <3>3. QED
      BY <1>5, <1>7, <1>10, <2>4, <3>1, <3>2
  <2>5. QED
    BY <1>15, <2>3, <2>4 DEF Claim
<1>16. ASSUME NEW w \in Workers, Expire(w)
       PROVE  RunInv'
  <2>1. work[w].pc = "claimed" /\ jobs' = jobs
    BY <1>16 DEF Expire
  <2>2. CASE Outcome(w) = "skipped"
    <3>1. work' = NextOffer(w)
      BY <1>16, <2>2 DEF Expire
    <3> HIDE DEF HandsAfter, RunsAfter
    <3>2. QED
      BY <1>5, <1>8, <1>10, <2>1, <3>1
  <2>3. CASE Outcome(w) # "skipped"
    <3> DEFINE x == [work[w] EXCEPT !.pc = Outcome(w)]
               p == work[w].offer.trade
    <3>1. Outcome(w) \in {"failed", "done"}
      BY <2>3 DEF Outcome
    <3>2. work' = [work EXCEPT ![w] = x]
      BY <1>16, <2>3 DEF Expire
    <3>3. p \in Proposals /\ trade[p].status # "none" /\ trade'[p].status # "none"
      BY <1>2, <1>3, <2>1 DEF RunInv
    <3>4. Outcome(w) = "done" => SettledAfter(p)
      <4>1. CASE Open(p) /\ Outcome(w) = "done"
        <5>1. HoldsLease(w) /\ Current(work[w].offer)
          BY <4>1 DEF Outcome
        <5>2. trade' = Closed(p, "expired")
          BY <1>16, <4>1, <5>1 DEF Expire
        <5>3. RowStep(p, "expired", trade[p].consents, trade[p].effective)
          <6>1. "expired" \in Statuses
            BY DEF Statuses
          <6> HIDE DEF p
          <6>2. QED
            BY <1>1, <3>3, <5>2, <6>1, ClosedStep
        <5>4. QED
          BY <5>3 DEF RowStep
      <4>2. CASE ~Open(p)
        <5>1. Settled(p)
          BY <3>3, <4>2 DEF Settled, Open
        <5> HIDE DEF p
        <5>2. QED
          BY <1>2, <3>3, <5>1 DEF Settled
      <4>3. QED
        BY <4>1, <4>2
    <3>5. HandsAfter(x)
      <4>1. x.pc = Outcome(w) /\ x.due = work[w].due /\ x.offer = work[w].offer
        BY <1>1, <2>1, <3>1 DEF JobsTyped, WorkTyped
      <4>2. QED
        BY <1>4, <2>1, <3>1, <3>3, <3>4, <4>1
    <3> HIDE DEF x, HandsAfter, RunsAfter
    <3>6. QED
      BY <1>5, <1>7, <1>10, <2>1, <3>2, <3>5
  <2>4. QED
    BY <2>2, <2>3
<1>17. ASSUME NEW w \in Workers, NEW st \in {"succeeded", "failed"}, jobs' = EndedRun(w, st),
              work[w].pc \in {"done", "failed"}, st = "succeeded" => work[w].pc = "done"
       PROVE  RunsAfter
  <2> DEFINE row == [status |-> st, version |-> work[w].version + 1]
             o == Occurrence(work[w].offer)
  <2>1. o \in Proposals \X Times /\ o[1] = work[w].offer.trade
    BY <1>1, <1>17, HeldOffer
  <2>2. jobs' = [jobs EXCEPT ![o] = row]
    BY <1>17 DEF EndedRun
  <2>3. row.status = "succeeded" => SettledAfter(o[1])
    BY <1>4, <1>17, <2>1
  <2> HIDE DEF row, o, RunsAfter, SettledAfter
  <2>4. QED
    BY <1>11, <2>1, <2>2, <2>3
<1>18. ASSUME NEW w \in Workers, Succeed(w)
       PROVE  RunInv'
  <2>1. work[w].pc = "done" /\ work' = NextOffer(w) /\ (jobs' = jobs \/ jobs' = EndedRun(w, "succeeded"))
    BY <1>18 DEF Succeed
  <2> HIDE DEF HandsAfter, RunsAfter
  <2>2. QED
    BY <1>5, <1>8, <1>10, <1>17, <2>1
<1>19. ASSUME NEW w \in Workers, Fail(w)
       PROVE  RunInv'
  <2>1. /\ work[w].pc = "failed"
        /\ work' = NextOffer(w) \/ work' = [work EXCEPT ![w] = Idle]
        /\ jobs' = jobs \/ jobs' = EndedRun(w, "failed")
    BY <1>19 DEF Fail
  <2> HIDE DEF HandsAfter, RunsAfter
  <2>2. QED
    BY <1>5, <1>8, <1>9, <1>10, <1>17, <2>1
<1>20. ASSUME NEW w \in Workers, EndCycle(w) \/ Crash(w)
       PROVE  RunInv'
  <2>1. work' = [work EXCEPT ![w] = Idle] /\ jobs' = jobs
    BY <1>20 DEF EndCycle, Crash
  <2> HIDE DEF HandsAfter, RunsAfter
  <2>2. QED
    BY <1>5, <1>9, <1>10, <2>1
<1>21. QED
  BY <1>13, <1>14, <1>15, <1>16, <1>18, <1>19, <1>20 DEF Next, Step

\* The run of an occurrence succeeds only when its offer is closed: a worker
\* records success only after its transaction found the offer closed or closed
\* it, and nothing reopens an offer.
THEOREM SuccessMeansClosed == Spec => []SucceededRunsAreClosed
<1>1. Init => RunInv
  BY DEF Init, RunInv, Idle, NoJob
<1>2. TypeInv /\ RunInv /\ [Next]_vars => RunInv'
  BY RunInductive
<1>3. RunInv => SucceededRunsAreClosed
  BY DEF RunInv, Settled, SucceededRunsAreClosed, Open
<1>4. QED
  BY <1>1, <1>2, <1>3, TypesHold, PTL DEF Spec

----------------------------------------------------------------------------
\* Future considerations.

\* The row of a future consideration is held or named by another offer only
\* while the trade that created it stands.
FutureInv ==
  \A i \in Proposals :
     owner[i] # Nobody \/ Referenced(i) => trade[i].status \in Done /\ trade[i].promise # {}

\* A trade that stands goes on to stand, or is reversed.
LEMMA FuturesUntouched ==
  ASSUME FutureInv,
         \A i \in Proposals :
            /\ owner'[i] # Nobody => owner[i] # Nobody \/ Referenced(i)
            /\ Referenced(i)' => owner[i] # Nobody \/ Referenced(i)
            /\ trade[i].status \in Done =>
                  trade'[i].status \in Done /\ trade'[i].promise = trade[i].promise
  PROVE  FutureInv'
BY DEF FutureInv

\* The rows an exchange, an answer or a buyout changes keep what they name.
LEMMA ReferencedStays ==
  ASSUME \A q \in Proposals :
            \/ trade'[q] = trade[q]
            \/ trade[q].status # "none" /\ trade'[q].moves = trade[q].moves
  PROVE  \A i : Referenced(i)' => Referenced(i)
BY DEF Referenced, Moved

LEMMA FutureInductive ==
  ASSUME TypeInv, FutureInv, [Next]_vars
  PROVE  FutureInv'
<1> USE DEF rosters, record
<1>1. /\ RowsTyped /\ TimesTyped /\ \A w \in Workers : WorkTyped(work[w])
      /\ \A p \in Proposals : p \in Items
  BY TypedTimes, ItemFacts DEF TypeInv
<1>2. ASSUME NEW p \in Proposals, trade[p].status # "none", NEW i \in Moved(p) \cap Proposals
      PROVE  trade[i].status \in Done /\ trade[i].promise # {}
  BY <1>2 DEF FutureInv, Referenced
<1>3. ASSUME UNCHANGED owner,
             \A q \in Proposals :
                \/ trade'[q] = trade[q]
                \/ /\ trade[q].status # "none" /\ SameTerms(trade'[q], trade[q])
                   /\ trade[q].status \in Done => trade'[q].status \in Done
      PROVE  FutureInv'
  <2>1. \A i : Referenced(i)' => Referenced(i)
    BY <1>3, ReferencedStays DEF SameTerms
  <2>2. QED
    BY <1>3, <2>1, FuturesUntouched DEF SameTerms
<1>4. CASE Aside \/ Tick \/ \E c \in Contracts : MoveOnRoster(c)
  BY <1>3, <1>4 DEF Aside, Tick, MoveOnRoster
<1>5. ASSUME NEW p \in Fresh, NEW teams \in SUBSET Teams, NEW proposer \in teams,
             NEW terms \in Offers(teams), Submits(p, teams, proposer, terms)
      PROVE  FutureInv'
  <2>1. /\ p \in Proposals /\ trade[p].status = "none" /\ owner' = owner
        /\ trade'[p] = Submitted(proposer, teams, terms)
        /\ \A q \in Proposals \ {p} :
               \/ trade'[q] = trade[q]
               \/ /\ trade[q].status = "proposed"
                  /\ RowStep(q, "declined", trade[q].consents \ {proposer}, trade[q].effective)
    BY <1>1, <1>5, SubmittedRows DEF Submits
  <2>2. trade'[p].moves = terms.moves
    BY <2>1 DEF Submitted
  <2>3. \A i \in DOMAIN terms.moves : owner[i] # Nobody
    BY <1>1, OfferTerms, TradeAssumption DEF TimesTyped
  <2>4. ASSUME NEW i \in Proposals, Referenced(i)'
        PROVE  owner[i] # Nobody \/ Referenced(i)
    <3>1. PICK q \in Proposals : trade'[q].status # "none" /\ i \in DOMAIN trade'[q].moves
      BY <2>4 DEF Referenced, Moved
    <3>2. CASE q = p
      BY <2>2, <2>3, <3>1, <3>2
    <3>3. CASE q # p
      <4>1. trade[q].status # "none" /\ trade'[q].moves = trade[q].moves
        BY <2>1, <3>1, <3>3 DEF RowStep, SameTerms
      <4>2. QED
        BY <3>1, <4>1 DEF Referenced, Moved
    <3>4. QED
      BY <3>2, <3>3
  <2>5. \A i \in Proposals : trade[i].status \in Done => trade'[i] = trade[i]
    BY <2>1 DEF Done
  <2>6. QED
    BY <2>1, <2>4, <2>5, FuturesUntouched
<1>6. ASSUME NEW p \in Proposals, Answered(p)
      PROVE  FutureInv'
  BY <1>3, <1>6 DEF Answered, OnlyRow, ClosedBy, AgreedBy, RowStep, Done, Open
<1>7. ASSUME NEW p \in Proposals, ExchangeBy(p)
      PROVE  FutureInv'
  <2>1. /\ RowStep(p, "completed", trade[p].teams, trade[p].effective)
        /\ \A q \in Proposals \ {p} :
              /\ Overtaken(p, q) => RowStep(q, "cancelled", trade[q].consents, trade[q].effective)
              /\ ~Overtaken(p, q) => trade'[q] = trade[q]
    BY <1>1, <1>7, ExchangeRows DEF ExchangeBy
  <2>2. owner' = [i \in Items |->
               IF i \in Moved(p) THEN HolderAfter(p, i)
               ELSE IF i = p /\ trade[p].promise # {} THEN Entitled(p)
               ELSE owner[i]]
    BY <1>7, ExchangeParts DEF ExchangeBy
  <2>3. \A q \in Proposals : trade'[q] = trade[q] \/ RowStep(q, "completed", trade[q].teams, trade[q].effective)
                                \/ RowStep(q, "cancelled", trade[q].consents, trade[q].effective)
    BY <2>1
  <2>4. \A i : Referenced(i)' => Referenced(i)
    BY <2>3, ReferencedStays DEF RowStep, SameTerms
  <2>5. \A i \in Proposals : trade[i].status \in Done => trade'[i] = trade[i]
    BY <1>7, <2>1 DEF Overtaken, Open, Done, ExchangeBy
  <2>6. trade[p].status # "none"
    BY <1>7 DEF ExchangeBy, Open
  <2>7. ASSUME NEW i \in Proposals, owner'[i] # Nobody \/ Referenced(i)'
        PROVE  trade'[i].status \in Done /\ trade'[i].promise # {}
    <3>1. CASE i \in Moved(p) \/ Referenced(i)'
      BY <1>2, <2>4, <2>5, <2>6, <3>1 DEF FutureInv, Referenced
    <3>2. CASE i \notin Moved(p) /\ i = p /\ trade[p].promise # {}
      BY <2>1, <3>2 DEF RowStep, SameTerms, Done
    <3>3. CASE i \notin Moved(p) /\ ~(i = p /\ trade[p].promise # {}) /\ owner'[i] # Nobody
      <4>1. owner[i] # Nobody
        BY <1>1, <2>2, <3>3
      <4>2. QED
        BY <2>5, <4>1 DEF FutureInv
    <3>4. QED
      BY <2>7, <3>1, <3>2, <3>3
  <2>8. QED
    BY <2>7 DEF FutureInv
<1>8. ASSUME NEW p \in Proposals, Reverse(p)
      PROVE  FutureInv'
  <2>1. /\ OnlyRow(p) /\ RowStep(p, "reversed", trade[p].consents, trade[p].effective)
        /\ trade[p].status = "completed"
    BY <1>1, <1>8, ClosedStep DEF Reverse, Statuses
  <2>2. \A i : Referenced(i)' => Referenced(i)
    BY <2>1, ReferencedStays DEF OnlyRow, RowStep, SameTerms
  <2>3. ~Referenced(p)
    BY <1>8 DEF Reverse, FutureInv
  <2>4. p \notin Moved(p)
    BY <2>1, <2>3 DEF Referenced
  <2>5. ASSUME NEW i \in Proposals, owner'[i] # Nobody \/ Referenced(i)'
        PROVE  trade'[i].status \in Done /\ trade'[i].promise # {}
    <3>1. i # p
      BY <1>1, <1>8, <2>2, <2>3, <2>4, <2>5 DEF Reverse
    <3>2. owner[i] # Nobody \/ Referenced(i)
      <4>1. CASE i \in Moved(p)
        BY <2>1, <4>1 DEF Referenced
      <4>2. CASE i \notin Moved(p)
        BY <1>1, <1>8, <2>2, <2>5, <3>1, <4>2 DEF Reverse
      <4>3. QED
        BY <4>1, <4>2
    <3>3. trade'[i] = trade[i]
      BY <2>1, <3>1 DEF OnlyRow
    <3>4. QED
      BY <3>2, <3>3 DEF FutureInv
  <2>6. QED
    BY <2>5 DEF FutureInv
<1>9. ASSUME NEW p \in Proposals, NEW slotTaken \in BOOLEAN, MarkForCorrection(p, slotTaken)
      PROVE  FutureInv'
  <2>1. OnlyRow(p) /\ RowStep(p, "correction_required", trade[p].consents, trade[p].effective)
    BY <1>1, <1>9, ClosedStep DEF MarkForCorrection, Statuses
  <2>2. QED
    BY <1>3, <1>9, <2>1 DEF MarkForCorrection, OnlyRow, RowStep, Done
<1>10. ASSUME NEW c \in Contracts, BuyOut(c)
       PROVE  FutureInv'
  <2>1. \A q \in Proposals :
               /\ q \in Offering(c) =>
                     RowStep(q, "cancelled", trade[q].consents, trade[q].effective)
               /\ q \notin Offering(c) => trade'[q] = trade[q]
    BY <1>1, <1>10, BuyOutRows
  <2>2. owner' = [owner EXCEPT ![c] = Nobody]
    BY <1>10, BuyOutParts
  <2>3. \A i : Referenced(i)' => Referenced(i)
    BY <2>1, ReferencedStays DEF RowStep, SameTerms
  <2>4. \A i \in Proposals : trade[i].status \in Done => trade'[i] = trade[i]
    BY <2>1 DEF Offering, Open, Done
  <2>5. \A i \in Proposals : owner'[i] = owner[i]
    BY <2>2, ItemFacts
  <2>6. QED
    BY <2>3, <2>4, <2>5, FuturesUntouched
<1>11. ASSUME NEW d \in Deadlines, ChangeDeadline(d)
       PROVE  FutureInv'
  <2>1. \A q \in Proposals :
               \/ trade'[q] = trade[q]
               \/ /\ Open(q) /\ now < trade[q].effective
                  /\ \E e \in Nat : RowStep(q, trade[q].status, trade[q].consents, e)
    BY <1>1, <1>11, DeadlineRows
  <2>2. QED
    BY <1>3, <1>11, <2>1 DEF ChangeDeadline, RowStep, Open, Done
<1>12. QED
  BY <1>1, <1>4, <1>5, <1>6, <1>7, <1>8, <1>9, <1>10, <1>11, StepCases DEF Submission

LEMMA FuturesStand == Spec => []FutureInv
<1>1. Init => FutureInv
  <2>1. Init => \A i \in Proposals : owner[i] = Nobody /\ ~Referenced(i)
    BY ItemFacts DEF Init, Referenced, NoTrade
  <2>2. QED
    BY <2>1 DEF FutureInv
<1>2. TypeInv /\ FutureInv /\ [Next]_vars => FutureInv'
  BY FutureInductive
<1>3. QED
  BY <1>1, <1>2, TypesHold, PTL DEF Spec

----------------------------------------------------------------------------
\* Offers that nobody can keep.

\* The teams that had to give an item back.
Returned(i) ==
  {trade[q].moves[i].to : q \in {r \in Proposals : trade[r].status = "reversed" /\ i \in Moved(r)}}

Backed(q) ==
  \A i \in Moved(q) : owner[i] = trade[q].moves[i].from \/ trade[q].moves[i].from \in Returned(i)

BackedInv == \A q \in Proposals : Open(q) => Backed(q)

LEMMA BackedForm == BackedInv <=> OpenOffersAreBacked
BY DEF BackedInv, Backed, Returned, ReturnedFrom, OpenOffersAreBacked

\* What was returned stays so.
LEMMA ReturnedStays ==
  ASSUME \A q \in Proposals :
            \/ trade'[q] = trade[q]
            \/ /\ SameTerms(trade'[q], trade[q])
               /\ trade[q].status = "reversed" => trade'[q].status = "reversed"
            \/ trade[q].status = "none"
  PROVE  \A i : Returned(i) \subseteq Returned(i)'
<1>1. ASSUME NEW q \in Proposals, trade[q].status = "reversed"
      PROVE  /\ trade'[q].status = "reversed" /\ Moved(q)' = Moved(q)
             /\ trade'[q].moves = trade[q].moves
  BY <1>1 DEF Moved, SameTerms
<1>2. QED
  BY <1>1 DEF Returned

\* An offer that stays open over items that stay where they are.
LEMMA BackedStays ==
  ASSUME BackedInv, \A i : Returned(i) \subseteq Returned(i)',
         NEW q \in Proposals, Open(q), trade'[q].moves = trade[q].moves,
         \A i \in Moved(q) : owner'[i] = owner[i] \/ trade[q].moves[i].from \in Returned(i)'
  PROVE  Backed(q)'
<1>1. Moved(q)' = Moved(q)
  BY DEF Moved
<1>2. QED
  BY <1>1 DEF BackedInv, Backed

LEMMA BackedInductive ==
  ASSUME TypeInv, FutureInv, BackedInv, [Next]_vars
  PROVE  BackedInv'
<1> USE DEF rosters, record
<1>1. /\ RowsTyped /\ TimesTyped /\ \A w \in Workers : WorkTyped(work[w])
      /\ \A p \in Proposals : p \in Items
  BY TypedTimes, ItemFacts DEF TypeInv
\* The holders do not change, nor does any offer open.
<1>2. ASSUME UNCHANGED owner,
             \A q \in Proposals :
                \/ trade'[q] = trade[q]
                \/ /\ SameTerms(trade'[q], trade[q]) /\ trade[q].status # "reversed"
                   /\ Open(q)' => Open(q)
      PROVE  BackedInv'
  <2>1. \A i : Returned(i) \subseteq Returned(i)'
    BY <1>2, ReturnedStays
  <2>2. ASSUME NEW q \in Proposals, Open(q)'
        PROVE  Open(q) /\ trade'[q].moves = trade[q].moves
    BY <1>2, <2>2 DEF Open, Moved, SameTerms
  <2>3. QED
    BY <1>2, <2>1, <2>2, BackedStays DEF BackedInv
<1>3. CASE Aside \/ Tick \/ \E c \in Contracts : MoveOnRoster(c)
  BY <1>2, <1>3 DEF Aside, Tick, MoveOnRoster
<1>4. ASSUME NEW p \in Fresh, NEW teams \in SUBSET Teams, NEW proposer \in teams,
             NEW terms \in Offers(teams), Submits(p, teams, proposer, terms)
      PROVE  BackedInv'
  <2>1. /\ p \in Proposals /\ trade[p].status = "none" /\ owner' = owner
        /\ trade'[p].moves = terms.moves
        /\ \A q \in Proposals \ {p} :
               \/ trade'[q] = trade[q]
               \/ /\ trade[q].status = "proposed" /\ trade'[q].status = "declined"
                  /\ SameTerms(trade'[q], trade[q])
    <3>1. /\ p \in Proposals /\ trade[p].status = "none" /\ owner' = owner
          /\ trade'[p] = Submitted(proposer, teams, terms)
          /\ \A q \in Proposals \ {p} :
                 \/ trade'[q] = trade[q]
                 \/ /\ trade[q].status = "proposed"
                    /\ RowStep(q, "declined", trade[q].consents \ {proposer}, trade[q].effective)
      BY <1>1, <1>4, SubmittedRows DEF Submits
    <3>2. QED
      BY <3>1 DEF Submitted, RowStep
  <2>2. \A i : Returned(i) \subseteq Returned(i)'
    BY <2>1, ReturnedStays
  <2>3. Backed(p)'
    <3>1. \A i \in DOMAIN terms.moves : owner[i] = terms.moves[i].from
      BY <1>1, OfferTerms DEF TimesTyped
    <3>2. QED
      BY <2>1, <3>1 DEF Backed, Moved
  <2>4. ASSUME NEW q \in Proposals \ {p}, Open(q)'
        PROVE  Open(q) /\ trade'[q].moves = trade[q].moves
    BY <2>1, <2>4 DEF Open, Moved
  <2>5. ASSUME NEW q \in Proposals \ {p}, Open(q)'
        PROVE  Backed(q)'
    BY <2>1, <2>2, <2>4, <2>5, BackedStays
  <2>6. QED
    BY <2>3, <2>5 DEF BackedInv
<1>5. ASSUME NEW p \in Proposals, Answered(p)
      PROVE  BackedInv'
  BY <1>2, <1>5 DEF Answered, OnlyRow, ClosedBy, AgreedBy, RowStep, Open
\* An exchange closes the open offers over the items it moves; the future
\* consideration it creates is in no offer yet.
<1>6. ASSUME NEW p \in Proposals, ExchangeBy(p)
      PROVE  BackedInv'
  <2>1. /\ RowStep(p, "completed", trade[p].teams, trade[p].effective)
        /\ \A q \in Proposals \ {p} :
              /\ Overtaken(p, q) => RowStep(q, "cancelled", trade[q].consents, trade[q].effective)
              /\ ~Overtaken(p, q) => trade'[q] = trade[q]
    BY <1>1, <1>6, ExchangeRows DEF ExchangeBy
  <2>2. owner' = [i \in Items |->
               IF i \in Moved(p) THEN HolderAfter(p, i)
               ELSE IF i = p /\ trade[p].promise # {} THEN Entitled(p)
               ELSE owner[i]]
    BY <1>6, ExchangeParts DEF ExchangeBy
  <2>3. Open(p) /\ ~Referenced(p)
    BY <1>6 DEF ExchangeBy, Open, FutureInv, Done
  <2>4. \A i : Returned(i) \subseteq Returned(i)'
    <3>1. \A q \in Proposals :
             \/ trade'[q] = trade[q]
             \/ SameTerms(trade'[q], trade[q]) /\ trade[q].status # "reversed"
      BY <2>1, <2>3 DEF Overtaken, Open, RowStep
    <3>2. QED
      BY <3>1, ReturnedStays
  <2>5. ASSUME NEW q \in Proposals, Open(q)'
        PROVE  Backed(q)'
    <3>1. q # p /\ trade'[q] = trade[q] /\ Open(q) /\ Moved(p) \cap Moved(q) = {}
      BY <2>1, <2>5 DEF RowStep, Open, Overtaken
    <3>2. Moved(q)' = Moved(q)
      BY <3>1 DEF Moved
    <3>3. ASSUME NEW i \in Moved(q) PROVE owner'[i] = owner[i]
      <4>1. i \in Items /\ i \notin Moved(p)
        BY <1>1, <3>1, MovesFacts DEF Open
      <4>2. i # p
        BY <2>3, <3>1 DEF Referenced, Open
      <4>3. QED
        BY <2>2, <4>1, <4>2
    <3>4. QED
      BY <2>4, <3>1, <3>2, <3>3, BackedStays
  <2>6. QED
    BY <2>5 DEF BackedInv
\* A reversal takes items from the teams that were given them, and the
\* offers of these teams are those that Returned excuses.
<1>7. ASSUME NEW p \in Proposals, Reverse(p)
      PROVE  BackedInv'
  <2>1. /\ OnlyRow(p) /\ RowStep(p, "reversed", trade[p].consents, trade[p].effective)
        /\ trade[p].status = "completed" /\ Recoverable(p)
    BY <1>1, <1>7, ClosedStep DEF Reverse, Statuses
  <2>2. ~Referenced(p)
    BY <1>7 DEF Reverse, FutureInv
  <2>3. owner' = [i \in Items |->
              IF i \in Moved(p) THEN trade[p].moves[i].from
              ELSE IF i = p THEN Nobody
              ELSE owner[i]]
    BY <1>7 DEF Reverse
  <2>4. \A i : Returned(i) \subseteq Returned(i)'
    BY <2>1, ReturnedStays DEF OnlyRow, RowStep
  <2>5. \A i \in Moved(p) : trade[p].moves[i].to \in Returned(i)'
    BY <2>1 DEF Returned, RowStep, SameTerms, Moved
  <2>6. ASSUME NEW q \in Proposals, Open(q)'
        PROVE  Backed(q)'
    <3>1. q # p
      BY <2>1, <2>6 DEF RowStep, Open
    <3>2. trade'[q] = trade[q] /\ Open(q)
      BY <2>1, <2>6, <3>1 DEF OnlyRow, Open, Moved
    <3>3. ASSUME NEW i \in Moved(q) \cap Moved(p)
          PROVE  trade[q].moves[i].from \in Returned(i)'
      <4>1. CASE trade[q].moves[i].from \in Returned(i)
        BY <2>4, <4>1
      <4>2. CASE owner[i] = trade[q].moves[i].from
        <5>1. owner[i] \in Teams
          BY <1>1, <3>2, <4>2, MovesFacts DEF Open
        <5>2. owner[i] = trade[p].moves[i].to
          BY <2>1, <5>1, TradeAssumption DEF Recoverable, Unchanged, HolderAfter
        <5>3. QED
          BY <2>5, <4>2, <5>2
      <4>3. QED
        BY <3>2, <4>1, <4>2 DEF BackedInv, Backed
    <3>4. ASSUME NEW i \in Moved(q) \ Moved(p) PROVE owner'[i] = owner[i]
      <4>1. i \in Items
        BY <1>1, <3>2, MovesFacts DEF Open
      <4>2. i # p
        BY <2>2, <3>2 DEF Referenced, Open
      <4>3. QED
        BY <2>3, <4>1, <4>2
    <3>5. QED
      BY <2>4, <3>2, <3>3, <3>4, BackedStays
  <2>7. QED
    BY <2>6 DEF BackedInv
<1>8. ASSUME NEW p \in Proposals, NEW slotTaken \in BOOLEAN, MarkForCorrection(p, slotTaken)
      PROVE  BackedInv'
  <2>1. /\ OnlyRow(p) /\ RowStep(p, "correction_required", trade[p].consents, trade[p].effective)
        /\ trade[p].status = "completed" /\ owner' = owner
    BY <1>1, <1>8, ClosedStep DEF MarkForCorrection, Statuses
  <2>2. QED
    BY <1>2, <2>1 DEF OnlyRow, RowStep, Open
<1>9. ASSUME NEW c \in Contracts, BuyOut(c)
      PROVE  BackedInv'
  <2>1. \A q \in Proposals :
               /\ q \in Offering(c) =>
                     RowStep(q, "cancelled", trade[q].consents, trade[q].effective)
               /\ q \notin Offering(c) => trade'[q] = trade[q]
    BY <1>1, <1>9, BuyOutRows
  <2>2. owner' = [owner EXCEPT ![c] = Nobody]
    BY <1>9, BuyOutParts
  <2>3. \A i : Returned(i) \subseteq Returned(i)'
    <3>1. \A q \in Proposals :
             \/ trade'[q] = trade[q]
             \/ SameTerms(trade'[q], trade[q]) /\ trade[q].status # "reversed"
      BY <2>1 DEF Offering, Open, RowStep
    <3>2. QED
      BY <3>1, ReturnedStays
  <2>4. ASSUME NEW q \in Proposals, Open(q)'
        PROVE  Backed(q)'
    <3>1. trade'[q] = trade[q] /\ Open(q) /\ c \notin Moved(q)
      BY <2>1, <2>4 DEF RowStep, Open, Offering, Moved
    <3>2. \A i \in Moved(q) : owner'[i] = owner[i]
      BY <2>2, <3>1
    <3>3. QED
      BY <2>3, <3>1, <3>2, BackedStays
  <2>5. QED
    BY <2>4 DEF BackedInv
<1>10. ASSUME NEW d \in Deadlines, ChangeDeadline(d)
       PROVE  BackedInv'
  <2>1. \A q \in Proposals :
               \/ trade'[q] = trade[q]
               \/ Open(q) /\ SameTerms(trade'[q], trade[q])
    BY <1>1, <1>10, DeadlineRows DEF RowStep
  <2>2. QED
    BY <1>2, <1>10, <2>1 DEF ChangeDeadline, Open
<1>11. QED
  BY <1>1, <1>3, <1>4, <1>5, <1>6, <1>7, <1>8, <1>9, <1>10, StepCases DEF Submission

\* Every open offer names items its teams hold, or that a reversal took back
\* from the team that offers them: no exchange and no buyout leaves an offer
\* of what is gone.
THEOREM OffersBacked == Spec => []OpenOffersAreBacked
<1>1. Init => BackedInv
  BY DEF Init, BackedInv, Open, NoTrade
<1>2. TypeInv /\ FutureInv /\ BackedInv /\ [Next]_vars => BackedInv'
  BY BackedInductive
<1>3. QED
  BY <1>1, <1>2, BackedForm, TypesHold, FuturesStand, PTL DEF Spec

----------------------------------------------------------------------------
\* The refinement.

\* What a trade says is never rewritten.
LEMMA TermsLast ==
  ASSUME TypeInv, [Next]_vars
  PROVE  \A q \in Proposals : trade[q].status # "none" => SameTerms(trade'[q], trade[q])
<1>1. RowsTyped /\ TimesTyped /\ \A w \in Workers : WorkTyped(work[w])
  BY TypedTimes DEF TypeInv
<1>2. ASSUME NEW q \in Proposals, trade'[q] = trade[q] PROVE SameTerms(trade'[q], trade[q])
  BY <1>2 DEF SameTerms
<1>3. ASSUME NEW q \in Proposals, NEW st, NEW cs, NEW e, RowStep(q, st, cs, e)
      PROVE  SameTerms(trade'[q], trade[q])
  BY <1>3 DEF RowStep
<1>4. CASE Aside \/ Tick \/ \E c \in Contracts : MoveOnRoster(c)
  BY <1>2, <1>4 DEF Aside, Tick, MoveOnRoster
<1>5. CASE Submission
  BY <1>1, <1>2, <1>3, <1>5, SubmittedRows DEF Submission, Submits
<1>6. CASE \E p \in Proposals : Answered(p)
  BY <1>2, <1>3, <1>6 DEF Answered, OnlyRow, ClosedBy, AgreedBy
<1>7. CASE \E p \in Proposals : ExchangeBy(p)
  BY <1>1, <1>2, <1>3, <1>7, ExchangeRows DEF ExchangeBy
<1>8. ASSUME NEW p \in Proposals, NEW slotTaken \in BOOLEAN,
             Reverse(p) \/ MarkForCorrection(p, slotTaken)
      PROVE  \A q \in Proposals : SameTerms(trade'[q], trade[q])
  <2>1. OnlyRow(p) /\ \E st : RowStep(p, st, trade[p].consents, trade[p].effective)
    BY <1>1, <1>8, ClosedStep DEF Reverse, MarkForCorrection, Statuses
  <2>2. QED
    BY <1>2, <1>3, <2>1 DEF OnlyRow
<1>9. CASE \E c \in Contracts : BuyOut(c)
  BY <1>1, <1>2, <1>3, <1>9, BuyOutRows
<1>10. CASE \E d \in Deadlines : ChangeDeadline(d)
  BY <1>1, <1>2, <1>3, <1>10, DeadlineRows
<1>11. QED
  BY <1>1, <1>4, <1>5, <1>6, <1>7, <1>8, <1>9, <1>10, StepCases

\* Nor is what it gives: a future consideration it names keeps its terms too.
LEMMA GivesLast ==
  ASSUME TypeInv, FutureInv, [Next]_vars, NEW q \in Proposals, trade[q].status # "none"
  PROVE  GivesOf(q)' = GivesOf(q)
<1>1. SameTerms(trade'[q], trade[q])
  BY TermsLast
<1>2. Moved(q)' = Moved(q) /\ trade'[q].moves = trade[q].moves /\ trade'[q].promise = trade[q].promise
  BY <1>1 DEF SameTerms, Moved
<1>3. Entitled(q)' = Entitled(q)
  BY <1>2 DEF Entitled
<1>4. ASSUME NEW i \in Moved(q)
      PROVE  HolderAfter(q, i)' = HolderAfter(q, i)
  <2>1. ASSUME i \in Proposals PROVE trade'[i].promise = trade[i].promise
    <3>1. trade[i].status # "none"
      BY <2>1 DEF FutureInv, Referenced, Done
    <3>2. QED
      BY <2>1, <3>1, TermsLast DEF SameTerms
  <2>2. i \in Proposals => OwedBy(i)' = OwedBy(i)
    BY <2>1 DEF OwedBy
  <2>3. Settles(q, i)' <=> Settles(q, i)
    BY <1>2, <2>2 DEF Settles
  <2>4. QED
    BY <1>2, <2>3 DEF HolderAfter
<1>5. QED
  BY <1>2, <1>3, <1>4 DEF GivesOf

Shut == {"declined", "cancelled", "expired"}

\* The deal a trade stands for, by the status of its row.
LEMMA DealForms ==
  ASSUME NEW p
  PROVE  /\ trade[p].status = "none" => DealOf(p) = [state |-> "none"]
         /\ Open(p) => DealOf(p) = [state |-> "open", parties |-> trade[p].teams,
                                    gives |-> GivesOf(p), agreed |-> trade[p].consents]
         /\ trade[p].status \in Shut => DealOf(p) = [state |-> "closed"]
         /\ trade[p].status \in Done => DealOf(p) = [state |-> "done", gives |-> GivesOf(p)]
         /\ trade[p].status = "reversed" => DealOf(p) = [state |-> "undone"]
BY DEF DealOf, Open, Shut, Done

\* How it changes with the row.
LEMMA DealStays ==
  ASSUME TypeInv, FutureInv, [Next]_vars, NEW q \in Proposals,
         \/ trade'[q] = trade[q]
         \/ \E e : RowStep(q, trade[q].status, trade[q].consents, e)
         \/ trade[q].status \in Done /\ trade'[q].status \in Done
  PROVE  DealOf(q)' = DealOf(q)
<1>1. trade[q].status = "none" \/ trade[q].status \in Statuses
  BY RowFacts DEF TypeInv
<1>2. trade[q].status # "none" => GivesOf(q)' = GivesOf(q) /\ trade'[q].teams = trade[q].teams
  BY GivesLast, TermsLast DEF SameTerms
<1>3. CASE trade[q].status \in Done /\ trade'[q].status \in Done
  BY <1>2, <1>3 DEF DealOf, Open, Done
<1>4. CASE trade'[q].status = trade[q].status /\ trade'[q].consents = trade[q].consents
  <2>1. CASE trade[q].status = "none"
    BY <1>4, <2>1 DEF DealOf, Open
  <2>2. CASE trade[q].status \in {"proposed", "awaiting"}
    BY <1>2, <1>4, <2>2 DEF DealOf, Open
  <2>3. CASE trade[q].status \in Shut
    BY <1>4, <2>3 DEF DealOf, Open, Shut
  <2>4. CASE trade[q].status \in Done
    BY <1>2, <1>4, <2>4 DEF DealOf, Open, Done
  <2>5. CASE trade[q].status = "reversed"
    BY <1>4, <2>5 DEF DealOf, Open
  <2>6. QED
    BY <1>1, <2>1, <2>2, <2>3, <2>4, <2>5 DEF Statuses, Shut, Done
<1>5. QED
  BY <1>3, <1>4 DEF RowStep

LEMMA DealCloses ==
  ASSUME NEW q \in Proposals, Open(q), NEW st \in Shut, NEW cs, NEW e, RowStep(q, st, cs, e)
  PROVE  DealOf(q).state = "open" /\ DealOf(q)' = [state |-> "closed"]
<1>1. DealOf(q).state = "open"
  BY DealForms
<1>2. trade'[q].status \in Shut
  BY DEF RowStep
<1>3. DealOf(q)' = [state |-> "closed"]
  BY <1>2 DEF DealOf, Open, Shut
<1>4. QED
  BY <1>1, <1>3

\* Deals that are left alone or closed, apart from those of S.
LEMMA OthersClose ==
  ASSUME NEW S, \A q \in Proposals \ S :
            \/ DealOf(q)' = DealOf(q)
            \/ DealOf(q).state = "open" /\ DealOf(q)' = [state |-> "closed"]
  PROVE  Promised!OthersCloseAtMost(S)
BY DEF Promised!OthersCloseAtMost, Promised!Closes

LEMMA ClosesOnly ==
  ASSUME owner' = owner, \A q \in Proposals :
            \/ DealOf(q)' = DealOf(q)
            \/ DealOf(q).state = "open" /\ DealOf(q)' = [state |-> "closed"]
  PROVE  Promised!Next
<1>1. Promised!OthersCloseAtMost({})
  BY OthersClose
<1>2. QED
  BY <1>1 DEF Promised!Next, Promised!Close

LEMMA GivesFacts ==
  ASSUME NEW p
  PROVE  /\ \A i : i \in DOMAIN GivesOf(p) <=> i \in Moved(p) \/ (i = p /\ trade[p].promise # {})
         /\ trade[p].promise # {} =>
               GivesOf(p)[p].from = Nobody /\ GivesOf(p)[p].to = Entitled(p)
         /\ \A i \in Moved(p) \ {p} : /\ GivesOf(p)[i].from = trade[p].moves[i].from
                                      /\ GivesOf(p)[i].to = HolderAfter(p, i)
BY DEF GivesOf

\* A submission offers a deal over items its parties hold.
LEMMA SubmissionOffers ==
  ASSUME TypeInv, FutureInv, [Next]_vars,
         NEW p \in Fresh, NEW teams \in SUBSET Teams, NEW proposer \in teams,
         NEW terms \in Offers(teams), Submits(p, teams, proposer, terms)
  PROVE  Promised!Next
<1>1. RowsTyped /\ TimesTyped
  BY TypedTimes DEF TypeInv
<1>2. /\ p \in Proposals /\ trade[p].status = "none" /\ owner' = owner
      /\ trade'[p] = Submitted(proposer, teams, terms)
      /\ \A q \in Proposals \ {p} :
             \/ trade'[q] = trade[q]
             \/ /\ trade[q].status = "proposed"
                /\ RowStep(q, "declined", trade[q].consents \ {proposer}, trade[q].effective)
  BY <1>1, SubmittedRows DEF Submits, rosters
<1>3. /\ trade'[p].status = "proposed" /\ trade'[p].moves = terms.moves
      /\ trade'[p].teams = teams /\ trade'[p].consents = {proposer}
  BY <1>2 DEF Submitted
<1>4. DealOf(p) = [state |-> "none"]
  BY <1>2, DealForms
<1>5. DealOf(p)' = [state |-> "open", parties |-> teams, gives |-> GivesOf(p)', agreed |-> {proposer}]
  BY <1>3 DEF DealOf, Open
<1>6. ASSUME NEW i \in DOMAIN GivesOf(p)' PROVE GivesOf(p)'[i].from = owner[i]
  <2>1. owner[p] = Nobody
    BY <1>2 DEF FutureInv, Done
  <2>2. i = p => GivesOf(p)'[i].from = Nobody
    BY <1>6 DEF GivesOf
  <2>3. i # p => i \in DOMAIN terms.moves /\ GivesOf(p)'[i].from = terms.moves[i].from
    BY <1>3, <1>6 DEF GivesOf, Moved
  <2>4. QED
    BY <1>1, <2>1, <2>2, <2>3, OfferTerms DEF TimesTyped
<1>7. \A q \in Proposals \ {p} :
          \/ DealOf(q)' = DealOf(q)
          \/ DealOf(q).state = "open" /\ DealOf(q)' = [state |-> "closed"]
  BY <1>2, DealStays, DealCloses DEF Open, Shut
<1>8. Promised!OthersCloseAtMost({p})
  BY <1>7, OthersClose
<1>9. Promised!Offer(p)
  BY <1>2, <1>4, <1>5, <1>6, <1>8 DEF Promised!Offer
<1>10. QED
  BY <1>2, <1>9 DEF Promised!Next

\* An answer closes a deal or is the agreement of one more party.
LEMMA AnswerAgrees ==
  ASSUME TypeInv, FutureInv, [Next]_vars, NEW p \in Proposals, Answered(p)
  PROVE  Promised!Next
<1>1. owner' = owner /\ \A q \in Proposals \ {p} : DealOf(q)' = DealOf(q)
  BY DealStays DEF Answered, OnlyRow, rosters
<1>2. Open(p) /\ trade[p].status # "none"
  BY DEF Answered, Open
<1>3. CASE ClosedBy(p)
  <2>1. DealOf(p).state = "open" /\ DealOf(p)' = [state |-> "closed"]
    BY <1>2, <1>3, DealCloses DEF ClosedBy, Shut
  <2>2. QED
    BY <1>1, <2>1, ClosesOnly
<1>4. CASE AgreedBy(p)
  <2>1. PICK t \in trade[p].teams \ trade[p].consents, st \in {"proposed", "awaiting"} :
           RowStep(p, st, trade[p].consents \cup {t}, trade[p].effective)
    BY <1>4 DEF AgreedBy
  <2>2. DealOf(p) = [state |-> "open", parties |-> trade[p].teams,
                     gives |-> GivesOf(p), agreed |-> trade[p].consents]
    BY <1>2, DealForms
  <2>3. GivesOf(p)' = GivesOf(p)
    BY <1>2, GivesLast
  <2>4. DealOf(p)' = [state |-> "open", parties |-> trade[p].teams,
                      gives |-> GivesOf(p), agreed |-> trade[p].consents \cup {t}]
    BY <2>1, <2>3 DEF DealOf, Open, RowStep, SameTerms
  <2>5. [q \in Proposals |-> DealOf(q)'] =
           [[q \in Proposals |-> DealOf(q)] EXCEPT ![p].agreed = @ \cup {t}]
    <3> DEFINE f == [q \in Proposals |-> DealOf(q)]
    <3>1. DealOf(p)' = [DealOf(p) EXCEPT !.agreed = @ \cup {t}]
      BY <2>2, <2>4
    <3>2. f[p] = DealOf(p)
      OBVIOUS
    <3>3. [f EXCEPT ![p].agreed = @ \cup {t}] = [q \in Proposals |-> IF q = p THEN DealOf(p)' ELSE DealOf(q)]
      <4> HIDE DEF f
      <4>1. [f EXCEPT ![p].agreed = @ \cup {t}] = [f EXCEPT ![p] = DealOf(p)']
        BY <3>1, <3>2
      <4>2. QED
        BY <4>1 DEF f
    <3>4. QED
      BY <1>1, <3>3
  <2>6. Promised!Agree(p, t)
    BY <1>1, <2>1, <2>2, <2>4, <2>5 DEF Promised!Agree
  <2>7. QED
    BY <2>1, <2>2, <2>6 DEF Promised!Next
<1>5. QED
  BY <1>3, <1>4 DEF Answered

\* An exchange performs a deal that all parties have agreed to, and closes
\* the deals it overtakes.
LEMMA ExchangePerforms ==
  ASSUME TypeInv, FutureInv, [Next]_vars, NEW p \in Proposals, ExchangeBy(p)
  PROVE  Promised!Next
<1>1. /\ RowStep(p, "completed", trade[p].teams, trade[p].effective)
      /\ \A q \in Proposals \ {p} :
            /\ Overtaken(p, q) => RowStep(q, "cancelled", trade[q].consents, trade[q].effective)
            /\ ~Overtaken(p, q) => trade'[q] = trade[q]
  BY ExchangeRows DEF ExchangeBy, TypeInv
<1>2. Open(p) /\ trade[p].status # "none" /\ Eligible(trade[p])
      /\ trade[p].status \notin Done
  BY DEF ExchangeBy, Open, Done
<1>3. owner' = [i \in Items |->
               IF i \in Moved(p) THEN HolderAfter(p, i)
               ELSE IF i = p /\ trade[p].promise # {} THEN Entitled(p)
               ELSE owner[i]]
  BY ExchangeParts DEF ExchangeBy
<1>4. owner[p] = Nobody /\ p \notin Moved(p)
  BY <1>2 DEF FutureInv, Referenced
<1>5. /\ \A i : i \in DOMAIN GivesOf(p) <=> i \in Moved(p) \/ (i = p /\ trade[p].promise # {})
      /\ trade[p].promise # {} => GivesOf(p)[p].from = Nobody /\ GivesOf(p)[p].to = Entitled(p)
      /\ \A i \in Moved(p) : /\ GivesOf(p)[i].from = trade[p].moves[i].from
                             /\ GivesOf(p)[i].to = HolderAfter(p, i)
  BY <1>4, GivesFacts
<1>6. DealOf(p) = [state |-> "open", parties |-> trade[p].teams,
                   gives |-> GivesOf(p), agreed |-> trade[p].consents]
  BY <1>2, DealForms
<1>7. DealOf(p)' = [state |-> "done", gives |-> GivesOf(p)]
  <2>1. GivesOf(p)' = GivesOf(p)
    BY <1>2, GivesLast
  <2>2. QED
    BY <1>1, <2>1 DEF DealOf, Open, RowStep
<1>8. \A i \in DOMAIN GivesOf(p) : owner[i] = GivesOf(p)[i].from
  BY <1>2, <1>4, <1>5 DEF Eligible, Moved
<1>9. owner' = [i \in Items |-> IF i \in DOMAIN GivesOf(p) THEN GivesOf(p)[i].to ELSE owner[i]]
  <2>1. ASSUME NEW i \in Items
        PROVE  owner'[i] = IF i \in DOMAIN GivesOf(p) THEN GivesOf(p)[i].to ELSE owner[i]
    <3>1. CASE i \in Moved(p)
      BY <1>3, <1>5, <3>1
    <3>2. CASE i = p /\ trade[p].promise # {}
      BY <1>3, <1>4, <1>5, <3>2
    <3>3. CASE i \notin Moved(p) /\ ~(i = p /\ trade[p].promise # {})
      BY <1>3, <1>5, <3>3
    <3>4. QED
      BY <3>1, <3>2, <3>3
  <2>2. QED
    BY <1>3, <2>1
<1>10. Promised!OthersCloseAtMost({p})
  <2>1. \A q \in Proposals \ {p} :
            \/ DealOf(q)' = DealOf(q)
            \/ DealOf(q).state = "open" /\ DealOf(q)' = [state |-> "closed"]
    BY <1>1, DealStays, DealCloses DEF Overtaken, Shut
  <2>2. QED
    BY <2>1, OthersClose
<1>11. \E t \in trade[p].teams : trade[p].teams = trade[p].consents \cup {t}
  BY DEF ExchangeBy
<1>12. Promised!Perform(p)
  BY <1>6, <1>7, <1>8, <1>9, <1>10, <1>11
     DEF Promised!Perform, Promised!Gives, Promised!Giver, Promised!Taker
<1>13. QED
  BY <1>12 DEF Promised!Next

\* A reversal undoes a deal whose items are all where it put them.
LEMMA ReversalUndoes ==
  ASSUME TypeInv, FutureInv, [Next]_vars, NEW p \in Proposals, Reverse(p)
  PROVE  Promised!Next
<1>1. OnlyRow(p) /\ RowStep(p, "reversed", trade[p].consents, trade[p].effective)
      /\ trade[p].status = "completed" /\ trade[p].status \in Done /\ Recoverable(p)
  BY ClosedStep DEF Reverse, Statuses, TypeInv, Done
<1>2. p \notin Moved(p) /\ (trade[p].promise = {} => owner[p] = Nobody)
  BY <1>1 DEF Reverse, FutureInv, Referenced
<1>3. owner' = [i \in Items |->
          IF i \in Moved(p) THEN trade[p].moves[i].from
          ELSE IF i = p THEN Nobody
          ELSE owner[i]]
  BY DEF Reverse
<1>4. /\ \A i : i \in DOMAIN GivesOf(p) <=> i \in Moved(p) \/ (i = p /\ trade[p].promise # {})
      /\ trade[p].promise # {} => GivesOf(p)[p].from = Nobody /\ GivesOf(p)[p].to = Entitled(p)
      /\ \A i \in Moved(p) : /\ GivesOf(p)[i].from = trade[p].moves[i].from
                             /\ GivesOf(p)[i].to = HolderAfter(p, i)
  BY <1>2, GivesFacts
<1>5. DealOf(p) = [state |-> "done", gives |-> GivesOf(p)]
  BY <1>1, DealForms
<1>6. DealOf(p)' = [state |-> "undone"]
  BY <1>1 DEF DealOf, Open, RowStep
<1>7. \A q \in Proposals \ {p} : DealOf(q)' = DealOf(q)
  BY <1>1, DealStays DEF OnlyRow
<1>8. [q \in Proposals |-> DealOf(q)'] =
         [[q \in Proposals |-> DealOf(q)] EXCEPT ![p] = [state |-> "undone"]]
  BY <1>6, <1>7
<1>9. \A i \in DOMAIN GivesOf(p) : owner[i] = GivesOf(p)[i].to
  BY <1>1, <1>2, <1>4 DEF Recoverable, Unchanged
<1>10. owner' = [i \in Items |-> IF i \in DOMAIN GivesOf(p) THEN GivesOf(p)[i].from ELSE owner[i]]
  <2>1. ASSUME NEW i \in Items
        PROVE  owner'[i] = IF i \in DOMAIN GivesOf(p) THEN GivesOf(p)[i].from ELSE owner[i]
    <3>1. CASE i \in Moved(p)
      BY <1>3, <1>4, <3>1
    <3>2. CASE i = p
      BY <1>2, <1>3, <1>4, <3>2
    <3>3. CASE i \notin Moved(p) /\ i # p
      BY <1>3, <1>4, <3>3
    <3>4. QED
      BY <3>1, <3>2, <3>3
  <2>2. QED
    BY <1>3, <2>1
<1>11. Promised!Undo(p)
  BY <1>5, <1>6, <1>8, <1>9, <1>10 DEF Promised!Undo, Promised!Gives, Promised!Giver, Promised!Taker
<1>12. QED
  BY <1>11 DEF Promised!Next

\* A buyout takes a contract and closes the open deals over it.
LEMMA BuyOutLoses ==
  ASSUME TypeInv, FutureInv, [Next]_vars, NEW c \in Contracts, BuyOut(c)
  PROVE  Promised!Next
<1>1. \A q \in Proposals :
         /\ q \in Offering(c) =>
               RowStep(q, "cancelled", trade[q].consents, trade[q].effective)
         /\ q \notin Offering(c) => trade'[q] = trade[q]
  BY BuyOutRows DEF TypeInv
<1>2. owner' = [owner EXCEPT ![c] = Nobody] /\ owner[c] # Nobody /\ c \in Items /\ c \notin Proposals
  BY BuyOutParts, ItemFacts
<1>3. ASSUME NEW q \in Proposals
      PROVE  IF DealOf(q).state = "open" /\ c \in DOMAIN DealOf(q).gives
               THEN DealOf(q).state = "open" /\ DealOf(q)' = [state |-> "closed"]
               ELSE DealOf(q)' = DealOf(q)
  <2>1. CASE q \in Offering(c)
    <3>1. Open(q) /\ c \in Moved(q)
      BY <2>1 DEF Offering
    <3>2. DealOf(q).state = "open" /\ DealOf(q)' = [state |-> "closed"]
      BY <1>1, <2>1, <3>1, DealCloses DEF Shut
    <3>3. DealOf(q).gives = GivesOf(q)
      BY <3>1, DealForms
    <3>4. c \in DOMAIN DealOf(q).gives
      BY <3>1, <3>3, GivesFacts
    <3>5. QED
      BY <3>2, <3>4
  <2>2. CASE q \notin Offering(c)
    <3>1. DealOf(q)' = DealOf(q)
      BY <1>1, <2>2, DealStays
    <3>2. ~(DealOf(q).state = "open" /\ c \in DOMAIN DealOf(q).gives)
      <4>1. CASE Open(q)
        <5>1. DealOf(q).gives = GivesOf(q) /\ c # q /\ c \notin Moved(q)
          BY <1>2, <2>2, <4>1, DealForms DEF Offering
        <5>2. c \notin DOMAIN GivesOf(q)
          BY <5>1, GivesFacts
        <5>3. QED
          BY <5>1, <5>2
      <4>2. CASE ~Open(q)
        <5>1. \/ trade[q].status \in {"none", "reversed"} \/ trade[q].status \in Shut
              \/ trade[q].status \in Done
          BY <4>2, RowFacts DEF TypeInv, Open, Statuses, Shut, Done
        <5>2. DealOf(q).state # "open"
          BY <5>1, DealForms
        <5>3. QED
          BY <5>2
      <4>3. QED
        BY <4>1, <4>2
    <3>3. QED
      BY <3>1, <3>2
  <2>3. QED
    BY <2>1, <2>2
<1>4. Promised!Lose(c)
  BY <1>2, <1>3 DEF Promised!Lose, Promised!Closes, Promised!Gives
<1>5. QED
  BY <1>2, <1>4 DEF Promised!Next

\* A trade is performed once and as a whole, with the consent of every team,
\* when each item is where the trade expects it; it is undone as a whole; what
\* was closed or overtaken is never performed.
THEOREM TradesExchange == Spec => ImplementsAssetExchange
<1> USE DEF rosters, record
<1>1. Init => Promised!Init
  <2> SUFFICES ASSUME Init PROVE Promised!Init
    OBVIOUS
  <2>1. owner \in [Items -> {owner[i] : i \in Items}]
    BY DEF Init
  <2>2. \A p \in Proposals : DealOf(p) = [state |-> "none"]
    BY DealForms DEF Init, NoTrade
  <2>3. QED
    BY <2>1, <2>2 DEF Promised!Init
<1>2. TypeInv /\ FutureInv /\ [Next]_vars => [Promised!Next]_(Promised!vars)
  <2> SUFFICES ASSUME TypeInv, FutureInv, [Next]_vars
               PROVE  Promised!Next \/ UNCHANGED Promised!vars
    OBVIOUS
  <2>1. RowsTyped /\ TimesTyped /\ \A w \in Workers : WorkTyped(work[w])
    BY TypedTimes DEF TypeInv
  <2>2. CASE Aside \/ Tick \/ \E c \in Contracts : MoveOnRoster(c)
    <3>1. owner' = owner /\ \A q \in Proposals : trade'[q] = trade[q]
      BY <2>2 DEF Aside, Tick, MoveOnRoster
    <3>2. QED
      BY <3>1, DealStays, ClosesOnly
  <2>3. CASE Submission
    BY <2>3, SubmissionOffers DEF Submission
  <2>4. ASSUME NEW p \in Proposals, NEW slotTaken \in BOOLEAN, MarkForCorrection(p, slotTaken)
        PROVE  Promised!Next
    <3>1. /\ OnlyRow(p) /\ RowStep(p, "correction_required", trade[p].consents, trade[p].effective)
          /\ trade[p].status = "completed" /\ owner' = owner
      BY <2>1, <2>4, ClosedStep DEF MarkForCorrection, Statuses
    <3>2. \A q \in Proposals : DealOf(q)' = DealOf(q)
      BY <3>1, DealStays DEF OnlyRow, RowStep, Done
    <3>3. QED
      BY <3>1, <3>2, ClosesOnly
  <2>5. ASSUME NEW d \in Deadlines, ChangeDeadline(d)
        PROVE  Promised!Next
    <3>1. \A q \in Proposals :
               \/ trade'[q] = trade[q]
               \/ \E e : RowStep(q, trade[q].status, trade[q].consents, e)
      BY <2>1, <2>5, DeadlineRows
    <3>2. owner' = owner
      BY <2>5 DEF ChangeDeadline
    <3>3. QED
      BY <3>1, <3>2, DealStays, ClosesOnly
  <2>6. QED
    BY <2>1, <2>2, <2>3, <2>4, <2>5, AnswerAgrees, ExchangePerforms, ReversalUndoes, BuyOutLoses,
       StepCases
<1>3. QED
  BY <1>1, <1>2, TypesHold, FuturesStand, PTL DEF Spec, ImplementsAssetExchange, Promised!Spec

----------------------------------------------------------------------------
\* Who holds a contract that was traded.

From(k, c) == trade[executed[k]].moves[c].from
To(k, c) == trade[executed[k]].moves[c].to
Seen(k, c) == trade[executed[k]].moves[c].version

\* The exchange k of c took it from the team the exchanges before k that stand
\* gave it to, or from the first holder of all.
HeldBefore(k, c) ==
  \/ \E m \in StandingExchangesOf(c) :
        /\ m < k /\ \A j \in StandingExchangesOf(c) : j < k => j <= m
        /\ From(k, c) = To(m, c)
  \/ /\ \A j \in StandingExchangesOf(c) : k <= j
     /\ \E f \in ExchangesOf(c) :
           (\A j \in ExchangesOf(c) : f <= j) /\ From(k, c) = From(f, c)

HeldNow(c) ==
  \/ \E m \in StandingExchangesOf(c) :
        (\A j \in StandingExchangesOf(c) : j <= m) /\ owner[c] = To(m, c)
  \/ /\ StandingExchangesOf(c) = {}
     /\ \E f \in ExchangesOf(c) :
           (\A j \in ExchangesOf(c) : f <= j) /\ owner[c] = From(f, c)

\* The record names every trade that was exchanged, and names it once.
RecordInv ==
  /\ \A k \in DOMAIN executed : trade[executed[k]].status \in Done \cup {"reversed"}
  /\ \A k, l \in DOMAIN executed : executed[k] = executed[l] => k = l
  /\ \A p \in Proposals :
        trade[p].status \in Done => \E k \in DOMAIN executed : executed[k] = p

\* An offer knows a version that was; an exchange raised it, a later one again.
VersionInv ==
  /\ \A p \in Proposals : trade[p].status # "none" =>
        \A c \in Moved(p) \cap Contracts : trade[p].moves[c].version <= touched[c]
  /\ \A c \in Contracts : \A k \in ExchangesOf(c) :
        /\ Seen(k, c) + 1 <= touched[c]
        /\ \A l \in ExchangesOf(c) : k < l => Seen(k, c) + 2 <= touched[c]

ChainInv ==
  /\ RecordInv
  /\ VersionInv
  /\ \A c \in Contracts : \A k \in ExchangesOf(c) : HeldBefore(k, c)
  /\ \A c \in Contracts : owner[c] # Nobody /\ ExchangesOf(c) # {} => HeldNow(c)

LEMMA RecordFacts ==
  ASSUME TypeInv, RecordInv, NEW k \in DOMAIN executed
  PROVE  /\ k \in Nat /\ k <= Len(executed) /\ executed[k] \in Proposals
         /\ trade[executed[k]].status # "none"
         /\ \A c \in Moved(executed[k]) : Seen(k, c) \in Nat /\ From(k, c) \in Teams /\ To(k, c) \in Teams
<1>1. executed \in Seq(Proposals) /\ RowsTyped
  BY DEF TypeInv, TypeOK
<1>2. k \in Nat /\ k <= Len(executed) /\ executed[k] \in Proposals
  BY <1>1
<1>3. trade[executed[k]].status # "none"
  BY DEF RecordInv, Done
<1>4. QED
  BY <1>1, <1>2, <1>3, MovesFacts DEF Seen, From, To

\* An exchange on record keeps its terms.
LEMMA RecordLasts ==
  ASSUME TypeInv, RecordInv, [Next]_vars, NEW k \in DOMAIN executed,
         k \in DOMAIN executed', executed'[k] = executed[k], NEW c
  PROVE  /\ k \in ExchangesOf(c)' <=> k \in ExchangesOf(c)
         /\ From(k, c)' = From(k, c) /\ To(k, c)' = To(k, c) /\ Seen(k, c)' = Seen(k, c)
         /\ (trade'[executed[k]].status = "reversed" <=> trade[executed[k]].status = "reversed") =>
               (k \in StandingExchangesOf(c)' <=> k \in StandingExchangesOf(c))
<1>1. SameTerms(trade'[executed[k]], trade[executed[k]])
  BY RecordFacts, TermsLast
<1>2. k \in ExchangesOf(c)' <=> k \in ExchangesOf(c)
  BY <1>1 DEF SameTerms, ExchangesOf, Moved
<1>3. From(k, c)' = From(k, c) /\ To(k, c)' = To(k, c) /\ Seen(k, c)' = Seen(k, c)
  BY <1>1 DEF SameTerms, From, To, Seen
<1>4. (trade'[executed[k]].status = "reversed" <=> trade[executed[k]].status = "reversed") =>
         (k \in StandingExchangesOf(c)' <=> k \in StandingExchangesOf(c))
  BY <1>2 DEF StandingExchangesOf
<1>5. QED
  BY <1>2, <1>3, <1>4

\* A step that exchanges and reverses nothing.
LEMMA ChainStays ==
  ASSUME TypeInv, ChainInv, [Next]_vars, executed' = executed,
         \A q \in Proposals :
            /\ trade[q].status \in Done <=> trade'[q].status \in Done
            /\ trade[q].status = "reversed" <=> trade'[q].status = "reversed",
         \A q \in Proposals : trade[q].status = "none" /\ trade'[q].status # "none" =>
            \A c \in Moved(q)' \cap Contracts : trade'[q].moves[c].version <= touched'[c],
         \A c \in Contracts : /\ touched[c] <= touched'[c]
                              /\ owner'[c] = owner[c] \/ owner'[c] = Nobody
  PROVE  ChainInv'
<1>1. \A k \in DOMAIN executed :
         executed[k] \in Proposals /\ trade[executed[k]].status # "none"
  BY RecordFacts DEF ChainInv
<1>2. RecordInv'
  BY <1>1 DEF ChainInv, RecordInv, Done
<1>3. ASSUME NEW c
      PROVE  /\ ExchangesOf(c)' = ExchangesOf(c)
             /\ StandingExchangesOf(c)' = StandingExchangesOf(c)
             /\ \A k \in ExchangesOf(c) :
                   From(k, c)' = From(k, c) /\ To(k, c)' = To(k, c) /\ Seen(k, c)' = Seen(k, c)
  <2>1. ASSUME NEW k \in DOMAIN executed
        PROVE  /\ k \in ExchangesOf(c)' <=> k \in ExchangesOf(c)
               /\ k \in StandingExchangesOf(c)' <=> k \in StandingExchangesOf(c)
               /\ From(k, c)' = From(k, c) /\ To(k, c)' = To(k, c) /\ Seen(k, c)' = Seen(k, c)
    BY <1>1, RecordLasts DEF ChainInv
  <2>2. /\ ExchangesOf(c) \subseteq DOMAIN executed /\ ExchangesOf(c)' \subseteq DOMAIN executed
        /\ StandingExchangesOf(c) \subseteq DOMAIN executed
        /\ StandingExchangesOf(c)' \subseteq DOMAIN executed
    BY DEF ExchangesOf, StandingExchangesOf
  <2>3. QED
    BY <2>1, <2>2
<1>4. ASSUME NEW c PROVE StandingExchangesOf(c) \subseteq ExchangesOf(c)
  BY DEF StandingExchangesOf
<1>5. \A c \in Contracts : touched[c] \in Nat /\ touched'[c] \in Nat
  BY TypeInductive, ItemFacts DEF TypeInv, TypeOK
<1>6. VersionInv'
  <2>1. ASSUME NEW p \in Proposals, trade'[p].status # "none", NEW c \in Moved(p)' \cap Contracts
        PROVE  trade'[p].moves[c].version <= touched'[c]
    <3>1. CASE trade[p].status = "none"
      BY <2>1, <3>1
    <3>2. CASE trade[p].status # "none"
      <4>1. trade'[p].moves = trade[p].moves
        BY <3>2, TermsLast DEF SameTerms
      <4>2. c \in Moved(p) /\ trade[p].moves[c].version <= touched[c]
        BY <2>1, <3>2, <4>1 DEF Moved, ChainInv, VersionInv
      <4>3. trade[p].moves[c].version \in Nat
        BY <3>2, <4>2, MovesFacts DEF TypeInv
      <4>4. QED
        BY <1>5, <4>1, <4>2, <4>3
    <3>3. QED
      BY <3>1, <3>2
  <2>2. ASSUME NEW c \in Contracts, NEW k \in ExchangesOf(c)
        PROVE  /\ Seen(k, c)' + 1 <= touched'[c]
               /\ \A l \in ExchangesOf(c) : k < l => Seen(k, c)' + 2 <= touched'[c]
    <3>1. Seen(k, c) \in Nat
      BY RecordFacts DEF ChainInv, ExchangesOf
    <3>2. QED
      BY <1>3, <1>5, <3>1 DEF ChainInv, VersionInv
  <2>3. QED
    BY <1>3, <2>1, <2>2 DEF VersionInv
<1>7. \A c \in Contracts : \A k \in ExchangesOf(c)' : HeldBefore(k, c)'
  BY <1>3, <1>4 DEF ChainInv, HeldBefore
<1>8. \A c \in Contracts : owner'[c] # Nobody /\ ExchangesOf(c)' # {} => HeldNow(c)'
  BY <1>3, <1>4 DEF ChainInv, HeldNow
<1>9. QED
  BY <1>2, <1>6, <1>7, <1>8 DEF ChainInv

\* An exchange is the latest one of what it moves.
LEMMA ChainGrows ==
  ASSUME TypeInv, ChainInv, [Next]_vars, NEW p \in Proposals, ExchangeBy(p)
  PROVE  ChainInv'
<1>1. /\ executed \in Seq(Proposals) /\ RowsTyped /\ executed' = Append(executed, p)
      /\ \A c \in Contracts : touched[c] \in Nat /\ c \in Items /\ c # p
  BY ExchangeParts, ItemFacts DEF TypeInv, TypeOK, ExchangeBy
<1>2. PICK n \in Nat :
         /\ n \notin DOMAIN executed /\ DOMAIN executed' = DOMAIN executed \cup {n}
         /\ executed'[n] = p
         /\ \A k \in DOMAIN executed : executed'[k] = executed[k] /\ k \in Nat /\ k < n
  <2>1. Len(executed) + 1 \in Nat
    BY <1>1
  <2>2. QED
    BY <1>1, <2>1
<1>3. /\ RowStep(p, "completed", trade[p].teams, trade[p].effective)
      /\ \A q \in Proposals \ {p} :
            /\ Overtaken(p, q) => RowStep(q, "cancelled", trade[q].consents, trade[q].effective)
            /\ ~Overtaken(p, q) => trade'[q] = trade[q]
  BY <1>1, ExchangeRows DEF ExchangeBy
<1>4. Open(p) /\ trade[p].status # "none" /\ \A c \in Moved(p) : owner[c] = trade[p].moves[c].from
  BY DEF ExchangeBy, Open, Eligible, Moved
<1>5. /\ \A q \in Proposals \ {p} :
            /\ trade[q].status \in Done <=> trade'[q].status \in Done
            /\ trade[q].status = "reversed" <=> trade'[q].status = "reversed"
            /\ trade'[q].status # "none" => trade[q].status # "none"
      /\ trade'[p].status = "completed"
  BY <1>3 DEF RowStep, Overtaken, Open, Done
<1>6. \A k \in DOMAIN executed : executed[k] \in Proposals \ {p} /\ trade[executed[k]].status # "none"
  BY <1>4, RecordFacts DEF ChainInv, RecordInv, Open, Done
<1>7. RecordInv'
  <2>1. \A k \in DOMAIN executed' : trade'[executed'[k]].status \in Done \cup {"reversed"}
    BY <1>2, <1>5, <1>6 DEF ChainInv, RecordInv, Done
  <2>2. \A k, l \in DOMAIN executed' : executed'[k] = executed'[l] => k = l
    BY <1>2, <1>6 DEF ChainInv, RecordInv
  <2>3. \A q \in Proposals :
           trade'[q].status \in Done => \E k \in DOMAIN executed' : executed'[k] = q
    BY <1>2, <1>5 DEF ChainInv, RecordInv
  <2>4. QED
    BY <2>1, <2>2, <2>3 DEF RecordInv
<1>8. ASSUME NEW c
      PROVE  /\ \A k \in DOMAIN executed :
                   /\ k \in ExchangesOf(c)' <=> k \in ExchangesOf(c)
                   /\ k \in StandingExchangesOf(c)' <=> k \in StandingExchangesOf(c)
                   /\ From(k, c)' = From(k, c) /\ To(k, c)' = To(k, c) /\ Seen(k, c)' = Seen(k, c)
             /\ n \in ExchangesOf(c)' <=> c \in Moved(p)
             /\ n \in StandingExchangesOf(c)' <=> c \in Moved(p)
             /\ From(n, c)' = trade[p].moves[c].from /\ To(n, c)' = trade[p].moves[c].to
             /\ Seen(n, c)' = trade[p].moves[c].version
  <2>1. \A k \in DOMAIN executed :
           /\ k \in ExchangesOf(c)' <=> k \in ExchangesOf(c)
           /\ k \in StandingExchangesOf(c)' <=> k \in StandingExchangesOf(c)
           /\ From(k, c)' = From(k, c) /\ To(k, c)' = To(k, c) /\ Seen(k, c)' = Seen(k, c)
    BY <1>2, <1>5, <1>6, RecordLasts DEF ChainInv
  <2>2. trade'[p].moves = trade[p].moves
    BY <1>3 DEF RowStep, SameTerms
  <2>3. n \in ExchangesOf(c)' <=> c \in Moved(p)
    BY <1>2, <2>2 DEF ExchangesOf, Moved
  <2>4. n \in StandingExchangesOf(c)' <=> c \in Moved(p)
    BY <1>2, <1>5, <2>3 DEF StandingExchangesOf
  <2>5. /\ From(n, c)' = trade[p].moves[c].from /\ To(n, c)' = trade[p].moves[c].to
        /\ Seen(n, c)' = trade[p].moves[c].version
    BY <1>2, <2>2 DEF From, To, Seen
  <2>6. QED
    BY <2>1, <2>3, <2>4, <2>5
<1>9. ASSUME NEW c
      PROVE  /\ ExchangesOf(c)' = ExchangesOf(c) \cup {x \in {n} : c \in Moved(p)}
             /\ StandingExchangesOf(c)' = StandingExchangesOf(c) \cup {x \in {n} : c \in Moved(p)}
             /\ StandingExchangesOf(c) \subseteq ExchangesOf(c)
             /\ ExchangesOf(c) \subseteq DOMAIN executed
  <2>1. /\ ExchangesOf(c) \subseteq DOMAIN executed
        /\ StandingExchangesOf(c) \subseteq ExchangesOf(c)
        /\ ExchangesOf(c)' \subseteq DOMAIN executed \cup {n}
        /\ StandingExchangesOf(c)' \subseteq ExchangesOf(c)'
    BY <1>2 DEF ExchangesOf, StandingExchangesOf
  <2>2. QED
    BY <1>2, <1>8, <2>1
<1>10. \A c \in Contracts : /\ touched'[c] = IF c \in Moved(p) THEN touched[c] + 1 ELSE touched[c]
                            /\ owner'[c] = IF c \in Moved(p) THEN trade[p].moves[c].to ELSE owner[c]
  BY <1>1, ExchangeParts, ItemFacts DEF ExchangeBy, HolderAfter, Settles
<1>11. VersionInv'
  <2>1. ASSUME NEW q \in Proposals, trade'[q].status # "none", NEW c \in Moved(q)' \cap Contracts
        PROVE  trade'[q].moves[c].version <= touched'[c]
    <3>1. trade[q].status # "none" /\ trade'[q].moves = trade[q].moves
      BY <1>4, <1>5, <2>1, TermsLast DEF SameTerms
    <3>2. c \in Moved(q) /\ trade[q].moves[c].version <= touched[c]
      BY <2>1, <3>1 DEF Moved, ChainInv, VersionInv
    <3>3. trade[q].moves[c].version \in Nat
      BY <1>1, <3>1, <3>2, MovesFacts
    <3>4. QED
      BY <1>1, <1>10, <3>1, <3>2, <3>3
  <2>2. ASSUME NEW c \in Contracts, NEW k \in ExchangesOf(c)
        PROVE  /\ Seen(k, c)' + 1 <= touched'[c]
               /\ \A l \in ExchangesOf(c)' : k < l => Seen(k, c)' + 2 <= touched'[c]
    <3>1. Seen(k, c) \in Nat /\ Seen(k, c)' = Seen(k, c)
      BY <1>8, RecordFacts DEF ChainInv, ExchangesOf
    <3>2. Seen(k, c) + 1 <= touched[c] /\ \A l \in ExchangesOf(c) : k < l => Seen(k, c) + 2 <= touched[c]
      BY DEF ChainInv, VersionInv
    <3>3. CASE c \in Moved(p)
      BY <1>1, <1>10, <3>1, <3>2, <3>3
    <3>4. CASE c \notin Moved(p)
      <4>1. ExchangesOf(c)' = ExchangesOf(c)
        BY <1>9, <3>4
      <4>2. QED
        BY <1>10, <3>1, <3>2, <3>4, <4>1
    <3>5. QED
      BY <3>3, <3>4
  <2>3. ASSUME NEW c \in Contracts, c \in Moved(p)
        PROVE  /\ Seen(n, c)' + 1 <= touched'[c]
               /\ \A l \in ExchangesOf(c)' : ~(n < l)
    <3>1. trade[p].moves[c].version \in Nat /\ trade[p].moves[c].version <= touched[c]
      BY <1>1, <1>4, <2>3, MovesFacts DEF ChainInv, VersionInv
    <3>2. Seen(n, c)' + 1 <= touched'[c]
      BY <1>1, <1>8, <1>10, <2>3, <3>1
    <3>3. \A l \in ExchangesOf(c)' : ~(n < l)
      BY <1>2, <1>9
    <3>4. QED
      BY <3>2, <3>3
  <2>4. ASSUME NEW c \in Contracts, NEW k \in ExchangesOf(c)'
        PROVE  /\ Seen(k, c)' + 1 <= touched'[c]
               /\ \A l \in ExchangesOf(c)' : k < l => Seen(k, c)' + 2 <= touched'[c]
    BY <1>9, <2>2, <2>3
  <2>5. QED
    BY <2>1, <2>4 DEF VersionInv
<1>12. ASSUME NEW c \in Contracts, NEW k \in ExchangesOf(c)'
       PROVE  HeldBefore(k, c)'
  <2>1. CASE k \in ExchangesOf(c)
    <3>1. HeldBefore(k, c) /\ k < n /\ k \in Nat
      BY <1>2, <1>9, <2>1 DEF ChainInv
    <3>2. CASE \E m \in StandingExchangesOf(c) :
                  /\ m < k /\ \A j \in StandingExchangesOf(c) : j < k => j <= m
                  /\ From(k, c) = To(m, c)
      <4>1. PICK m \in StandingExchangesOf(c) :
                  /\ m < k /\ \A j \in StandingExchangesOf(c) : j < k => j <= m
                  /\ From(k, c) = To(m, c)
        BY <3>2
      <4>2. m \in StandingExchangesOf(c)' /\ From(k, c)' = To(m, c)'
        BY <1>8, <1>9, <2>1, <4>1
      <4>3. \A j \in StandingExchangesOf(c)' : j < k => j <= m
        BY <1>2, <1>9, <3>1, <4>1
      <4>4. QED
        BY <4>1, <4>2, <4>3 DEF HeldBefore
    <3>3. CASE /\ \A j \in StandingExchangesOf(c) : k <= j
               /\ \E f \in ExchangesOf(c) :
                     (\A j \in ExchangesOf(c) : f <= j) /\ From(k, c) = From(f, c)
      <4>1. PICK f \in ExchangesOf(c) :
                  (\A j \in ExchangesOf(c) : f <= j) /\ From(k, c) = From(f, c)
        BY <3>3
      <4>2. f \in ExchangesOf(c)' /\ From(k, c)' = From(f, c)'
        BY <1>8, <1>9, <2>1, <4>1
      <4>3. \A j \in ExchangesOf(c)' : f <= j
        BY <1>2, <1>9, <4>1
      <4>4. \A j \in StandingExchangesOf(c)' : k <= j
        BY <1>2, <1>9, <3>1, <3>3
      <4>5. QED
        BY <4>2, <4>3, <4>4 DEF HeldBefore
    <3>4. QED
      BY <3>1, <3>2, <3>3 DEF HeldBefore
  <2>2. CASE k = n /\ c \in Moved(p)
    <3>1. /\ From(n, c)' = owner[c] /\ owner[c] # Nobody
          /\ ExchangesOf(c)' = ExchangesOf(c) \cup {n}
          /\ StandingExchangesOf(c)' = StandingExchangesOf(c) \cup {n}
      BY <1>1, <1>4, <1>8, <1>9, <2>2, MovesFacts, TradeAssumption
    <3>2. CASE ExchangesOf(c) = {}
      <4>1. ExchangesOf(c)' = {n} /\ StandingExchangesOf(c)' = {n}
        BY <1>9, <3>1, <3>2
      <4>2. QED
        BY <1>2, <2>2, <4>1 DEF HeldBefore
    <3>3. CASE ExchangesOf(c) # {}
      <4>1. HeldNow(c)
        BY <3>1, <3>3 DEF ChainInv
      <4>2. CASE \E m \in StandingExchangesOf(c) :
                    (\A j \in StandingExchangesOf(c) : j <= m) /\ owner[c] = To(m, c)
        <5>1. PICK m \in StandingExchangesOf(c) :
                    (\A j \in StandingExchangesOf(c) : j <= m) /\ owner[c] = To(m, c)
          BY <4>2
        <5>2. m \in StandingExchangesOf(c)' /\ m < n /\ From(n, c)' = To(m, c)'
          BY <1>2, <1>8, <1>9, <3>1, <5>1
        <5>3. \A j \in StandingExchangesOf(c)' : j < n => j <= m
          BY <1>2, <3>1, <5>1
        <5>4. QED
          BY <2>2, <5>2, <5>3 DEF HeldBefore
      <4>3. CASE /\ StandingExchangesOf(c) = {}
                 /\ \E f \in ExchangesOf(c) :
                       (\A j \in ExchangesOf(c) : f <= j) /\ owner[c] = From(f, c)
        <5>1. PICK f \in ExchangesOf(c) :
                    (\A j \in ExchangesOf(c) : f <= j) /\ owner[c] = From(f, c)
          BY <4>3
        <5>2. f \in ExchangesOf(c)' /\ From(n, c)' = From(f, c)'
          BY <1>8, <1>9, <3>1, <5>1
        <5>3. \A j \in ExchangesOf(c)' : f <= j
          BY <1>2, <1>9, <3>1, <5>1
        <5>4. \A j \in StandingExchangesOf(c)' : n <= j
          BY <1>2, <3>1, <4>3
        <5>5. QED
          BY <2>2, <5>2, <5>3, <5>4 DEF HeldBefore
      <4>4. QED
        BY <4>1, <4>2, <4>3 DEF HeldNow
    <3>4. QED
      BY <3>2, <3>3
  <2>3. QED
    BY <1>9, <2>1, <2>2
<1>13. ASSUME NEW c \in Contracts, owner'[c] # Nobody, ExchangesOf(c)' # {}
       PROVE  HeldNow(c)'
  <2>1. CASE c \in Moved(p)
    <3>1. n \in StandingExchangesOf(c)' /\ owner'[c] = To(n, c)'
      BY <1>8, <1>10, <2>1
    <3>2. \A j \in StandingExchangesOf(c)' : j <= n
      BY <1>2, <1>9
    <3>3. QED
      BY <3>1, <3>2 DEF HeldNow
  <2>2. CASE c \notin Moved(p)
    <3>1. /\ ExchangesOf(c)' = ExchangesOf(c) /\ StandingExchangesOf(c)' = StandingExchangesOf(c)
          /\ owner'[c] = owner[c]
          /\ \A k \in ExchangesOf(c) : From(k, c)' = From(k, c) /\ To(k, c)' = To(k, c)
      BY <1>8, <1>9, <1>10, <2>2
    <3>2. HeldNow(c)
      BY <1>13, <3>1 DEF ChainInv
    <3>3. QED
      BY <1>9, <3>1, <3>2 DEF HeldNow
  <2>3. QED
    BY <2>1, <2>2
<1>14. QED
  BY <1>7, <1>11, <1>12, <1>13 DEF ChainInv

\* A reversal takes back the latest exchange of each contract it moves, since
\* any later one would show in the version.
LEMMA ChainShrinks ==
  ASSUME TypeInv, FutureInv, ChainInv, [Next]_vars, NEW p \in Proposals, Reverse(p)
  PROVE  ChainInv'
<1>1. /\ RowsTyped /\ executed' = executed /\ p \notin Contracts
      /\ \A c \in Contracts : touched[c] \in Nat /\ c \in Items
  BY ItemFacts DEF TypeInv, TypeOK, Reverse, record
<1>2. /\ OnlyRow(p) /\ RowStep(p, "reversed", trade[p].consents, trade[p].effective)
      /\ trade[p].status = "completed" /\ Recoverable(p)
  BY <1>1, ClosedStep DEF Reverse, Statuses
<1>3. PICK n \in DOMAIN executed : executed[n] = p
  BY <1>2 DEF ChainInv, RecordInv, Done
<1>4. /\ n \in Nat /\ \A k \in DOMAIN executed : k \in Nat
      /\ \A k \in DOMAIN executed : executed[k] \in Proposals /\ trade[executed[k]].status # "none"
      /\ \A k \in DOMAIN executed \ {n} : executed[k] # p
  BY <1>3, RecordFacts DEF ChainInv, RecordInv
<1>5. \A q \in Proposals \ {p} : trade'[q] = trade[q]
  BY <1>2 DEF OnlyRow
<1>6. RecordInv'
  BY <1>1, <1>2, <1>4, <1>5 DEF ChainInv, RecordInv, RowStep, Done
<1>7. ASSUME NEW c
      PROVE  /\ ExchangesOf(c)' = ExchangesOf(c) /\ ExchangesOf(c) \subseteq DOMAIN executed
             /\ StandingExchangesOf(c) \subseteq ExchangesOf(c)
             /\ StandingExchangesOf(c)' = StandingExchangesOf(c) \ {n}
             /\ \A k \in ExchangesOf(c) :
                   From(k, c)' = From(k, c) /\ To(k, c)' = To(k, c) /\ Seen(k, c)' = Seen(k, c)
             /\ n \in ExchangesOf(c) <=> c \in Moved(p)
             /\ n \in StandingExchangesOf(c) <=> c \in Moved(p)
             /\ From(n, c) = trade[p].moves[c].from /\ Seen(n, c) = trade[p].moves[c].version
  <2>1. ASSUME NEW k \in DOMAIN executed
        PROVE  /\ k \in ExchangesOf(c)' <=> k \in ExchangesOf(c)
               /\ k # n => (k \in StandingExchangesOf(c)' <=> k \in StandingExchangesOf(c))
               /\ From(k, c)' = From(k, c) /\ To(k, c)' = To(k, c) /\ Seen(k, c)' = Seen(k, c)
    BY <1>1, <1>4, <1>5, RecordLasts DEF ChainInv
  <2>2. /\ ExchangesOf(c) \subseteq DOMAIN executed /\ ExchangesOf(c)' \subseteq DOMAIN executed
        /\ StandingExchangesOf(c) \subseteq ExchangesOf(c)
        /\ StandingExchangesOf(c)' \subseteq ExchangesOf(c)'
    BY <1>1 DEF ExchangesOf, StandingExchangesOf
  <2>3. n \notin StandingExchangesOf(c)'
    BY <1>1, <1>2, <1>3 DEF StandingExchangesOf, RowStep
  <2>4. /\ n \in ExchangesOf(c) <=> c \in Moved(p)
        /\ n \in StandingExchangesOf(c) <=> c \in Moved(p)
        /\ From(n, c) = trade[p].moves[c].from /\ Seen(n, c) = trade[p].moves[c].version
    BY <1>2, <1>3 DEF ExchangesOf, StandingExchangesOf, From, Seen
  <2>5. ExchangesOf(c)' = ExchangesOf(c)
    BY <2>1, <2>2
  <2>6. StandingExchangesOf(c)' = StandingExchangesOf(c) \ {n}
    BY <2>1, <2>2, <2>3
  <2>7. QED
    BY <2>1, <2>2, <2>4, <2>5, <2>6
<1>8. \A c \in Contracts :
         /\ owner'[c] = IF c \in Moved(p) THEN trade[p].moves[c].from ELSE owner[c]
         /\ touched'[c] = IF c \in Moved(p) THEN touched[c] + 1 ELSE touched[c]
  BY <1>1 DEF Reverse
\* Every later exchange would have raised the version once more.
<1>9. ASSUME NEW c \in Contracts \cap Moved(p), NEW k \in ExchangesOf(c)
      PROVE  k <= n
  <2>1. touched[c] = Seen(n, c) + 1 /\ n \in ExchangesOf(c) /\ k \in Nat
    BY <1>2, <1>4, <1>7 DEF Recoverable, Unchanged
  <2>2. n < k => Seen(n, c) + 2 <= touched[c]
    BY <2>1 DEF ChainInv, VersionInv
  <2>3. Seen(n, c) \in Nat
    BY <1>3, <1>7, RecordFacts DEF ChainInv
  <2>4. QED
    BY <1>4, <2>1, <2>2, <2>3
<1>10. VersionInv'
  <2>1. ASSUME NEW q \in Proposals, trade'[q].status # "none", NEW c \in Moved(q)' \cap Contracts
        PROVE  trade'[q].moves[c].version <= touched'[c]
    <3>1. trade[q].status # "none" /\ trade'[q].moves = trade[q].moves
      BY <1>2, <1>5, <2>1, TermsLast DEF SameTerms
    <3>2. c \in Moved(q) /\ trade[q].moves[c].version <= touched[c]
      BY <2>1, <3>1 DEF Moved, ChainInv, VersionInv
    <3>3. trade[q].moves[c].version \in Nat
      BY <1>1, <3>1, <3>2, MovesFacts
    <3>4. QED
      BY <1>1, <1>8, <3>1, <3>2, <3>3
  <2>2. ASSUME NEW c \in Contracts, NEW k \in ExchangesOf(c)
        PROVE  /\ Seen(k, c)' + 1 <= touched'[c]
               /\ \A l \in ExchangesOf(c) : k < l => Seen(k, c)' + 2 <= touched'[c]
    <3>1. Seen(k, c) \in Nat
      BY RecordFacts DEF ChainInv, ExchangesOf
    <3>2. QED
      BY <1>1, <1>7, <1>8, <3>1 DEF ChainInv, VersionInv
  <2>3. QED
    BY <1>7, <2>1, <2>2 DEF VersionInv
<1>11. ASSUME NEW c \in Contracts, NEW k \in ExchangesOf(c)'
       PROVE  HeldBefore(k, c)'
  <2>1. k \in ExchangesOf(c) /\ HeldBefore(k, c) /\ k \in Nat
    BY <1>4, <1>7 DEF ChainInv
  <2>2. n \in StandingExchangesOf(c) => k <= n
    BY <1>7, <1>9, <2>1
  <2>3. CASE \E m \in StandingExchangesOf(c) :
                /\ m < k /\ \A j \in StandingExchangesOf(c) : j < k => j <= m
                /\ From(k, c) = To(m, c)
    <3>1. PICK m \in StandingExchangesOf(c) :
                /\ m < k /\ \A j \in StandingExchangesOf(c) : j < k => j <= m
                /\ From(k, c) = To(m, c)
      BY <2>3
    <3>2. m # n
      BY <1>4, <2>1, <2>2, <3>1
    <3>3. /\ m \in StandingExchangesOf(c)' /\ From(k, c)' = To(m, c)'
          /\ \A j \in StandingExchangesOf(c)' : j < k => j <= m
      BY <1>7, <2>1, <3>1, <3>2
    <3>4. QED
      BY <3>1, <3>3 DEF HeldBefore
  <2>4. CASE /\ \A j \in StandingExchangesOf(c) : k <= j
             /\ \E f \in ExchangesOf(c) :
                   (\A j \in ExchangesOf(c) : f <= j) /\ From(k, c) = From(f, c)
    BY <1>7, <2>1, <2>4 DEF HeldBefore
  <2>5. QED
    BY <2>1, <2>3, <2>4 DEF HeldBefore
<1>12. ASSUME NEW c \in Contracts, owner'[c] # Nobody, ExchangesOf(c)' # {}
       PROVE  HeldNow(c)'
  <2>1. CASE c \notin Moved(p)
    <3>1. /\ StandingExchangesOf(c)' = StandingExchangesOf(c) /\ ExchangesOf(c)' = ExchangesOf(c)
          /\ owner'[c] = owner[c]
          /\ \A k \in ExchangesOf(c) : From(k, c)' = From(k, c) /\ To(k, c)' = To(k, c)
      BY <1>7, <1>8, <2>1
    <3>2. HeldNow(c)
      BY <1>12, <3>1 DEF ChainInv
    <3>3. QED
      BY <1>7, <3>1, <3>2 DEF HeldNow
  <2>2. CASE c \in Moved(p)
    <3>1. /\ n \in ExchangesOf(c) /\ HeldBefore(n, c) /\ owner'[c] = From(n, c)
          /\ \A j \in StandingExchangesOf(c)' : j \in StandingExchangesOf(c) /\ j < n
      <4>1. n \in ExchangesOf(c) /\ HeldBefore(n, c) /\ owner'[c] = From(n, c)
        BY <1>7, <1>8, <2>2 DEF ChainInv
      <4>2. ASSUME NEW j \in StandingExchangesOf(c)'
            PROVE  j \in StandingExchangesOf(c) /\ j < n
        <5>1. j \in StandingExchangesOf(c) /\ j # n /\ j \in Nat
          BY <1>4, <1>7
        <5>2. j <= n
          BY <1>7, <1>9, <2>2, <5>1
        <5>3. QED
          BY <1>4, <5>1, <5>2
      <4>3. QED
        BY <4>1, <4>2
    <3>2. CASE \E m \in StandingExchangesOf(c) :
                  /\ m < n /\ \A j \in StandingExchangesOf(c) : j < n => j <= m
                  /\ From(n, c) = To(m, c)
      <4>1. PICK m \in StandingExchangesOf(c) :
                  /\ m < n /\ \A j \in StandingExchangesOf(c) : j < n => j <= m
                  /\ From(n, c) = To(m, c)
        BY <3>2
      <4>2. m \in StandingExchangesOf(c)' /\ owner'[c] = To(m, c)'
        BY <1>4, <1>7, <3>1, <4>1
      <4>3. QED
        BY <3>1, <4>1, <4>2 DEF HeldNow
    <3>3. CASE /\ \A j \in StandingExchangesOf(c) : n <= j
               /\ \E f \in ExchangesOf(c) :
                     (\A j \in ExchangesOf(c) : f <= j) /\ From(n, c) = From(f, c)
      <4>1. StandingExchangesOf(c)' = {}
        BY <1>4, <1>7, <3>1, <3>3
      <4>2. QED
        BY <1>7, <3>1, <3>3, <4>1 DEF HeldNow
    <3>4. QED
      BY <3>1, <3>2, <3>3 DEF HeldBefore
  <2>3. QED
    BY <2>1, <2>2
<1>13. QED
  BY <1>6, <1>10, <1>11, <1>12 DEF ChainInv

LEMMA ChainInductive ==
  ASSUME TypeInv, FutureInv, ChainInv, [Next]_vars
  PROVE  ChainInv'
<1> USE DEF rosters, record
<1>1. /\ RowsTyped /\ TimesTyped /\ (\A w \in Workers : WorkTyped(work[w]))
      /\ \A c \in Contracts : c \in Items /\ touched[c] \in Nat
  BY TypedTimes, ItemFacts DEF TypeInv, TypeOK
<1>2. CASE Aside \/ Tick
  BY <1>1, <1>2, ChainStays DEF Aside, Tick
<1>3. ASSUME NEW c \in Contracts, MoveOnRoster(c)
      PROVE  ChainInv'
  <2>1. /\ owner' = owner /\ trade' = trade /\ executed' = executed
        /\ \A d \in Contracts : touched[d] <= touched'[d]
    BY <1>1, <1>3 DEF MoveOnRoster, TimesTyped
  <2>2. QED
    BY <2>1, ChainStays
<1>4. ASSUME NEW p \in Fresh, NEW teams \in SUBSET Teams, NEW proposer \in teams,
             NEW terms \in Offers(teams), Submits(p, teams, proposer, terms)
      PROVE  ChainInv'
  <2>1. /\ p \in Proposals /\ trade[p].status = "none" /\ trade'[p] = Submitted(proposer, teams, terms)
        /\ \A q \in Proposals \ {p} :
               \/ trade'[q] = trade[q]
               \/ /\ trade[q].status = "proposed"
                  /\ RowStep(q, "declined", trade[q].consents \ {proposer}, trade[q].effective)
        /\ owner' = owner /\ touched' = touched /\ executed' = executed
    BY <1>1, <1>4, SubmittedRows DEF Submits
  <2>2. /\ trade'[p].status = "proposed" /\ trade'[p].moves = terms.moves
        /\ \A i \in DOMAIN terms.moves : terms.moves[i].version = touched[i]
    BY <1>1, <2>1, OfferTerms DEF Submitted, TimesTyped
  <2>3. \A q \in Proposals :
           /\ trade[q].status \in Done <=> trade'[q].status \in Done
           /\ trade[q].status = "reversed" <=> trade'[q].status = "reversed"
    BY <2>1, <2>2 DEF RowStep, Done
  <2>4. ASSUME NEW q \in Proposals, trade[q].status = "none", trade'[q].status # "none",
               NEW c \in Moved(q)' \cap Contracts
        PROVE  trade'[q].moves[c].version <= touched'[c]
    <3>1. q = p
      BY <2>1, <2>4
    <3>2. trade'[q].moves[c].version = touched[c]
      BY <2>2, <2>4, <3>1 DEF Moved
    <3>3. QED
      BY <1>1, <2>1, <3>2
  <2>5. QED
    BY <1>1, <2>1, <2>3, <2>4, ChainStays
<1>5. ASSUME NEW p \in Proposals, Answered(p)
      PROVE  ChainInv'
  <2>1. \A q \in Proposals :
           /\ trade[q].status \in Done <=> trade'[q].status \in Done
           /\ trade[q].status = "reversed" <=> trade'[q].status = "reversed"
           /\ trade'[q].status # "none" => trade[q].status # "none"
    BY <1>5 DEF Answered, OnlyRow, ClosedBy, AgreedBy, RowStep, Open, Done
  <2>2. QED
    BY <1>1, <1>5, <2>1, ChainStays DEF Answered
<1>6. ASSUME NEW p \in Proposals, NEW slotTaken \in BOOLEAN, MarkForCorrection(p, slotTaken)
      PROVE  ChainInv'
  <2>1. /\ OnlyRow(p) /\ RowStep(p, "correction_required", trade[p].consents, trade[p].effective)
        /\ trade[p].status = "completed"
        /\ owner' = owner /\ touched' = touched /\ executed' = executed
    BY <1>1, <1>6, ClosedStep DEF MarkForCorrection, Statuses
  <2>2. \A q \in Proposals :
           /\ trade[q].status \in Done <=> trade'[q].status \in Done
           /\ trade[q].status = "reversed" <=> trade'[q].status = "reversed"
           /\ trade'[q].status # "none" => trade[q].status # "none"
    BY <2>1 DEF OnlyRow, RowStep, Done
  <2>3. QED
    BY <1>1, <2>1, <2>2, ChainStays
<1>7. ASSUME NEW c \in Contracts, BuyOut(c)
      PROVE  ChainInv'
  <2>1. \A q \in Proposals :
           /\ trade[q].status \in Done <=> trade'[q].status \in Done
           /\ trade[q].status = "reversed" <=> trade'[q].status = "reversed"
           /\ trade'[q].status # "none" => trade[q].status # "none"
    BY <1>1, <1>7, BuyOutRows DEF Offering, RowStep, Open, Done
  <2>2. /\ executed' = executed
        /\ \A d \in Contracts : touched[d] <= touched'[d] /\ (owner'[d] = owner[d] \/ owner'[d] = Nobody)
    BY <1>1, <1>7, BuyOutParts DEF TimesTyped
  <2>3. QED
    BY <2>1, <2>2, ChainStays
<1>8. ASSUME NEW d \in Deadlines, ChangeDeadline(d)
      PROVE  ChainInv'
  <2>1. \A q \in Proposals :
           /\ trade[q].status \in Done <=> trade'[q].status \in Done
           /\ trade[q].status = "reversed" <=> trade'[q].status = "reversed"
           /\ trade'[q].status # "none" => trade[q].status # "none"
    BY <1>1, <1>8, DeadlineRows DEF RowStep
  <2>2. owner' = owner /\ touched' = touched /\ executed' = executed
    BY <1>8 DEF ChangeDeadline
  <2>3. QED
    BY <1>1, <2>1, <2>2, ChainStays
<1>9. QED
  BY <1>1, <1>2, <1>3, <1>4, <1>5, <1>6, <1>7, <1>8, ChainGrows, ChainShrinks, StepCases
     DEF Submission

\* The holder the chain leads to is the one the property names.
LEMMA ChainTells ==
  ASSUME TypeInv, ChainInv
  PROVE  HoldersFollowTrades
<1> SUFFICES ASSUME NEW c \in Contracts, owner[c] # Nobody, ExchangesOf(c) # {}
             PROVE  HolderFollowsTrades(c)
  BY DEF HoldersFollowTrades, HolderFollowsTrades, StandingExchangesOf
<1>1. /\ HeldNow(c) /\ StandingExchangesOf(c) \subseteq ExchangesOf(c)
      /\ \A k \in ExchangesOf(c) : k \in Nat
  BY RecordFacts DEF ChainInv, ExchangesOf, StandingExchangesOf
<1>2. CASE \E m \in StandingExchangesOf(c) :
              (\A j \in StandingExchangesOf(c) : j <= m) /\ owner[c] = To(m, c)
  <2>1. PICK m \in StandingExchangesOf(c) :
              (\A j \in StandingExchangesOf(c) : j <= m) /\ owner[c] = To(m, c)
    BY <1>2
  <2>2. Max(StandingExchangesOf(c)) = m
    <3>1. \A j \in StandingExchangesOf(c) : m >= j
      BY <1>1, <2>1
    <3>2. /\ Max(StandingExchangesOf(c)) \in StandingExchangesOf(c)
          /\ \A j \in StandingExchangesOf(c) : Max(StandingExchangesOf(c)) >= j
      BY <2>1, <3>1 DEF Max
    <3>3. QED
      BY <1>1, <2>1, <3>1, <3>2
  <2>3. QED
    BY <2>1, <2>2 DEF HolderFollowsTrades, To
<1>3. CASE /\ StandingExchangesOf(c) = {}
           /\ \E f \in ExchangesOf(c) :
                 (\A j \in ExchangesOf(c) : f <= j) /\ owner[c] = From(f, c)
  <2>1. PICK f \in ExchangesOf(c) :
              (\A j \in ExchangesOf(c) : f <= j) /\ owner[c] = From(f, c)
    BY <1>3
  <2>2. Min(ExchangesOf(c)) = f
    <3>1. /\ Min(ExchangesOf(c)) \in ExchangesOf(c)
          /\ \A j \in ExchangesOf(c) : Min(ExchangesOf(c)) =< j
      BY <2>1 DEF Min
    <3>2. QED
      BY <1>1, <2>1, <3>1
  <2>3. QED
    BY <1>3, <2>1, <2>2 DEF HolderFollowsTrades, From
<1>4. QED
  BY <1>1, <1>2, <1>3 DEF HeldNow

\* A contract is with the team the latest exchange that stands gave it to, or
\* with its first holder: what trades in whatever order add up to, over
\* reversals, corrections and roster moves in between.
THEOREM HoldersFollow == Spec => []HoldersFollowTrades
<1>1. Init => ChainInv
  <2>1. Init => executed = <<>> /\ \A p \in Proposals : trade[p].status = "none"
    BY DEF Init, NoTrade
  <2>2. QED
    BY <2>1 DEF ChainInv, RecordInv, VersionInv, ExchangesOf, Done
<1>2. TypeInv /\ FutureInv /\ ChainInv /\ [Next]_vars => ChainInv'
  BY ChainInductive
<1>3. TypeInv /\ ChainInv => HoldersFollowTrades
  BY ChainTells
<1>4. QED
  BY <1>1, <1>2, <1>3, TypesHold, FuturesStand, PTL DEF Spec

----------------------------------------------------------------------------
\* Sums of retained amounts.

First(s) == CHOOSE x \in s : TRUE
Amount(rows, x) == rows[x[1]].retained[x[2]]

\* The function MapThenSumSet recurs on, and the sum it gives.
Adds(rows, S, g) ==
  g = [s \in SUBSET S |-> IF s = {} THEN 0 ELSE Amount(rows, First(s)) + g[s \ {First(s)}]]

Total(rows, S) == (CHOOSE g : Adds(rows, S, g))[S]

LEMMA TotalIsTheSum ==
  ASSUME NEW S
  PROVE  /\ MapThenSumSet(AmountOf, S) = Total(trade, S)
         /\ MapThenSumSet(AmountOf, S)' = Total(trade', S)
BY DEF MapThenSumSet, MapThenFoldSet, AmountOf, Total, Adds, Amount, First

LEMMA FirstIsOne ==
  ASSUME NEW S, S # {}
  PROVE  First(S) \in S
BY DEF First

\* Among sets of subsets of a finite set there is a smallest.
LEMMA SmallestSet ==
  ASSUME NEW U, IsFiniteSet(U), NEW Sets \in SUBSET SUBSET U, Sets # {}
  PROVE  \E S \in Sets : \A R \in Sets : R \subseteq S => R = S
<1>1. IsWellFoundedOn(StrictSubsetOrdering(U), SUBSET U)
  BY FS_StrictSubsetOrderingWellFounded, FS_FiniteSubsetsOfFinite
<1>2. PICK S \in Sets : \A R \in Sets : ~ (<<R, S>> \in StrictSubsetOrdering(U))
  BY <1>1, WFMin
<1>3. ASSUME NEW R \in Sets, R \subseteq S, R # S
      PROVE  FALSE
  <2>1. <<R, S>> \in (SUBSET U) \X (SUBSET U)
    OBVIOUS
  <2>2. <<R, S>> \in StrictSubsetOrdering(U)
    BY <2>1, <1>3 DEF StrictSubsetOrdering
  <2>3. QED
    BY <1>2, <2>2
<1>4. QED
  BY <1>3

LEMMA AddsAgree ==
  ASSUME NEW rows, NEW S, NEW T, IsFiniteSet(T), T \subseteq S,
         NEW g, NEW h, Adds(rows, S, g), Adds(rows, T, h)
  PROVE  \A s \in SUBSET T : g[s] = h[s]
<1> DEFINE Bad == {s \in SUBSET T : g[s] # h[s]}
<1>1. SUFFICES ASSUME Bad # {} PROVE FALSE
  OBVIOUS
<1>2. PICK s \in Bad : \A r \in Bad : r \subseteq s => r = s
  <2>1. Bad \in SUBSET SUBSET T
    OBVIOUS
  <2> HIDE DEF Bad
  <2>2. QED
    BY <1>1, <2>1, SmallestSet
<1>3. s \in SUBSET S /\ s \in SUBSET T
  OBVIOUS
<1>4. /\ g[s] = IF s = {} THEN 0 ELSE Amount(rows, First(s)) + g[s \ {First(s)}]
      /\ h[s] = IF s = {} THEN 0 ELSE Amount(rows, First(s)) + h[s \ {First(s)}]
  BY <1>3 DEF Adds
<1>5. s # {}
  BY <1>4
<1>6. s \ {First(s)} \in SUBSET T /\ s \ {First(s)} # s
  BY <1>5, <1>3, FirstIsOne
<1>7. g[s \ {First(s)}] = h[s \ {First(s)}]
  BY <1>6, <1>2
<1>8. QED
  BY <1>4, <1>5, <1>7

LEMMA AddsExists ==
  ASSUME NEW rows, NEW U, IsFiniteSet(U)
  PROVE  \E g : Adds(rows, U, g)
<1> DEFINE Bad == {s \in SUBSET U : ~ \E g : Adds(rows, s, g)}
<1>1. SUFFICES ASSUME Bad # {} PROVE FALSE
  OBVIOUS
<1>2. PICK S \in Bad : \A r \in Bad : r \subseteq S => r = S
  <2>1. Bad \in SUBSET SUBSET U
    OBVIOUS
  <2> HIDE DEF Bad
  <2>2. QED
    BY <1>1, <2>1, SmallestSet
<1>3. S \in SUBSET U /\ IsFiniteSet(S) /\ \A s \in SUBSET S : IsFiniteSet(s)
  BY FS_Subset
<1> DEFINE f(s) == CHOOSE g : Adds(rows, s, g)
<1>4. ASSUME NEW s \in SUBSET S, s # S
      PROVE  Adds(rows, s, f(s))
  <2>1. \E g : Adds(rows, s, g)
    BY <1>2, <1>3, <1>4
  <2>2. QED
    BY <2>1
<1>5. ASSUME NEW s \in SUBSET S, s # S
      PROVE  Total(rows, s) = IF s = {} THEN 0
                              ELSE Amount(rows, First(s)) + Total(rows, s \ {First(s)})
  <2>1. Adds(rows, s, f(s)) /\ Total(rows, s) = f(s)[s]
    BY <1>4, <1>5 DEF Total
  <2> HIDE DEF f
  <2>2. f(s)[s] = IF s = {} THEN 0 ELSE Amount(rows, First(s)) + f(s)[s \ {First(s)}]
    BY <2>1 DEF Adds
  <2>3. CASE s = {}
    BY <2>1, <2>2, <2>3
  <2>4. CASE s # {}
    <3>1. /\ s \ {First(s)} \in SUBSET S /\ s \ {First(s)} # S
          /\ s \ {First(s)} \in SUBSET s
      BY <1>5, <2>4, FirstIsOne
    <3>2. /\ Adds(rows, s \ {First(s)}, f(s \ {First(s)}))
          /\ Total(rows, s \ {First(s)}) = f(s \ {First(s)})[s \ {First(s)}]
      BY <3>1, <1>4 DEF f, Total
    <3>3. f(s)[s \ {First(s)}] = f(s \ {First(s)})[s \ {First(s)}]
      BY <3>1, <3>2, <2>1, <1>3, AddsAgree
    <3>4. QED
      BY <2>1, <2>2, <2>4, <3>2, <3>3
  <2>5. QED
    BY <2>3, <2>4
<1> DEFINE g == [s \in SUBSET S |-> IF s = {} THEN 0
                                    ELSE Amount(rows, First(s)) + Total(rows, s \ {First(s)})]
<1>6. ASSUME NEW s \in SUBSET S, s # {}
      PROVE  g[s \ {First(s)}] = Total(rows, s \ {First(s)})
  <2>1. s \ {First(s)} \in SUBSET S /\ s \ {First(s)} # S
    BY <1>6, FirstIsOne
  <2>2. QED
    BY <2>1, <1>5
<1>7. g = [s \in SUBSET S |-> IF s = {} THEN 0 ELSE Amount(rows, First(s)) + g[s \ {First(s)}]]
  <2>1. \A s \in SUBSET S :
           (IF s = {} THEN 0 ELSE Amount(rows, First(s)) + Total(rows, s \ {First(s)}))
             = IF s = {} THEN 0 ELSE Amount(rows, First(s)) + g[s \ {First(s)}]
    <3> HIDE DEF g
    <3>1. QED
      BY <1>6
  <2>2. QED
    BY <2>1
<1>8. Adds(rows, S, g)
  <2> HIDE DEF g
  <2>1. QED
    BY <1>7 DEF Adds
<1>9. QED
  BY <1>8

\* The equation MapThenSumSet is defined by.
LEMMA TotalIs ==
  ASSUME NEW rows, NEW S, IsFiniteSet(S)
  PROVE  /\ S = {} => Total(rows, S) = 0
         /\ S # {} => Total(rows, S) = Amount(rows, First(S)) + Total(rows, S \ {First(S)})
<1>1. PICK g : g = (CHOOSE k : Adds(rows, S, k))
  OBVIOUS
<1>2. Adds(rows, S, g) /\ Total(rows, S) = g[S]
  BY <1>1, AddsExists DEF Total
<1>3. g[S] = IF S = {} THEN 0 ELSE Amount(rows, First(S)) + g[S \ {First(S)}]
  BY <1>2 DEF Adds
<1>4. CASE S # {}
  <2>1. PICK R : R = S \ {First(S)} /\ R \subseteq S /\ IsFiniteSet(R)
    BY FS_Subset
  <2>2. PICK h : h = (CHOOSE k : Adds(rows, R, k))
    OBVIOUS
  <2>3. Adds(rows, R, h) /\ Total(rows, R) = h[R]
    BY <2>1, <2>2, AddsExists DEF Total
  <2>4. g[R] = h[R]
    BY <1>2, <2>1, <2>3, AddsAgree
  <2>5. QED
    BY <1>2, <1>3, <1>4, <2>1, <2>3, <2>4
<1>5. QED
  BY <1>2, <1>3, <1>4

\* Any one of the rows may be taken first.
LEMMA TotalWithout ==
  ASSUME NEW rows, NEW U, IsFiniteSet(U), \A x \in U : Amount(rows, x) \in Nat
  PROVE  /\ Total(rows, U) \in Nat
         /\ \A x \in U : Total(rows, U) = Amount(rows, x) + Total(rows, U \ {x})
<1> DEFINE Good(S) == /\ Total(rows, S) \in Nat
                      /\ \A x \in S : Total(rows, S) = Amount(rows, x) + Total(rows, S \ {x})
           Bad == {S \in SUBSET U : ~Good(S)}
<1>1. SUFFICES ASSUME Bad # {} PROVE FALSE
  <2>1. U \in SUBSET U
    OBVIOUS
  <2>2. QED
    BY <2>1
<1>2. PICK S \in Bad : \A R \in Bad : R \subseteq S => R = S
  <2>1. Bad \in SUBSET SUBSET U
    OBVIOUS
  <2> HIDE DEF Bad
  <2>2. QED
    BY <1>1, <2>1, SmallestSet
<1>3. S \in SUBSET U /\ IsFiniteSet(S)
  BY FS_Subset
<1>4. ASSUME NEW x \in S
      PROVE  /\ Good(S \ {x})
             /\ Amount(rows, x) \in Nat
  <2>1. S \ {x} \in SUBSET U /\ S \ {x} # S
    OBVIOUS
  <2> HIDE DEF Good
  <2>2. QED
    BY <2>1, <1>2, <1>3
<1>5. S # {}
  <2>1. ~Good(S)
    OBVIOUS
  <2>2. S = {} => Total(rows, S) = 0
    BY <1>3, TotalIs
  <2>3. QED
    BY <2>1, <2>2
<1>6. PICK c : c = First(S) /\ c \in S
  BY <1>5, FirstIsOne
<1>7. Total(rows, S) = Amount(rows, c) + Total(rows, S \ {c})
  BY <1>3, <1>5, <1>6, TotalIs
<1>8. Total(rows, S) \in Nat
  BY <1>4, <1>6, <1>7
<1>9. ASSUME NEW x \in S
      PROVE  Total(rows, S) = Amount(rows, x) + Total(rows, S \ {x})
  <2>1. CASE x = c
    BY <2>1, <1>7
  <2>2. CASE x # c
    <3>1. x \in S \ {c} /\ c \in S \ {x} /\ (S \ {c}) \ {x} = (S \ {x}) \ {c}
      BY <2>2, <1>6
    <3>2. /\ Total(rows, S \ {c}) = Amount(rows, x) + Total(rows, (S \ {c}) \ {x})
          /\ Total(rows, S \ {x}) = Amount(rows, c) + Total(rows, (S \ {x}) \ {c})
      BY <3>1, <1>4, <1>6
    <3>3. /\ Amount(rows, x) \in Nat /\ Amount(rows, c) \in Nat
          /\ Total(rows, S \ {x}) \in Nat /\ Total(rows, S \ {c}) \in Nat
      BY <1>4, <1>6
    <3>4. Total(rows, (S \ {x}) \ {c}) \in Nat
      <4>1. (S \ {x}) \ {c} \in SUBSET U /\ (S \ {x}) \ {c} # S
        BY <1>6
      <4>2. Good((S \ {x}) \ {c})
        <5> HIDE DEF Good
        <5>1. QED
          BY <4>1, <1>2
      <4>3. QED
        BY <4>2
    <3>5. QED
      BY <1>7, <3>1, <3>2, <3>3, <3>4
  <2>3. QED
    BY <2>1, <2>2
<1>10. QED
  BY <1>8, <1>9

\* The sum depends on the amounts only.
LEMMA TotalSame ==
  ASSUME NEW rows, NEW others, NEW U, IsFiniteSet(U),
         \A x \in U : Amount(rows, x) = Amount(others, x)
  PROVE  Total(rows, U) = Total(others, U)
<1> DEFINE Bad == {S \in SUBSET U : Total(rows, S) # Total(others, S)}
<1>1. SUFFICES ASSUME Bad # {} PROVE FALSE
  OBVIOUS
<1>2. PICK S \in Bad : \A R \in Bad : R \subseteq S => R = S
  <2>1. Bad \in SUBSET SUBSET U
    OBVIOUS
  <2> HIDE DEF Bad
  <2>2. QED
    BY <1>1, <2>1, SmallestSet
<1>3. S \in SUBSET U /\ IsFiniteSet(S)
  BY FS_Subset
<1>4. S # {}
  BY <1>3, TotalIs
<1>5. PICK c : c = First(S) /\ c \in S
  BY <1>4, FirstIsOne
<1>6. /\ Total(rows, S) = Amount(rows, c) + Total(rows, S \ {c})
      /\ Total(others, S) = Amount(others, c) + Total(others, S \ {c})
  BY <1>3, <1>4, <1>5, TotalIs
<1>7. Total(rows, S \ {c}) = Total(others, S \ {c})
  <2>1. S \ {c} \in SUBSET U /\ S \ {c} # S
    BY <1>5
  <2>2. QED
    BY <2>1, <1>2
<1>8. QED
  BY <1>3, <1>5, <1>6, <1>7

\* A part sums up to no more than the whole.
LEMMA TotalOfPart ==
  ASSUME NEW rows, NEW U, IsFiniteSet(U), \A x \in U : Amount(rows, x) \in Nat,
         NEW P \in SUBSET U
  PROVE  Total(rows, P) \in Nat /\ Total(rows, U) \in Nat /\ Total(rows, P) <= Total(rows, U)
<1>1. \A S \in SUBSET U : /\ Total(rows, S) \in Nat
                          /\ \A x \in S : Total(rows, S) = Amount(rows, x) + Total(rows, S \ {x})
  BY FS_Subset, TotalWithout
<1> DEFINE Bad == {S \in SUBSET U : P \subseteq S /\ ~(Total(rows, P) <= Total(rows, S))}
<1>2. SUFFICES ASSUME Bad # {} PROVE FALSE
  BY <1>1
<1>3. PICK S \in Bad : \A R \in Bad : R \subseteq S => R = S
  <2>1. Bad \in SUBSET SUBSET U
    OBVIOUS
  <2> HIDE DEF Bad
  <2>2. QED
    BY <1>2, <2>1, SmallestSet
<1>4. PICK x \in S : x \notin P
  <2>1. P \subseteq S /\ ~(Total(rows, P) <= Total(rows, S))
    OBVIOUS
  <2>2. Total(rows, P) \in Nat
    BY <1>1
  <2>3. P # S
    BY <2>1, <2>2
  <2>4. QED
    BY <2>1, <2>3
<1>5. Total(rows, P) <= Total(rows, S \ {x})
  <2>1. S \ {x} \in SUBSET U /\ P \subseteq S \ {x} /\ S \ {x} # S
    BY <1>4
  <2>2. QED
    BY <2>1, <1>3
<1>6. /\ Total(rows, S) = Amount(rows, x) + Total(rows, S \ {x}) /\ Amount(rows, x) \in Nat
      /\ Total(rows, S \ {x}) \in Nat /\ Total(rows, P) \in Nat
  <2>1. S \ {x} \in SUBSET U /\ S \in SUBSET U /\ x \in U
    OBVIOUS
  <2>2. QED
    BY <1>1, <2>1
<1>7. QED
  BY <1>3, <1>5, <1>6

----------------------------------------------------------------------------
\* The limits of retention.

PaidBy(t) == {r \in Retained : PayerOf(r) = t}
On(c) == {r \in Retained : r[2] = c}

LimitInv ==
  /\ IsFiniteSet(Retained)
  /\ \A t \in Teams : Cardinality(PaidBy(t)) <= RetentionSlots
  /\ \A c \in Contracts : Total(trade, On(c)) <= RetentionCeiling
  /\ \A r, s \in Retained : r[2] = s[2] /\ PayerOf(r) = PayerOf(s) => r = s

LEMMA LimitsTell == LimitInv => RetentionWithinLimits
<1>1. \A c \in Contracts : MapThenSumSet(AmountOf, On(c)) = Total(trade, On(c))
  BY TotalIsTheSum
<1>2. QED
  BY <1>1 DEF LimitInv, RetentionWithinLimits, PaidBy, On

\* A retention stands with the terms of its trade.
LEMMA RetainedFacts ==
  ASSUME TypeInv, NEW r \in Retained
  PROVE  /\ r[1] \in Proposals /\ r[2] \in Contracts /\ r = <<r[1], r[2]>>
         /\ trade[r[1]].status \in Done /\ r[2] \in DOMAIN trade[r[1]].retained
         /\ Amount(trade, r) \in Nat /\ PayerOf(r) \in Teams
<1>1. /\ r[1] \in Proposals /\ r[2] \in Contracts /\ r = <<r[1], r[2]>>
      /\ r[2] \in retention[r[1]]
  BY DEF Retained
<1>2. trade[r[1]].status \in Done /\ r[2] \in DOMAIN trade[r[1]].retained
  BY <1>1 DEF TypeInv, RetentionFollows
<1>3. /\ trade[r[1]].retained[r[2]] \in Amounts /\ r[2] \in Moved(r[1])
      /\ trade[r[1]].moves[r[2]].from \in trade[r[1]].teams /\ trade[r[1]].teams \subseteq Teams
  BY <1>1, <1>2, RowFacts DEF TypeInv, WellFormed, Moved, Done
<1>4. QED
  BY <1>1, <1>2, <1>3, TradeAssumption DEF Amount, PayerOf

LEMMA RetainedLast ==
  ASSUME TypeInv, [Next]_vars, NEW r \in Retained
  PROVE  Amount(trade', r) = Amount(trade, r) /\ PayerOf(r)' = PayerOf(r)
<1>1. SameTerms(trade'[r[1]], trade[r[1]])
  BY RetainedFacts, TermsLast DEF Done
<1>2. QED
  BY <1>1 DEF SameTerms, Amount, PayerOf

LEMMA FiniteRetentions ==
  ASSUME IsFiniteSet(Retained)
  PROVE  /\ \A c : IsFiniteSet(On(c))
         /\ \A t : IsFiniteSet(PaidBy(t))
BY FS_Subset DEF On, PaidBy

\* What retains less, retains no more than it may.
LEMMA LimitsShrink ==
  ASSUME TypeInv, LimitInv, [Next]_vars, Retained' \subseteq Retained
  PROVE  LimitInv'
<1>1. IsFiniteSet(Retained')
  BY FS_Subset DEF LimitInv
<1>2. ASSUME NEW t \in Teams
      PROVE  Cardinality(PaidBy(t)') <= RetentionSlots
  <2>1. PaidBy(t)' \subseteq PaidBy(t)
    BY <1>1, RetainedLast DEF PaidBy
  <2>2. IsFiniteSet(PaidBy(t)) /\ IsFiniteSet(PaidBy(t)')
    BY <2>1, FiniteRetentions, FS_Subset DEF LimitInv
  <2>3. Cardinality(PaidBy(t)') <= Cardinality(PaidBy(t))
    BY <2>1, <2>2, FS_Subset
  <2>4. Cardinality(PaidBy(t)') \in Nat /\ Cardinality(PaidBy(t)) \in Nat
    BY <2>2, FS_CardinalityType
  <2>5. QED
    BY <2>3, <2>4, TradeAssumption DEF LimitInv
<1>3. ASSUME NEW c \in Contracts
      PROVE  Total(trade', On(c)') <= RetentionCeiling
  <2>1. On(c)' \subseteq On(c) /\ IsFiniteSet(On(c)) /\ IsFiniteSet(On(c)')
    BY <1>1, FiniteRetentions, FS_Subset DEF LimitInv, On
  <2>2. \A r \in On(c) : Amount(trade, r) \in Nat
    BY RetainedFacts DEF On
  <2>3. Total(trade', On(c)') = Total(trade, On(c)')
    BY <2>1, RetainedLast, TotalSame DEF On
  <2>4. /\ Total(trade, On(c)') <= Total(trade, On(c))
        /\ Total(trade, On(c)') \in Nat /\ Total(trade, On(c)) \in Nat
    BY <2>1, <2>2, TotalOfPart
  <2>5. QED
    BY <2>3, <2>4, TradeAssumption DEF LimitInv
<1>4. \A r, s \in Retained' : r[2] = s[2] /\ PayerOf(r)' = PayerOf(s)' => r = s
  BY <1>1, RetainedLast DEF LimitInv
<1>5. QED
  BY <1>1, <1>2, <1>3, <1>4 DEF LimitInv

\* An exchange retains what the recheck of the offer allowed.
LEMMA LimitsGrow ==
  ASSUME TypeInv, LimitInv, [Next]_vars, NEW p \in Proposals, ExchangeBy(p)
  PROVE  LimitInv'
<1> DEFINE asked == DOMAIN trade[p].retained
           Added(S) == {<<p, c>> : c \in S}
<1>1. /\ Open(p) /\ Exchange(p) /\ RetentionAllowed(trade[p])
      /\ RowsTyped
  BY DEF ExchangeBy, Eligible, TypeInv
<1>2. /\ asked \subseteq Contracts /\ asked \subseteq Moved(p) /\ IsFiniteSet(asked)
      /\ \A c \in asked : trade[p].retained[c] \in Nat
  <2>1. trade[p].status # "none"
    BY <1>1 DEF Open
  <2>2. asked \subseteq Moved(p) \cap Contracts /\ \A c \in asked : trade[p].retained[c] \in Amounts
    BY <1>1, <2>1, RowFacts DEF WellFormed, Moved
  <2>3. QED
    BY <2>2, FS_Subset, TradeAssumption
<1>3. SameTerms(trade'[p], trade[p])
  BY <1>1, TermsLast DEF Open
<1>4. Retained' = Retained \cup Added(asked) /\ \A r \in Retained : r[1] # p
  <2>1. retention' = [retention EXCEPT ![p] = asked] /\ retention \in [Proposals -> SUBSET Contracts]
    BY <1>1, ExchangeParts DEF TypeInv
  <2>2. retention[p] = {}
    BY <1>1 DEF TypeInv, RetentionFollows, Open, Done
  <2>3. QED
    BY <1>2, <2>1, <2>2 DEF Retained
<1>5. ASSUME NEW S \in SUBSET asked
      PROVE  /\ IsFiniteSet(S) /\ IsFiniteSet(Added(S))
             /\ Cardinality(Added(S)) <= Cardinality(S)
             /\ Cardinality(Added(S)) \in Nat /\ Cardinality(S) \in Nat
  <2>1. IsFiniteSet(S)
    BY <1>2, FS_Subset
  <2>2. [c \in S |-> <<p, c>>] \in Surjection(S, Added(S))
    BY DEF Surjection
  <2>3. IsFiniteSet(Added(S)) /\ Cardinality(Added(S)) <= Cardinality(S)
    BY <2>1, <2>2, FS_Surjection
  <2>4. QED
    BY <2>1, <2>3, FS_CardinalityType
<1>6. IsFiniteSet(Retained')
  BY <1>4, <1>5, FS_Union DEF LimitInv
<1>7. \A c \in asked : PayerOf(<<p, c>>)' = trade[p].moves[c].from
  BY <1>3 DEF SameTerms, PayerOf
<1>8. ASSUME NEW t \in Teams
      PROVE  Cardinality(PaidBy(t)') <= RetentionSlots
  <2> DEFINE his == {c \in asked : trade[p].moves[c].from = t}
  <2>1. PaidBy(t)' = PaidBy(t) \cup Added(his)
    BY <1>4, <1>7, RetainedLast DEF PaidBy
  <2>2. PaidBy(t) \cap Added(his) = {}
    BY <1>4 DEF PaidBy
  <2>3. IsFiniteSet(PaidBy(t)) /\ Cardinality(PaidBy(t)) \in Nat
    BY FiniteRetentions, FS_CardinalityType DEF LimitInv
  <2>4. /\ IsFiniteSet(Added(his)) /\ Cardinality(Added(his)) <= Cardinality(his)
        /\ Cardinality(Added(his)) \in Nat /\ Cardinality(his) \in Nat
    <3>1. his \in SUBSET asked
      OBVIOUS
    <3> HIDE DEF his, Added
    <3>2. QED
      BY <1>5, <3>1
  <2>5. CASE his = {}
    BY <2>1, <2>5 DEF LimitInv
  <2>6. CASE his # {}
    <3>1. Cardinality(his) + Cardinality(PaidBy(t)) <= RetentionSlots
      BY <1>1, <2>6 DEF RetentionAllowed, PaidBy
    <3>2. Cardinality(PaidBy(t)') = Cardinality(PaidBy(t)) + Cardinality(Added(his)) - Cardinality({})
      <4> HIDE DEF his, Added
      <4>1. QED
        BY <2>1, <2>2, <2>3, <2>4, FS_Union
    <3>3. Cardinality({}) = 0
      BY FS_EmptySet
    <3>4. QED
      BY <2>3, <2>4, <3>1, <3>2, <3>3, TradeAssumption
  <2>7. QED
    BY <2>5, <2>6
<1>9. ASSUME NEW c \in Contracts
      PROVE  Total(trade', On(c)') <= RetentionCeiling
  <2>1. IsFiniteSet(On(c)) /\ \A r \in On(c) : Amount(trade, r) \in Nat /\ Amount(trade', r) \in Nat
    BY FiniteRetentions, RetainedFacts, RetainedLast DEF LimitInv, On
  <2>2. Total(trade', On(c)) = Total(trade, On(c)) /\ Total(trade, On(c)) \in Nat
    BY <2>1, RetainedLast, TotalSame, TotalWithout DEF On
  <2>3. CASE c \notin asked
    <3>1. On(c)' = On(c)
      BY <1>4, <2>3 DEF On
    <3>2. QED
      BY <2>2, <3>1 DEF LimitInv
  <2>4. CASE c \in asked
    <3>1. On(c)' = On(c) \cup {<<p, c>>} /\ <<p, c>> \notin On(c)
      BY <1>4, <2>4 DEF On
    <3>2. Amount(trade', <<p, c>>) = trade[p].retained[c]
      BY <1>3 DEF SameTerms, Amount
    <3>3. IsFiniteSet(On(c)') /\ \A r \in On(c)' : Amount(trade', r) \in Nat
      BY <1>2, <2>1, <2>4, <3>1, <3>2, FS_AddElement
    <3>4. Total(trade', On(c)') = Amount(trade', <<p, c>>) + Total(trade', On(c)' \ {<<p, c>>})
      BY <3>1, <3>3, TotalWithout
    <3>5. On(c)' \ {<<p, c>>} = On(c)
      BY <3>1
    <3>6. trade[p].retained[c] + Total(trade, On(c)) <= RetentionCeiling
      <4>1. MapThenSumSet(AmountOf, On(c)) = Total(trade, On(c))
        BY TotalIsTheSum
      <4>2. QED
        BY <1>1, <2>4, <4>1 DEF RetentionAllowed, On
    <3>7. QED
      BY <2>2, <3>2, <3>4, <3>5, <3>6
  <2>5. QED
    BY <2>3, <2>4
<1>10. ASSUME NEW r \in Retained', NEW s \in Retained', r[2] = s[2], PayerOf(r)' = PayerOf(s)'
       PROVE  r = s
  <2>1. ASSUME NEW x \in Retained, NEW c \in asked, x[2] = c
        PROVE  PayerOf(x)' # PayerOf(<<p, c>>)'
    BY <1>1, <1>7, <2>1, RetainedLast DEF RetentionAllowed
  <2>2. CASE r \in Retained /\ s \in Retained
    BY <1>10, <2>2, RetainedLast DEF LimitInv
  <2>3. CASE r \in Retained /\ s \in Added(asked)
    BY <1>10, <2>1, <2>3
  <2>4. CASE r \in Added(asked) /\ s \in Retained
    BY <1>10, <2>1, <2>4
  <2>5. CASE r \in Added(asked) /\ s \in Added(asked)
    BY <1>10, <2>5
  <2>6. QED
    BY <1>4, <2>2, <2>3, <2>4, <2>5
<1>11. QED
  <2> HIDE DEF Added
  <2>1. QED
    BY <1>6, <1>8, <1>9, <1>10 DEF LimitInv

LEMMA LimitInductive ==
  ASSUME TypeInv, LimitInv, [Next]_vars
  PROVE  LimitInv'
<1>1. RowsTyped /\ \A w \in Workers : WorkTyped(work[w])
  BY DEF TypeInv
<1>2. CASE retention' = retention
  <2>1. Retained' = Retained
    BY <1>2 DEF Retained
  <2>2. QED
    BY <2>1, LimitsShrink
<1>3. ASSUME NEW p \in Proposals, Reverse(p)
      PROVE  LimitInv'
  <2>1. retention' = [retention EXCEPT ![p] = {}] /\ retention \in [Proposals -> SUBSET Contracts]
    BY <1>3 DEF Reverse, TypeInv
  <2>2. Retained' \subseteq Retained
    BY <2>1 DEF Retained
  <2>3. QED
    BY <2>2, LimitsShrink
<1>4. ASSUME NEW p \in Proposals, NEW slotTaken \in BOOLEAN, MarkForCorrection(p, slotTaken)
      PROVE  retention' = retention
  BY <1>4 DEF MarkForCorrection, rosters
<1>5. CASE Aside \/ Submission \/ Tick \/ \E d \in Deadlines : ChangeDeadline(d)
  <2>1. ASSUME NEW p, NEW teams, NEW proposer, NEW terms, Submits(p, teams, proposer, terms)
        PROVE  retention' = retention
    BY <2>1 DEF Submits, Propose, Counter, rosters
  <2>2. ASSUME Aside \/ Tick \/ \E d \in Deadlines : ChangeDeadline(d)
        PROVE  retention' = retention
    BY <2>2 DEF Aside, Tick, ChangeDeadline, rosters
  <2>3. QED
    BY <1>2, <1>5, <2>1, <2>2 DEF Submission
<1>6. CASE \E c \in Contracts : BuyOut(c) \/ MoveOnRoster(c)
  BY <1>2, <1>6, BuyOutParts DEF MoveOnRoster
<1>7. CASE \E p \in Proposals : Answered(p)
  BY <1>2, <1>7 DEF Answered, rosters
<1>8. QED
  BY <1>1, <1>2, <1>3, <1>4, <1>5, <1>6, <1>7, LimitsGrow, StepCases

\* Offers that are legal one by one never add up to more retention than a
\* team may carry or a contract allows: every acceptance and approval checks
\* the offer against the retentions of the exchanges before it, and nothing
\* else adds one.
THEOREM RetentionLimited == Spec => []RetentionWithinLimits
<1>1. Init => LimitInv
  <2> SUFFICES ASSUME Init PROVE LimitInv
    OBVIOUS
  <2>1. Retained = {}
    BY DEF Init, Retained
  <2>2. IsFiniteSet({}) /\ Cardinality({}) = 0
    BY FS_EmptySet
  <2>3. \A rows : Total(rows, {}) = 0
    BY <2>2, TotalIs
  <2>4. \A t \in Teams : Cardinality(PaidBy(t)) <= RetentionSlots
    <3>1. \A t \in Teams : PaidBy(t) = {}
      BY <2>1 DEF PaidBy
    <3>2. RetentionSlots \in Nat
      BY TradeAssumption
    <3>3. QED
      BY <2>2, <3>1, <3>2
  <2>5. \A c \in Contracts : Total(trade, On(c)) <= RetentionCeiling
    <3>1. \A c \in Contracts : On(c) = {}
      BY <2>1 DEF On
    <3>2. RetentionCeiling \in Nat /\ Total(trade, {}) = 0
      BY <2>3, TradeAssumption
    <3>3. QED
      BY <3>1, <3>2
  <2>6. QED
    BY <2>1, <2>2, <2>4, <2>5 DEF LimitInv
<1>2. TypeInv /\ LimitInv /\ [Next]_vars => LimitInv'
  BY LimitInductive
<1>3. QED
  BY <1>1, <1>2, LimitsTell, TypesHold, PTL DEF Spec
=============================================================================
