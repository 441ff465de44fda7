------------------------ MODULE AuctionOffersProofs ------------------------
(***************************************************************************)
(* What the arithmetic of AuctionOffers promises for every field of bids:  *)
(* the ranking has a first entry, the price is the cheapest offer that     *)
(* still wins, and raising a winning bid costs nothing.                    *)
(***************************************************************************)
EXTENDS AuctionOffers, WellFoundedInduction, TLAPS

\* Entries that may be ranked: one per identifier, and prices are bounded,
\* as safe integers are.
Field(E) ==
    /\ E \subseteq Entry
    /\ \A x, y \in E : x.id = y.id => x = y
    /\ \E top \in Nat : \A x \in E : x.offer.aav <= top

----------------------------------------------------------------------------
\* Least elements.

Below == {pair \in Nat \X Nat : pair[1] < pair[2]}

\* A set of natural numbers has a least element.
LEMMA LeastNatural ==
  ASSUME NEW S \in SUBSET Nat, S # {}
  PROVE  \E m \in S : \A n \in S : m <= n
<1>1. IsWellFoundedOn(Below, Nat)
  BY NatLessThanWellFounded DEF OpToRel, Below
<1>2. PICK m \in S : \A n \in S : ~ (<<n, m>> \in Below)
  BY <1>1, WFMin
<1>3. ASSUME NEW n \in S PROVE m <= n
  <2>1. m \in Nat /\ n \in Nat /\ ~ (<<n, m>> \in Below)
    BY <1>2
  <2>2. n < m => <<n, m>> \in Below
    BY <2>1 DEF Below
  <2>3. QED
    BY <2>1, <2>2
<1>4. QED
  BY <1>3

\* A cheapest offer exists, and it is the only one.
LEMMA CheapestOffer ==
  ASSUME NEW S \in SUBSET Offer, S # {}
  PROVE  \E o \in S : \A p \in S : CheaperOrEqual(o, p)
<1> DEFINE prices == {o.aav : o \in S}
<1>1. prices \in SUBSET Nat /\ prices # {}
  BY DEF Offer
<1>2. PICK a \in prices : \A b \in prices : a <= b
  BY <1>1, LeastNatural
<1> DEFINE terms == {o.term : o \in {p \in S : p.aav = a}}
<1>3. terms \in SUBSET Nat /\ terms # {}
  BY <1>2 DEF Offer
<1>4. PICK t \in terms : \A u \in terms : t <= u
  <2> HIDE DEF terms
  <2> QED BY <1>3, LeastNatural
<1>5. PICK o \in S : o.aav = a /\ o.term = t
  BY <1>4
<1>6. ASSUME NEW p \in S PROVE CheaperOrEqual(o, p)
  <2>1. o \in Offer /\ p \in Offer
    OBVIOUS
  <2>2. a <= p.aav
    BY <1>2
  <2>3. p.aav = a => t <= p.term
    BY <1>4
  <2>4. QED
    BY <1>5, <2>1, <2>2, <2>3 DEF CheaperOrEqual, Offer
<1>7. QED
  BY <1>5, <1>6

LEMMA CheapestIsOne ==
  ASSUME NEW o \in Offer, NEW p \in Offer, CheaperOrEqual(o, p), CheaperOrEqual(p, o)
  PROVE  o = p
BY DEF CheaperOrEqual, Offer

LEMMA CheaperIsTransitive ==
  ASSUME NEW o \in Offer, NEW p \in Offer, NEW q \in Offer,
         CheaperOrEqual(o, p), CheaperOrEqual(p, q)
  PROVE  CheaperOrEqual(o, q)
BY DEF CheaperOrEqual, Offer

----------------------------------------------------------------------------
\* The ranking is a strict order of the entries.

LEMMA RankingIsTotal ==
  ASSUME NEW x \in Entry, NEW y \in Entry, x.id # y.id
  PROVE  RanksAhead(x, y) \/ RanksAhead(y, x)
<1>1. /\ x.offer.aav \in Nat /\ x.offer.term \in Nat /\ x.firstAt \in Nat /\ x.id \in Nat
      /\ y.offer.aav \in Nat /\ y.offer.term \in Nat /\ y.firstAt \in Nat /\ y.id \in Nat
  BY DEF Entry, Offer
<1>2. QED
  BY <1>1 DEF RanksAhead

LEMMA RankingIsStrict ==
  ASSUME NEW x \in Entry, NEW y \in Entry, RanksAhead(x, y)
  PROVE  ~RanksAhead(y, x)
<1>1. /\ x.offer.aav \in Nat /\ x.offer.term \in Nat /\ x.firstAt \in Nat /\ x.id \in Nat
      /\ y.offer.aav \in Nat /\ y.offer.term \in Nat /\ y.firstAt \in Nat /\ y.id \in Nat
  BY DEF Entry, Offer
<1>2. QED
  BY <1>1 DEF RanksAhead

LEMMA RankingIsTransitive ==
  ASSUME NEW x \in Entry, NEW y \in Entry, NEW z \in Entry, RanksAhead(x, y), RanksAhead(y, z)
  PROVE  RanksAhead(x, z)
<1>1. /\ x.offer.aav \in Nat /\ x.offer.term \in Nat /\ x.firstAt \in Nat /\ x.id \in Nat
      /\ y.offer.aav \in Nat /\ y.offer.term \in Nat /\ y.firstAt \in Nat /\ y.id \in Nat
      /\ z.offer.aav \in Nat /\ z.offer.term \in Nat /\ z.firstAt \in Nat /\ z.id \in Nat
  BY DEF Entry, Offer
<1>2. QED
  BY <1>1 DEF RanksAhead

\* An entry of the highest price, among these of the longest term, among
\* these the earliest, among these the one of the lowest identifier.
LEMMA LeaderExists ==
  ASSUME NEW E, Field(E), E # {}
  PROVE  \E x \in E : \A y \in E \ {x} : RanksAhead(x, y)
<1>1. PICK top \in Nat : \A x \in E : x.offer.aav <= top
  BY DEF Field
<1>2. \A x \in E : /\ x.offer.aav \in Nat /\ x.offer.term \in 1..3
                   /\ x.firstAt \in Nat /\ x.id \in Nat
  BY DEF Field, Entry, Offer
<1> DEFINE gaps == {top - x.offer.aav : x \in E}
<1>3. gaps \in SUBSET Nat /\ gaps # {}
  BY <1>1, <1>2
<1>4. PICK a \in E : \A y \in E : y.offer.aav <= a.offer.aav
  <2>1. PICK g \in gaps : \A h \in gaps : g <= h
    <3> HIDE DEF gaps
    <3> QED BY <1>3, LeastNatural
  <2>2. PICK a \in E : g = top - a.offer.aav
    BY <2>1
  <2>3. ASSUME NEW y \in E PROVE y.offer.aav <= a.offer.aav
    <3>1. top - a.offer.aav <= top - y.offer.aav
      BY <2>1, <2>2
    <3>2. QED
      BY <1>1, <1>2, <3>1
  <2>4. QED
    BY <2>3
<1> DEFINE A == {y \in E : y.offer.aav = a.offer.aav}
           lacks == {3 - x.offer.term : x \in A}
<1>5. lacks \in SUBSET Nat /\ lacks # {}
  BY <1>2, <1>4
<1>6. PICK b \in A : \A y \in A : y.offer.term <= b.offer.term
  <2>1. PICK g \in lacks : \A h \in lacks : g <= h
    <3> HIDE DEF lacks
    <3> QED BY <1>5, LeastNatural
  <2>2. PICK b \in A : g = 3 - b.offer.term
    BY <2>1
  <2>3. ASSUME NEW y \in A PROVE y.offer.term <= b.offer.term
    <3>1. 3 - b.offer.term <= 3 - y.offer.term
      BY <2>1, <2>2
    <3>2. QED
      BY <1>2, <3>1
  <2>4. QED
    BY <2>3
<1> DEFINE B == {y \in A : y.offer.term = b.offer.term}
           times == {x.firstAt : x \in B}
<1>7. times \in SUBSET Nat /\ times # {}
  BY <1>2, <1>6
<1>8. PICK c \in B : \A y \in B : c.firstAt <= y.firstAt
  <2>1. PICK g \in times : \A h \in times : g <= h
    <3> HIDE DEF times
    <3> QED BY <1>7, LeastNatural
  <2>2. QED
    BY <2>1
<1> DEFINE C == {y \in B : y.firstAt = c.firstAt}
           ids == {x.id : x \in C}
<1>9. ids \in SUBSET Nat /\ ids # {}
  BY <1>2, <1>8
<1>10. PICK d \in C : \A y \in C : d.id <= y.id
  <2>1. PICK g \in ids : \A h \in ids : g <= h
    <3> HIDE DEF ids
    <3> QED BY <1>9, LeastNatural
  <2>2. QED
    BY <2>1
<1>11. /\ d \in E /\ d.offer.aav = a.offer.aav /\ d.offer.term = b.offer.term
       /\ d.firstAt = c.firstAt
  BY <1>10
<1>12. ASSUME NEW y \in E \ {d} PROVE RanksAhead(d, y)
  <2>1. y.id # d.id
    BY <1>11 DEF Field
  <2>2. y.offer.aav <= d.offer.aav
    BY <1>4, <1>11
  <2>3. y.offer.aav = d.offer.aav => y.offer.term <= d.offer.term
    BY <1>6, <1>11
  <2>4. y.offer.aav = d.offer.aav /\ y.offer.term = d.offer.term => d.firstAt <= y.firstAt
    BY <1>8, <1>11
  <2>5. y.offer.aav = d.offer.aav /\ y.offer.term = d.offer.term /\ y.firstAt = d.firstAt
           => d.id <= y.id
    BY <1>10, <1>11
  <2>6. QED
    BY <1>2, <1>11, <2>1, <2>2, <2>3, <2>4, <2>5 DEF RanksAhead
<1>13. QED
  BY <1>11, <1>12

\* The leader of a field is one of its entries and ranks ahead of the others.
THEOREM LeaderLeads ==
  ASSUME NEW E, Field(E), E # {}
  PROVE  Leader(E) \in E /\ \A y \in E \ {Leader(E)} : RanksAhead(Leader(E), y)
BY LeaderExists DEF Leader

LEMMA FieldShrinks ==
  ASSUME NEW E, Field(E), NEW F \in SUBSET E
  PROVE  Field(F)
BY DEF Field

----------------------------------------------------------------------------
\* The price.

LEMMA ReofferedEntry ==
  ASSUME NEW x \in Entry, NEW o \in Offer
  PROVE  /\ Reoffered(x, o) \in Entry
         /\ Reoffered(x, o).offer = o /\ Reoffered(x, o).id = x.id
         /\ Reoffered(x, o).firstAt = x.firstAt
         /\ \A p \in Offer : Reoffered(Reoffered(x, o), p) = Reoffered(x, p)
BY DEF Reoffered, Entry

LEMMA ReofferedSame ==
  ASSUME NEW x \in Entry
  PROVE  Reoffered(x, x.offer) = x
BY DEF Reoffered, Entry

\* The present offer of the leader is one of its winning offers.
LEMMA PresentOfferWins ==
  ASSUME NEW E, Field(E), E # {}, NEW offered \in SUBSET Offer, Leader(E).offer \in offered
  PROVE  Leader(E).offer \in WinningOffers(E, offered)
<1> DEFINE w == Leader(E)
           rest == E \ {w}
<1>1. w \in E /\ w \in Entry /\ \A y \in rest : RanksAhead(w, y)
  BY LeaderLeads DEF Field
<1>2. Reoffered(w, w.offer) = w /\ w.offer.aav <= w.offer.aav
  <2>1. Reoffered(w, w.offer) = w
    BY <1>1, ReofferedSame
  <2>2. w.offer.aav \in Nat
    BY <1>1 DEF Entry, Offer
  <2>3. QED
    BY <2>1, <2>2
<1>3. rest # {} => Leader(rest) \in rest
  BY FieldShrinks, LeaderLeads
<1>4. QED
  BY <1>1, <1>2, <1>3 DEF WinningOffers

\* The winner pays an offer that would still have won, and none that would
\* is cheaper.
THEOREM PriceIsLowest ==
  ASSUME NEW E, Field(E), E # {}, NEW offered \in SUBSET Offer, Leader(E).offer \in offered
  PROVE  /\ PricedOffer(E, offered) \in WinningOffers(E, offered)
         /\ \A o \in WinningOffers(E, offered) : CheaperOrEqual(PricedOffer(E, offered), o)
<1>1. WinningOffers(E, offered) \in SUBSET Offer
  BY DEF WinningOffers
<1>2. WinningOffers(E, offered) # {}
  BY PresentOfferWins
<1>3. \E o \in WinningOffers(E, offered) : \A p \in WinningOffers(E, offered) : CheaperOrEqual(o, p)
  BY <1>1, <1>2, CheapestOffer
<1>4. QED
  BY <1>3 DEF PricedOffer

\* At that price the winner still ranks ahead of every other entry.
THEOREM PriceBeatsField ==
  ASSUME NEW E, Field(E), E # {}, NEW offered \in SUBSET Offer,
         NEW o \in WinningOffers(E, offered), NEW y \in E \ {Leader(E)}
  PROVE  RanksAhead(Reoffered(Leader(E), o), y)
<1> DEFINE w == Leader(E)
           rest == E \ {w}
<1>1. w \in Entry /\ y \in Entry /\ y \in rest
  BY LeaderLeads DEF Field
<1>2. o \in Offer /\ RanksAhead(Reoffered(w, o), Leader(rest))
  BY DEF WinningOffers
<1>3. Field(rest)
  BY FieldShrinks
<1>4. /\ Leader(rest) \in rest
      /\ \A z \in rest \ {Leader(rest)} : RanksAhead(Leader(rest), z)
  BY <1>1, <1>3, LeaderLeads
<1>5. Leader(rest) \in Entry /\ Reoffered(w, o) \in Entry
  BY <1>1, <1>2, <1>4, ReofferedEntry DEF Field
<1>6. CASE y = Leader(rest)
  BY <1>2, <1>6
<1>7. CASE y # Leader(rest)
  <2>1. RanksAhead(Leader(rest), y)
    BY <1>1, <1>4, <1>7
  <2>2. QED
    BY <1>1, <1>2, <1>5, <2>1, RankingIsTransitive
<1>8. QED
  BY <1>6, <1>7

\* An entry that ranks ahead of all others is the leader.
LEMMA LeaderIsOne ==
  ASSUME NEW E, Field(E), NEW x \in E, \A y \in E \ {x} : RanksAhead(x, y)
  PROVE  Leader(E) = x
<1>1. Leader(E) \in E /\ \A y \in E \ {Leader(E)} : RanksAhead(Leader(E), y)
  BY LeaderLeads
<1>2. Leader(E) # x => RanksAhead(x, Leader(E)) /\ RanksAhead(Leader(E), x)
  BY <1>1
<1>3. QED
  BY <1>1, <1>2, RankingIsStrict DEF Field

\* Raising the price or the term of the winning entry leaves it the winner
\* and leaves the price as it is, whatever offers it made before.
THEOREM RaiseIsFree ==
  ASSUME NEW E, Field(E), E # {}, NEW offered \in SUBSET Offer, Leader(E).offer \in offered,
         NEW o \in Offer, o.aav >= Leader(E).offer.aav, o.term >= Leader(E).offer.term,
         NEW F, F = (E \ {Leader(E)}) \cup {Reoffered(Leader(E), o)}
  PROVE  /\ Field(F)
         /\ Leader(F) = Reoffered(Leader(E), o)
         /\ PricedOffer(F, offered \cup {o}) = PricedOffer(E, offered)
<1> DEFINE w == Leader(E)
           v == Reoffered(w, o)
           rest == E \ {w}
           made == offered \cup {o}
<1>1. w \in E /\ w \in Entry /\ \A y \in rest : y \in Entry /\ RanksAhead(w, y)
  BY LeaderLeads DEF Field
<1>2. /\ v \in Entry /\ v.offer = o /\ v.id = w.id /\ v.firstAt = w.firstAt
      /\ \A p \in Offer : Reoffered(v, p) = Reoffered(w, p)
  BY <1>1, ReofferedEntry
<1>3. \A y \in rest : y.id # w.id
  BY <1>1 DEF Field
<1>4. Field(F)
  <2>1. F \subseteq Entry
    BY <1>1, <1>2
  <2>2. \A x, y \in F : x.id = y.id => x = y
    BY <1>2, <1>3 DEF Field
  <2>3. PICK top \in Nat : \A x \in E : x.offer.aav <= top
    BY DEF Field
  <2>4. top + o.aav \in Nat /\ \A x \in F : x.offer.aav <= top + o.aav
    <3>1. o.aav \in Nat /\ \A x \in E : x.offer.aav \in Nat
      BY DEF Offer, Entry, Field
    <3>2. ASSUME NEW x \in F PROVE x.offer.aav <= top + o.aav
      <4>1. CASE x \in E
        BY <2>3, <3>1, <4>1
      <4>2. CASE x = v
        BY <1>2, <3>1, <4>2
      <4>3. QED
        BY <4>1, <4>2
    <3>3. QED
      BY <3>1, <3>2
  <2>5. QED
    BY <2>1, <2>2, <2>4 DEF Field
<1>5. ASSUME NEW y \in rest PROVE RanksAhead(v, y)
  <2>1. /\ w.offer.aav \in Nat /\ w.offer.term \in Nat /\ o.aav \in Nat /\ o.term \in Nat
        /\ y.offer.aav \in Nat /\ y.offer.term \in Nat
        /\ y.firstAt \in Nat /\ w.firstAt \in Nat /\ y.id \in Nat /\ w.id \in Nat
    BY <1>1 DEF Entry, Offer
  <2>2. RanksAhead(w, y)
    BY <1>1
  <2>3. QED
    BY <1>2, <2>1, <2>2 DEF RanksAhead
<1>6. v \notin rest /\ F \ {v} = rest /\ v \in F
  BY <1>2, <1>3
<1>7. Leader(F) = v
  BY <1>4, <1>5, <1>6, LeaderIsOne
<1> DEFINE before == WinningOffers(E, offered)
           after == WinningOffers(F, made)
           price == PricedOffer(E, offered)
<1>8. made \in SUBSET Offer /\ Leader(F).offer \in made /\ F # {}
  BY <1>2, <1>6, <1>7
<1>9. /\ price \in before /\ \A p \in before : CheaperOrEqual(price, p)
      /\ w.offer \in before
  BY PriceIsLowest, PresentOfferWins
<1>10. \A p \in made : p \in after <=>
          p.aav <= o.aav /\ (rest # {} => RanksAhead(Reoffered(w, p), Leader(rest)))
  BY <1>2, <1>6, <1>7, <1>8 DEF WinningOffers
<1>11. \A p \in offered : p \in before <=>
          p.aav <= w.offer.aav /\ (rest # {} => RanksAhead(Reoffered(w, p), Leader(rest)))
  BY DEF WinningOffers
<1>12. before \subseteq offered /\ after \subseteq made
  BY DEF WinningOffers
<1>13. price \in after
  <2>1. price \in Offer /\ w.offer \in Offer /\ price \in offered
    BY <1>1, <1>9, <1>12 DEF Entry
  <2>2. price.aav <= o.aav
    BY <1>9, <1>11, <2>1 DEF Offer
  <2>3. QED
    BY <1>9, <1>10, <1>11, <2>1, <2>2
<1>14. ASSUME NEW p \in after PROVE CheaperOrEqual(price, p)
  <2>1. p \in Offer /\ price \in Offer /\ w.offer \in Offer
    BY <1>1, <1>8, <1>9, <1>12 DEF Entry
  <2>2. CheaperOrEqual(price, w.offer)
    BY <1>9
  <2>3. CASE p = o
    <3>1. CheaperOrEqual(w.offer, p)
      BY <2>1, <2>3 DEF CheaperOrEqual, Offer
    <3>2. QED
      BY <2>1, <2>2, <3>1, CheaperIsTransitive
  <2>4. CASE p \in before
    BY <1>9, <2>4
  <2>5. CASE p \in offered /\ p \notin before
    <3>1. ~(p.aav <= w.offer.aav)
      BY <1>10, <1>11, <1>12, <2>5
    <3>2. QED
      BY <2>1, <2>2, <3>1 DEF CheaperOrEqual, Offer
  <2>6. QED
    BY <1>12, <2>3, <2>4, <2>5
<1>15. /\ PricedOffer(F, made) \in after
       /\ \A p \in after : CheaperOrEqual(PricedOffer(F, made), p)
  BY <1>4, <1>8, PriceIsLowest
<1>16. PricedOffer(F, made) = price
  <2>1. PricedOffer(F, made) \in Offer /\ price \in Offer
    BY <1>8, <1>12, <1>13, <1>15
  <2>2. QED
    BY <1>13, <1>14, <1>15, <2>1, CheapestIsOne
<1>17. QED
  BY <1>4, <1>7, <1>16
=============================================================================
