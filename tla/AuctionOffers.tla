--------------------------- MODULE AuctionOffers ---------------------------
(***************************************************************************)
(* The arithmetic of an ordinary weekly auction: which offer a bid may     *)
(* carry, how bids rank, who wins and what the winner pays.  An offer is   *)
(* an average annual value in cents and a term in years; an entry is a bid *)
(* as the ranking sees it.  Identifiers are UUIDs compared as text: any    *)
(* numbering of them is an order the code may meet.                        *)
(***************************************************************************)
EXTENDS Integers

Offer == [aav : Nat, term : 1..3]
Entry == [offer : Offer, firstAt : Nat, id : Nat]

Total(o) == o.aav * o.term

\* Every offer: at least 100 a year in steps of 25.
ValidOffer(o) == o.aav >= 100 /\ o.aav % 25 = 0

\* Smallest total of a bid that joins an auction somebody else started.
JoiningMinimum(term) == CASE term = 1 -> 150 [] term = 2 -> 300 [] term = 3 -> 500

MinimumTotal(term, isStartingBid) ==
    IF isStartingBid THEN term * 100 ELSE JoiningMinimum(term)

\* rankBids: price, then term, then the earlier first submission, then id.
RanksAhead(x, y) ==
    \/ x.offer.aav > y.offer.aav
    \/ /\ x.offer.aav = y.offer.aav
       /\ \/ x.offer.term > y.offer.term
          \/ /\ x.offer.term = y.offer.term
             /\ \/ x.firstAt < y.firstAt
                \/ x.firstAt = y.firstAt /\ x.id < y.id

\* The first entry of the sorted list.
Leader(entries) ==
    CHOOSE x \in entries : \A y \in entries \ {x} : RanksAhead(x, y)

Reoffered(x, o) == [x EXCEPT !.offer = o]

\* Mutant of WinningOffers: the competitor is not looked at.
WinningOffersUncontested(entries, offered) ==
    {o \in offered : o.aav <= Leader(entries).offer.aav}

\* selectActualWinningOffer: the winner's own offers, not above its present
\* price, that would still rank ahead of the runner-up.
WinningOffers(entries, offered) ==
    LET winner == Leader(entries)
        rest   == entries \ {winner}
    IN {o \in offered :
           /\ o.aav <= winner.offer.aav
           /\ rest # {} => RanksAhead(Reoffered(winner, o), Leader(rest))}

CheaperOrEqual(o, p) == o.aav < p.aav \/ (o.aav = p.aav /\ o.term <= p.term)

\* Mutant of PricedOffer: the winner pays its highest winning offer.
PricedOfferHighest(entries, offered) ==
    LET eligible == WinningOffers(entries, offered)
    IN CHOOSE o \in eligible : \A p \in eligible : CheaperOrEqual(p, o)

\* The contract: the cheapest of these, the shorter term among equals.
\* offered holds every offer the winning bid has carried, the present one too.
PricedOffer(entries, offered) ==
    LET eligible == WinningOffers(entries, offered)
    IN CHOOSE o \in eligible : \A p \in eligible : CheaperOrEqual(o, p)
=============================================================================
