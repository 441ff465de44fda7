--------------------------- MODULE AssetExchange ---------------------------
(***************************************************************************)
(* What the trades of a league promise.  A deal names the items each party *)
(* gives and who gets them.  It is performed once, as a whole, when every  *)
(* party has agreed and every item is where the deal expects it; it may be *)
(* undone as a whole while every item is still where the deal put it; a    *)
(* deal that was closed is never performed.                                *)
(***************************************************************************)
CONSTANTS Items, Deals, Nobody

VARIABLES holder, deal

vars == <<holder, deal>>

Gives(d) == DOMAIN deal[d].gives
Giver(d, i) == deal[d].gives[i].from
Taker(d, i) == deal[d].gives[i].to

Init ==
    /\ holder \in [Items -> {holder[i] : i \in Items}]
    /\ deal = [d \in Deals |-> [state |-> "none"]]

Closes(d) == deal[d].state = "open" /\ deal'[d] = [state |-> "closed"]

\* Apart from those of S, deals are left alone or closed.
OthersCloseAtMost(S) == \A d \in Deals \ S : deal'[d] = deal[d] \/ Closes(d)

\* A new deal, agreed by the party that offers it, over items the parties hold.
Offer(d) ==
    /\ deal[d].state = "none"
    /\ deal'[d].state = "open"
    /\ \E t \in deal'[d].parties : deal'[d].agreed = {t}
    /\ \A i \in DOMAIN deal'[d].gives : deal'[d].gives[i].from = holder[i]
    /\ OthersCloseAtMost({d})
    /\ UNCHANGED holder

Agree(d, t) ==
    /\ deal[d].state = "open" /\ deal'[d].state = "open"
    /\ t \in deal[d].parties \ deal[d].agreed
    /\ deal' = [deal EXCEPT ![d].agreed = @ \cup {t}]
    /\ UNCHANGED holder

Close ==
    /\ OthersCloseAtMost({})
    /\ UNCHANGED holder

\* The last party agrees and the items change hands, or they change hands
\* after all parties have agreed.
Perform(d) ==
    /\ deal[d].state = "open" /\ deal'[d].state = "done"
    /\ \E t \in deal[d].parties : deal[d].parties = deal[d].agreed \cup {t}
    /\ \A i \in Gives(d) : holder[i] = Giver(d, i)
    /\ holder' = [i \in Items |-> IF i \in Gives(d) THEN Taker(d, i) ELSE holder[i]]
    /\ deal'[d] = [state |-> "done", gives |-> deal[d].gives]
    /\ OthersCloseAtMost({d})

Undo(d) ==
    /\ deal[d].state = "done" /\ deal'[d].state = "undone"
    /\ \A i \in Gives(d) : holder[i] = Taker(d, i)
    /\ holder' = [i \in Items |-> IF i \in Gives(d) THEN Giver(d, i) ELSE holder[i]]
    /\ deal' = [deal EXCEPT ![d] = [state |-> "undone"]]

\* An item leaves the game, and with it every open deal over it.
Lose(i) ==
    /\ holder[i] # Nobody
    /\ holder' = [holder EXCEPT ![i] = Nobody]
    /\ \A d \in Deals : IF deal[d].state = "open" /\ i \in Gives(d)
                          THEN Closes(d) ELSE deal'[d] = deal[d]

Next ==
    \/ Close
    \/ \E d \in Deals : Offer(d) \/ Perform(d) \/ Undo(d)
    \/ \E d \in Deals : deal[d].state = "open" /\ \E t \in deal[d].parties : Agree(d, t)
    \/ \E i \in Items : Lose(i)

Spec == Init /\ [][Next]_vars
=============================================================================
