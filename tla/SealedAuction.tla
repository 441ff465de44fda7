--------------------------- MODULE SealedAuction ---------------------------
(***************************************************************************)
(* What an auction promises: while it is open, teams' offers are recorded  *)
(* and none is ever taken back from the record; it ends once, either with  *)
(* one team getting the player for an offer that team really made, or      *)
(* without a winner; nothing changes afterwards.                           *)
(***************************************************************************)
CONSTANTS Teams, Offers, NoAward

VARIABLES open, offered, award

vars == <<open, offered, award>>

Init ==
    /\ open = TRUE
    /\ offered = {}
    /\ award = NoAward

Submit(t, o) ==
    /\ open
    /\ offered' = offered \cup {[team |-> t, offer |-> o]}
    /\ UNCHANGED <<open, award>>

Award(t, o) ==
    /\ open
    /\ [team |-> t, offer |-> o] \in offered
    /\ open' = FALSE
    /\ award' = [team |-> t, offer |-> o]
    /\ UNCHANGED offered

Close ==
    /\ open
    /\ open' = FALSE
    /\ UNCHANGED <<offered, award>>

Next ==
    \/ \E t \in Teams, o \in Offers : Submit(t, o) \/ Award(t, o)
    \/ Close

Spec == Init /\ [][Next]_vars
=============================================================================
