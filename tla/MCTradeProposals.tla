-------------------------- MODULE MCTradeProposals --------------------------
(***************************************************************************)
(* Instances of TradeProposals for TLC.  Teams and contracts are alike in  *)
(* every action, so their permutations are symmetries.                     *)
(***************************************************************************)
EXTENDS TradeProposals, TLC

Symmetry == Permutations(Teams) \cup Permutations(Contracts)

\* Bound: a contract changes outside the trades only once a trade names it;
\* before that, a change is only another initial holder or version.  What may
\* happen in a paused league is left to the run about expiry.
Bounded ==
    /\ league = "active"
    /\ \A c \in Contracts : touched[c] > 0 =>
          \E p \in Proposals : trade[p].status # "none" /\ c \in Moved(p)
=============================================================================
