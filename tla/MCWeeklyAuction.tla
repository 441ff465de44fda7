-------------------------- MODULE MCWeeklyAuction --------------------------
(***************************************************************************)
(* Instances of WeeklyAuction for TLC.                                     *)
(***************************************************************************)
EXTENDS WeeklyAuction, TLC

\* The lowest opening offer, the lowest joining offer, and a longer term that
\* an edit may take although nobody could join with it.
OneOffer == {[aav |-> 150, term |-> 1]}
OneYear == {[aav |-> 100, term |-> 1], [aav |-> 150, term |-> 1]}
MixedTerms == {[aav |-> 100, term |-> 1], [aav |-> 150, term |-> 1], [aav |-> 150, term |-> 3]}

Symmetry == Permutations(Runners) \cup Permutations(Teams)
=============================================================================
