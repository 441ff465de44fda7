----------------------------- MODULE SealedWeek -----------------------------
(***************************************************************************)
(* What a matchup week promises its teams.  All rosters are locked at      *)
(* once; a roster that was illegal then may be locked late, once, while    *)
(* the week is played; then the week closes and every matchup gets its     *)
(* result in one step, from one set of statistics that is complete for the *)
(* locked rosters, over the locks as they stand.  After that nothing       *)
(* changes any more.                                                       *)
(***************************************************************************)
EXTENDS Integers

CONSTANTS
    Times,     \* the instants of statistics
    Matchups,  \* sets of teams
    Ends,      \* the instant at which the week is over
    GamesOver  \* the instant at which the last game of each team is

VARIABLES
    stage, \* "open", "locked", "closed" or "final"
    lock,  \* kind of lock of each team
    result \* of each matchup

vars == <<stage, lock, result>>

Teams == UNION Matchups
Missing == [refresh |-> -1]

Init ==
    /\ stage = "open"
    /\ lock = [t \in Teams |-> "none"]
    /\ result = [m \in Matchups |-> Missing]

LockRosters ==
    /\ stage = "open" /\ stage' = "locked"
    /\ lock' \in [Teams -> {"normal", "illegal"}]
    /\ UNCHANGED result

LockLate(t) ==
    /\ stage = "locked"
    /\ lock[t] = "illegal"
    /\ lock' = [lock EXCEPT ![t] = "late"]
    /\ UNCHANGED <<stage, result>>

Close ==
    /\ stage = "locked" /\ stage' = "closed"
    /\ UNCHANGED <<lock, result>>

\* Statistics of that instant tell every game that counts.
Complete(at) ==
    /\ Ends <= at
    /\ \A t \in Teams : lock[t] # "illegal" => GamesOver[t] <= at

Settle(at) ==
    /\ stage \in {"locked", "closed"} /\ stage' = "final"
    /\ Complete(at)
    /\ result' = [m \in Matchups |-> [refresh |-> at, lock |-> lock]]
    /\ UNCHANGED lock

Next ==
    \/ LockRosters
    \/ \E t \in Teams : LockLate(t)
    \/ Close
    \/ \E at \in Times : Settle(at)

Spec == Init /\ [][Next]_vars
=============================================================================
