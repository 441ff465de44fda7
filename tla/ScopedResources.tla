-------------------------- MODULE ScopedResources --------------------------
(***************************************************************************)
(* What an orderly process promises about the resources it opens: they are *)
(* opened together or not at all, no task begins without those it uses, a  *)
(* resource is released only when no task under way uses it, and what was  *)
(* released stays so.                                                      *)
(***************************************************************************)
CONSTANTS
    Resources,
    Tasks,
    Uses        \* the resources of each task

VARIABLES
    phase, \* of each resource: "unopened", "open" or "released"
    busy   \* tasks under way

vars == <<phase, busy>>

Everywhere(p) == [r \in Resources |-> p]

Init ==
    /\ phase = Everywhere("unopened")
    /\ busy = {}

Open ==
    /\ phase = Everywhere("unopened")
    /\ phase' \in {Everywhere("open"), Everywhere("released")}
    /\ UNCHANGED busy

\* Tasks begin and end.
Work ==
    /\ busy' \subseteq Tasks
    /\ \A t \in busy' \ busy : \A r \in Uses[t] : phase[r] = "open"
    /\ UNCHANGED phase

Release(r) ==
    /\ phase[r] = "open"
    /\ \A t \in busy : r \notin Uses[t]
    /\ phase' = [phase EXCEPT ![r] = "released"]
    /\ UNCHANGED busy

Next ==
    \/ Open \/ Work
    \/ \E r \in Resources : Release(r)

Spec == Init /\ [][Next]_vars
=============================================================================
