------------------------ MODULE AtLeastOnceDelivery ------------------------
(***************************************************************************)
(* What an outbox promises for each message put into it.  A message waits  *)
(* until it is settled, once and for good: as delivered, when at least one *)
(* copy was handed over, or as dropped.  A copy is handed over only in a   *)
(* try of its own, and tries begin only while the message waits; a try     *)
(* that began in time may still hand over its copy after the message was   *)
(* settled by somebody else, which is how an owner gets a second copy.     *)
(***************************************************************************)
EXTENDS Naturals

CONSTANT Messages

VARIABLES
    stage,  \* of each message
    tries,  \* to hand it over, so far
    copies  \* handed over, so far

vars == <<stage, tries, copies>>

Init ==
    /\ stage = [m \in Messages |-> "absent"]
    /\ tries = [m \in Messages |-> 0]
    /\ copies = [m \in Messages |-> 0]

Put(m) ==
    /\ stage[m] = "absent" /\ stage'[m] = "waiting"
    /\ UNCHANGED <<tries[m], copies[m]>>

Try(m) ==
    /\ stage[m] = "waiting" /\ stage'[m] = "waiting"
    /\ tries'[m] = tries[m] + 1
    /\ UNCHANGED copies[m]

HandOver(m) ==
    /\ copies[m] < tries[m]
    /\ copies'[m] = copies[m] + 1

Copy(m) ==
    /\ stage[m] # "absent"
    /\ HandOver(m)
    /\ UNCHANGED <<stage[m], tries[m]>>

\* Delivered with the copy just handed over, or with an earlier one.
Deliver(m) ==
    /\ stage[m] = "waiting" /\ stage'[m] = "delivered"
    /\ HandOver(m) \/ (copies[m] > 0 /\ UNCHANGED copies[m])
    /\ UNCHANGED tries[m]

Drop(m) ==
    /\ stage[m] = "waiting" /\ stage'[m] = "dropped"
    /\ UNCHANGED <<tries[m], copies[m]>>

Rest(m) == UNCHANGED <<stage[m], tries[m], copies[m]>>

\* Messages are independent of each other.
Next ==
    /\ \A m \in Messages : Put(m) \/ Try(m) \/ Copy(m) \/ Deliver(m) \/ Drop(m) \/ Rest(m)
    /\ stage' = [m \in Messages |-> stage'[m]]
    /\ tries' = [m \in Messages |-> tries'[m]]
    /\ copies' = [m \in Messages |-> copies'[m]]

Spec == Init /\ [][Next]_vars
=============================================================================
