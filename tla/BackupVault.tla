---------------------------- MODULE BackupVault ----------------------------
(***************************************************************************)
(* What the scheduled backups promise for each occurrence: one receipt,    *)
(* written once and only for a backup that is complete in the store, and   *)
(* one entry in the catalogue, which names the backup of the receipt.      *)
(* Nothing complete is lost, no receipt is replaced, and an occurrence     *)
(* that has its entry never changes again.                                 *)
(***************************************************************************)
CONSTANTS
    Occurrences,
    None        \* no receipt

VARIABLES
    complete,   \* backups whose every part is in the store
    receipt,    \* the backup the receipt of each occurrence names
    adopted,    \* occurrences that the database counts as backed up
    catalog     \* entries of the database

vars == <<complete, receipt, adopted, catalog>>

Init ==
    /\ complete = {}
    /\ receipt = [o \in Occurrences |-> None]
    /\ adopted = {}
    /\ catalog = {}

\* The last part of some backup arrives in the store.
Finish ==
    /\ \E b \in complete' : complete' = complete \cup {b}
    /\ UNCHANGED <<receipt, adopted, catalog>>

Publish(b) ==
    /\ b \in complete
    /\ receipt[b.run] = None
    /\ receipt' = [receipt EXCEPT ![b.run] = b]
    /\ UNCHANGED <<complete, adopted, catalog>>

Adopt(o) ==
    /\ o \notin adopted
    /\ receipt[o] # None
    /\ adopted' = adopted \cup {o}
    /\ catalog' = catalog \cup {[run |-> o, backup |-> receipt[o]]}
    /\ UNCHANGED <<complete, receipt>>

Next ==
    \/ Finish
    \/ \E b \in complete : Publish(b)
    \/ \E o \in Occurrences : Adopt(o)

Spec == Init /\ [][Next]_vars
=============================================================================
