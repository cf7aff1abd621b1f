------------------------------- MODULE AccessLog -------------------------------
(***************************************************************************)
(* What the request log promises: an entry that was made becomes visible     *)
(* once, together with those of its batch, and disappears when it is too old.*)
(* It may be lost instead, but only when there is an excuse for it, or when   *)
(* its request was over before it was made.                                 *)
(***************************************************************************)
CONSTANT Entries

VARIABLES
    made,      \* entries that have been handed to the log
    orphans,   \* those whose request was already over
    recorded,  \* entries that can be read
    expired,   \* entries that were, and have been deleted
    lost,      \* entries that never will be
    old,       \* entries that are past the retention
    excuse     \* has something happened that may cost entries?

logVars == <<made, orphans, recorded, expired, lost, old, excuse>>

Pending == made \ (recorded \cup expired \cup lost)

Init ==
    /\ made = {} /\ orphans = {} /\ recorded = {} /\ expired = {} /\ lost = {}
    /\ old = {}
    /\ excuse = FALSE

Make(e) ==
    /\ e \notin made
    /\ made' = made \cup {e}
    /\ orphans' \in {orphans, orphans \cup {e}}
    /\ UNCHANGED <<recorded, expired, lost, old, excuse>>

Publish(S) ==
    /\ S \subseteq Pending
    /\ recorded' = recorded \cup S
    /\ UNCHANGED <<made, orphans, expired, lost, old, excuse>>

\* The excuse may be what happens in this very step.
Lose(S) ==
    /\ S \subseteq Pending
    /\ lost' = lost \cup S
    /\ excuse' \in {excuse, TRUE}
    /\ excuse' \/ S \subseteq orphans
    /\ UNCHANGED <<made, orphans, recorded, expired, old>>

Expire(S) ==
    /\ S \subseteq recorded \cap old
    /\ recorded' = recorded \ S
    /\ expired' = expired \cup S
    /\ UNCHANGED <<made, orphans, lost, old, excuse>>

Age(e) ==
    /\ old' = old \cup {e}
    /\ UNCHANGED <<made, orphans, recorded, expired, lost, excuse>>

Next ==
    \/ \E e \in Entries : Make(e) \/ Age(e)
    \/ \E S \in SUBSET Pending : Publish(S) \/ Lose(S)
    \/ \E S \in SUBSET recorded : Expire(S)

Spec == Init /\ [][Next]_logVars
=============================================================================
