---------------------------- MODULE EventDelivery ----------------------------
(***************************************************************************)
(* What the upload pipeline promises the app: an event that has reached    *)
(* the database stays there until the server has it or it has expired, and *)
(* the server receives nothing that was not recorded.  It may receive an   *)
(* event twice.                                                            *)
(***************************************************************************)
EXTENDS Naturals

CONSTANT Event

VARIABLES
    recorded,   \* the events the app has handed over
    durable,    \* the events in the database files
    received,   \* the events the server has
    restarts    \* how often the process has ended

vars == <<recorded, durable, received, restarts>>

Init ==
    /\ recorded \in SUBSET Event
    /\ durable = recorded
    /\ received = {}
    /\ restarts = 0

(***************************************************************************)
(* The database is written: only received events leave it, and an event    *)
(* the server has does not come back.                                      *)
(***************************************************************************)
Written(R) ==
    /\ durable \ received \subseteq durable'
    /\ durable' \subseteq durable \cup (R \ received)
    /\ UNCHANGED <<received, restarts>>

Record(e) ==
    /\ e \notin recorded
    /\ recorded' = recorded \cup {e}
    /\ Written(recorded')

Persist == UNCHANGED recorded /\ Written(recorded)

Deliver ==
    /\ received \subseteq received'
    /\ received' \subseteq received \cup durable
    /\ UNCHANGED <<recorded, durable, restarts>>

(***************************************************************************)
(* A new process opens the files, perhaps in the middle of a write of the  *)
(* last one, and drops what has expired.                                   *)
(***************************************************************************)
Reopen ==
    /\ durable' \subseteq durable \cup (recorded \ received)
    /\ restarts' = restarts + 1
    /\ UNCHANGED <<recorded, received>>

Next ==
    \/ \E e \in Event : Record(e)
    \/ Persist
    \/ Deliver
    \/ Reopen

Spec == Init /\ [][Next]_vars

=============================================================================
