--------------------------- MODULE WriteBehindMap ---------------------------
(***************************************************************************)
(* What GrowingEventDatabase promises its callers, without its cache, its  *)
(* table or its flush: a set of events as its owner sees it (mem) over a   *)
(* set of events that survives the process (disk).  The owner's calls, the *)
(* failed writes and the ends of the process are visible: nothing but them *)
(* changes mem, and nothing but them and writing changes disk.             *)
(***************************************************************************)
EXTENDS Naturals

CONSTANT Event

VARIABLES
    call,      \* the owner's last call: its number, its name and its event
    mem,       \* the events the owner would read back if every write went through
    disk,      \* the events a restart would find
    faults,    \* how many database writes have failed
    restarts   \* how often the process has ended

vars == <<call, mem, disk, faults, restarts>>

(* The call op, with the events K, was made. *)
Called(op, K) == call' = [n |-> call.n + 1, op |-> op, events |-> K]

(* d lies between disk and mem: each event is as one of the two has it. *)
Between(d) == disk \cap mem \subseteq d /\ d \subseteq disk \cup mem

Init ==
    /\ call = [n |-> 0, op |-> "none", events |-> {}]
    /\ mem = {} /\ disk = {} /\ faults = 0 /\ restarts = 0

Put(k) ==
    /\ Called("set", {k})
    /\ mem' = mem \cup {k}
    /\ UNCHANGED <<disk, faults, restarts>>

Remove(k) ==
    /\ Called("remove", {k})
    /\ mem' = mem \ {k}
    /\ UNCHANGED <<disk, faults, restarts>>

(* Some of the pending changes become durable; the owner sees no change. *)
Persist ==
    /\ \E d \in SUBSET (disk \cup mem) : Between(d) /\ disk' = d
    /\ UNCHANGED <<call, mem, faults, restarts>>

(* A failed write: what was pending may be forgotten, nothing else. *)
Fail ==
    /\ \E d \in SUBSET (disk \cup mem) : Between(d) /\ disk' = d
    /\ mem' = disk'
    /\ faults' = faults + 1
    /\ UNCHANGED <<call, restarts>>

(* The process ends: the next one reads the disk, less what has expired. *)
Restart ==
    /\ disk' \in SUBSET disk
    /\ mem' = disk'
    /\ restarts' = restarts + 1
    /\ UNCHANGED <<call, faults>>

Clear ==
    /\ Called("clear", {})
    /\ mem' = {}
    /\ disk' = {}
    /\ UNCHANGED <<faults, restarts>>

(* A clear that fails has written some of what was pending, or all of it. *)
ClearFails ==
    /\ Called("clear", {})
    /\ \E d \in SUBSET (disk \cup mem) : Between(d) /\ disk' = d
    /\ mem' = disk'
    /\ faults' = faults + 1
    /\ UNCHANGED restarts

Next ==
    \/ \E k \in Event : Put(k) \/ Remove(k)
    \/ Persist
    \/ Fail
    \/ Restart
    \/ Clear
    \/ ClearFails

Spec == Init /\ [][Next]_vars

=============================================================================
