---------------------------- MODULE EventDatabase ----------------------------
(***************************************************************************)
(* One GrowingEventDatabase on its thread: setEvent:forKey:, flush, and a  *)
(* process that may die between the two transactions of a flush.           *)
(*                                                                         *)
(* Every call is made on the GrowingThread, so no setEvent: runs while a   *)
(* flush is under way; the lock around updateKeys / updateValues is never  *)
(* contended.  A flush is three steps: drain the cache (under the lock),   *)
(* the delete transaction, the insert transaction.                         *)
(***************************************************************************)
EXTENDS EventStore

CONSTANTS
    AutoFlushCount,  \* 100 for the timing databases, 0 for the realtime ones
    MaxCalls,        \* bound: calls that change the database
    MaxFaults,       \* bound: failed database writes
    MaxCrashes       \* bound: ends of the process

ASSUME DatabaseAssumption ==
    /\ AutoFlushCount \in Nat
    /\ MaxCalls \in Nat /\ MaxFaults \in Nat /\ MaxCrashes \in Nat

VARIABLES
    store,     \* cache and table
    pc,        \* "idle", or the transaction the flush runs next
    drained,   \* the cached writes the flush took (removeArray, insertArray)
    call,      \* history: the last call, its number, its name and its event
    accepted,  \* history: the events in the order setEvent: received them
    faults,    \* history: failed writes
    crashes    \* history: ends of the process

vars == <<store, pc, drained, call, accepted, faults, crashes>>

Call == [n : Nat, op : {"none", "set", "remove", "clear"}, events : SUBSET Event]

Accepted == {accepted[i] : i \in DOMAIN accepted}

(* After every call the cache holds fewer than autoFlushCount writes. *)
CacheBelowCount == store.updates = <<>> \/ Len(store.updates) < AutoFlushCount

(***************************************************************************)
(* The types of the variables, and the bound setEvent:forKey: keeps on the *)
(* cache: a flush takes every write out of it.                             *)
(***************************************************************************)
TypeOK ==
    /\ store \in Store
    /\ CacheBelowCount
    /\ pc \in {"idle", "delete", "insert"}
    /\ drained \in Seq(Update)
    /\ call \in Call
    /\ accepted \in Seq(Event)
    /\ faults \in Nat
    /\ crashes \in Nat

Init ==
    /\ store = EmptyStore
    /\ pc = "idle"
    /\ drained = <<>>
    /\ call = [n |-> 0, op |-> "none", events |-> {}]
    /\ accepted = <<>>
    /\ faults = 0
    /\ crashes = 0

-----------------------------------------------------------------------------

(* The call op, with the events K, is made. *)
Called(op, K) ==
    /\ pc = "idle"
    /\ call.n < MaxCalls
    /\ call' = [n |-> call.n + 1, op |-> op, events |-> K]

(* Mutant of BeginFlush: the cached writes are taken and not cleared. *)
BeginFlushKept(s) ==
    IF s.updates = <<>>
    THEN store' = s /\ UNCHANGED <<pc, drained>>
    ELSE store' = s /\ pc' = "delete" /\ drained' = s.updates

(* The drain of a flush of s; with an empty cache flush returns at once. *)
BeginFlush(s) ==
    IF s.updates = <<>>
    THEN store' = s /\ UNCHANGED <<pc, drained>>
    ELSE store' = Drained(s) /\ pc' = "delete" /\ drained' = s.updates

(* Mutant of AfterSet: the cache may reach the count. *)
AfterSetLate(s) ==
    IF Len(s.updates) > AutoFlushCount
    THEN BeginFlush(s)
    ELSE store' = s /\ UNCHANGED <<pc, drained>>

(* setEvent:forKey: flushes as soon as the cache holds autoFlushCount writes. *)
AfterSet(s) ==
    IF Len(s.updates) >= AutoFlushCount
    THEN BeginFlush(s)
    ELSE store' = s /\ UNCHANGED <<pc, drained>>

(* A new event: its uuid was just made, so its key was never used before. *)
SetEventForKey(k) ==
    /\ Called("set", {k})
    /\ k \notin Accepted
    /\ AfterSet(SetEvent(store, k))
    /\ accepted' = Append(accepted, k)
    /\ UNCHANGED <<faults, crashes>>

(* A removal of an event set before. *)
SetNilForKey(k) ==
    /\ Called("remove", {k})
    /\ k \in Accepted
    /\ AfterSet(SetEventNil(store, k))
    /\ UNCHANGED <<accepted, faults, crashes>>

FlushCache ==
    /\ pc = "idle"
    /\ store.updates # <<>>
    /\ BeginFlush(store)
    /\ UNCHANGED <<call, accepted, faults, crashes>>

(* deleteEvents: returns at once when there is nothing to delete. *)
DeleteTransaction ==
    /\ pc = "delete"
    /\ store' = Write(store, drained, RemoveArray(drained), {})
    /\ pc' = "insert"
    /\ UNCHANGED <<drained, call, accepted, faults, crashes>>

DeleteFails ==
    /\ pc = "delete"
    /\ faults < MaxFaults
    /\ \E K \in PartialDeletes(drained) : store' = Write(store, drained, K, {})
    /\ pc' = "idle"
    /\ drained' = <<>>
    /\ faults' = faults + 1
    /\ UNCHANGED <<call, accepted, crashes>>

InsertTransaction ==
    /\ pc = "insert"
    /\ store' = Write(store, drained, {}, InsertArray(drained))
    /\ pc' = "idle"
    /\ drained' = <<>>
    /\ UNCHANGED <<call, accepted, faults, crashes>>

InsertFails ==
    /\ pc = "insert"
    /\ faults < MaxFaults
    /\ \E I \in PartialInserts(drained) : store' = Write(store, drained, {}, I)
    /\ pc' = "idle"
    /\ drained' = <<>>
    /\ faults' = faults + 1
    /\ UNCHANGED <<call, accepted, crashes>>

(***************************************************************************)
(* The process ends at any point and starts again: the cache and the       *)
(* flush's arrays are gone, the table is opened and, when createAt says    *)
(* so, its oldest rows are dropped (cleanExpiredDataIfNeeded).             *)
(***************************************************************************)
CrashAndOpen ==
    /\ crashes < MaxCrashes
    /\ \E oldest \in {0} \cup {r.id : r \in store.rows} :
          store' = [Drained(store) EXCEPT !.rows = {r \in @ : r.id > oldest}]
    /\ pc' = "idle"
    /\ drained' = <<>>
    /\ crashes' = crashes + 1
    /\ UNCHANGED <<call, accepted, faults>>

(* Mutant of ClearAllItems: without the flush. *)
ClearTableOnly ==
    /\ Called("clear", {})
    /\ store' = [store EXCEPT !.rows = {}]
    /\ UNCHANGED <<pc, drained, accepted, faults, crashes>>

(* clearAllItems: a flush, then the deletion of every row. *)
ClearAllItems ==
    /\ Called("clear", {})
    /\ store' = [Flush(store) EXCEPT !.rows = {}]
    /\ UNCHANGED <<pc, drained, accepted, faults, crashes>>

(* The flush fails and clearAllItems returns, or the deletion fails. *)
ClearAllItemsFails ==
    /\ Called("clear", {})
    /\ faults < MaxFaults
    /\ store' \in FailedFlushes(store) \cup {Flush(store)}
    /\ faults' = faults + 1
    /\ UNCHANGED <<pc, drained, accepted, crashes>>

Next ==
    \/ \E k \in Event : SetEventForKey(k) \/ SetNilForKey(k)
    \/ FlushCache
    \/ DeleteTransaction
    \/ DeleteFails
    \/ InsertTransaction
    \/ InsertFails
    \/ CrashAndOpen
    \/ ClearAllItems
    \/ ClearAllItemsFails

Spec == Init /\ [][Next]_vars

-----------------------------------------------------------------------------
(* Correctness *)

(* What the owner of the database would read back if every write succeeded. *)
Mem == Apply(store.updates, Apply(drained, Keys(store.rows)))

WBM == INSTANCE WriteBehindMap
         WITH mem <- Mem, disk <- Keys(store.rows), restarts <- crashes

(***************************************************************************)
(* How the three steps of a flush hand the data on: what was drained is    *)
(* not in the cache, the cache stays empty until the flush ends, and the   *)
(* insert transaction starts from a table without the removed keys.        *)
(***************************************************************************)
FlushPhases ==
    /\ pc = "idle" => drained = <<>>
    /\ pc # "idle" => store.updates = <<>>
    /\ pc = "insert" => Keys(store.rows) \cap RemoveArray(drained) = {}

(* The inductive invariant of EventDatabaseProofs. *)
IInv == TypeOK /\ FlushPhases

(***************************************************************************)
(* The cache, the three-step flush, its failures and the restart implement *)
(* a map whose owner only loses what was not yet written, and only when a  *)
(* write fails or the process ends: GrowingEventDatabase flush, setEvent:. *)
(***************************************************************************)
Refinement == WBM!Spec

(***************************************************************************)
(* The table keeps the order in which the events were set, and one row per *)
(* event, whatever flushes failed in between: flush walks the cache        *)
(* backwards and re-inserts at the front to keep it.                       *)
(***************************************************************************)
RowsInOrder ==
    \A q, r \in store.rows :
        \E i, j \in DOMAIN accepted :
            /\ accepted[i] = q.key
            /\ accepted[j] = r.key
            /\ q.id < r.id <=> i < j

(***************************************************************************)
(* Between two calls, an end of the process loses fewer than               *)
(* autoFlushCount events, and none at all on a realtime database, whose    *)
(* count is 0: setEvent: flushes before it returns.                        *)
(***************************************************************************)
BoundedLoss ==
    pc = "idle" =>
        LET atRisk == Mem \ Keys(store.rows)
        IN  atRisk = {} \/ Cardinality(atRisk) < AutoFlushCount

(***************************************************************************)
(* The batch getEventsByCount: returns skips nothing: it is a prefix of    *)
(* the rows the mask lets through, within both limits, and the row after   *)
(* it would break one of them.                                             *)
(***************************************************************************)
BatchIsLongestPrefix ==
    \A mask \in SUBSET PolicyBit :
        LET C == Candidates(store.rows, mask)
            B == {r \in C : r.key \in GetEvents(store.rows, mask)}
        IN  /\ \A r \in B, q \in C \ B : r.id < q.id
            /\ Cardinality(B) <= MaxBatch
            /\ EventsLength(B) < LimitSize
            /\ \A q \in C \ B :
                  (\A r \in C \ B : q.id <= r.id) =>
                      \/ Cardinality(B) = MaxBatch
                      \/ EventsLength(B) + Length[q.key] >= LimitSize

=============================================================================
