----------------------------- MODULE EventStore -----------------------------
(***************************************************************************)
(* The data of one GrowingEventDatabase: the write cache in memory         *)
(* (updateKeys / updateValues) and the SQLite table namedcachetable under  *)
(* it (GrowingEventFMDatabase).  This module only holds operators on that  *)
(* data; EventDatabase and EventManager are the state machines that use    *)
(* them.                                                                   *)
(*                                                                         *)
(* An event is identified by its uuid, so an element of Event stands for   *)
(* the persisted event and for its key alike.                              *)
(***************************************************************************)
EXTENDS Integers, Sequences, FiniteSets, FiniteSetsExt

CONSTANTS
    Event,       \* the events the program may create, each with a uuid of its own
    Policy,      \* Policy[e]: the bits of e's send policy, as a set
    Length,      \* Length[e]: the bytes of e's serialised form
    MaxBatch,    \* kGrowingMaxBatchSize
    LimitSize    \* the bytes one batch may hold (2 MB in the code)

PolicyBit == {"Instant", "MobileData", "WiFi"}

ASSUME StoreAssumption ==
    /\ Policy \in [Event -> SUBSET PolicyBit]
    /\ Length \in [Event -> Nat]
    /\ MaxBatch \in Nat \ {0}
    /\ LimitSize \in Nat \ {0}

(***************************************************************************)
(* One cached write: "null" is the NSNull that setEvent:nil stores.  One   *)
(* row: id is SQLite's rowid, which only matters through its order.        *)
(***************************************************************************)
Update == [key : Event, null : BOOLEAN]
Row    == [id : Nat, key : Event]
Store  == [updates : Seq(Update), rows : SUBSET Row, nextId : Nat]

EmptyStore == [updates |-> <<>>, rows |-> {}, nextId |-> 1]

Keys(rows) == {r.key : r \in rows}

-----------------------------------------------------------------------------
(* Writing *)

SetEvent(s, k)    == [s EXCEPT !.updates = Append(@, [key |-> k, null |-> FALSE])]
SetEventNil(s, k) == [s EXCEPT !.updates = Append(@, [key |-> k, null |-> TRUE])]

(* A key written several times counts once, with its last write. *)
LastWrites(u) == {i \in DOMAIN u : \A j \in DOMAIN u : j > i => u[j].key # u[i].key}

KeysAt(u, I) == {u[i].key : i \in I}

Nulls(u)       == {i \in LastWrites(u) : u[i].null}
RemoveArray(u) == KeysAt(u, Nulls(u))
InsertArray(u) == {i \in LastWrites(u) : ~u[i].null}

DeleteEvents(rows, K) == {r \in rows : r.key \notin K}

(* Mutant of NewRows: the cache is walked backwards and not turned round. *)
NewRowsReversed(u, I, next) ==
    {[id |-> next + Cardinality({j \in I : j > i}), key |-> u[i].key] : i \in I}

(* The rows the insertion of the cached writes I of u adds, in cache order. *)
NewRows(u, I, next) ==
    {[id |-> next + Cardinality({j \in I : j < i}), key |-> u[i].key] : i \in I}

(* The table after the deletes of K and the inserts of I have committed. *)
Write(s, u, K, I) ==
    [s EXCEPT !.rows   = DeleteEvents(@, K) \cup NewRows(u, I, s.nextId),
              !.nextId = @ + Cardinality(I)]

Drained(s) == [s EXCEPT !.updates = <<>>]

Flush(s) == Write(Drained(s), s.updates, RemoveArray(s.updates), InsertArray(s.updates))

(***************************************************************************)
(* The outcomes of a flush that fails.  The cache has been drained either  *)
(* way.  A failed delete (they run from the last write to the first) stops *)
(* the flush before its inserts; a failed insert stops the loop.  Neither  *)
(* sets *rollback, so what was written before the failure commits.         *)
(***************************************************************************)
PartialDeletes(u) == {KeysAt(u, {j \in Nulls(u) : j > i}) : i \in Nulls(u)}
PartialInserts(u) == {{j \in InsertArray(u) : j < i} : i \in InsertArray(u)}

FailedFlushes(s) ==
    {Write(Drained(s), s.updates, K, {}) : K \in PartialDeletes(s.updates)}
    \cup
    {Write(Drained(s), s.updates, RemoveArray(s.updates), I) : I \in PartialInserts(s.updates)}

(* The events a cache would add and those it would remove, overwritten or not. *)
Sets(u)    == KeysAt(u, {i \in DOMAIN u : ~u[i].null})
Removes(u) == KeysAt(u, {i \in DOMAIN u : u[i].null})

(* The events K of a table after the cached writes u have gone through. *)
Apply(u, K) == (K \ RemoveArray(u)) \cup KeysAt(u, InsertArray(u))

-----------------------------------------------------------------------------
(* Reading *)

(***************************************************************************)
(* getEventsByCount:limitSize:policy: walks the rows whose policy meets    *)
(* the mask in id order and stops at the first one that reaches the size   *)
(* limit (which it leaves out) or fills the batch.                         *)
(***************************************************************************)
Candidates(rows, mask) == {r \in rows : Policy[r.key] \cap mask # {}}

EventsLength(rows) == MapThenSumSet(LAMBDA r : Length[r.key], rows)

(* The rows a walk of C in id order has met once it is at r. *)
UpTo(C, r) == {q \in C : q.id <= r.id}

(* Mutant of GetEvents: a row that reaches the limit is still taken. *)
GetEventsToLimit(rows, mask) ==
    LET C        == Candidates(rows, mask)
        Stops(r) == \/ Cardinality(UpTo(C, r)) > MaxBatch
                    \/ EventsLength(UpTo(C, r)) > LimitSize
    IN  Keys({r \in C : \A q \in UpTo(C, r) : ~Stops(q)})

(* Mutant of GetEvents: the rows are read in descending order. *)
GetEventsDescending(rows, mask) ==
    LET C        == Candidates(rows, mask)
        From(r)  == {q \in C : q.id >= r.id}
        Stops(r) == Cardinality(From(r)) > MaxBatch \/ EventsLength(From(r)) >= LimitSize
    IN  Keys({r \in C : \A q \in From(r) : ~Stops(q)})

GetEvents(rows, mask) ==
    LET C        == Candidates(rows, mask)
        Stops(r) == \/ Cardinality(UpTo(C, r)) > MaxBatch
                    \/ EventsLength(UpTo(C, r)) >= LimitSize
    IN  Keys({r \in C : \A q \in UpTo(C, r) : ~Stops(q)})

=============================================================================
