-------------------------- MODULE EventStoreProofs --------------------------
(***************************************************************************)
(* Lemmas about the operators of EventStore, cited by the proofs about the *)
(* state machines that use them.                                           *)
(***************************************************************************)
EXTENDS EventStore, FiniteSetTheorems, WellFoundedInduction, TLAPS

(* The writes a flush inserts are finitely many: they are cache positions. *)
LEMMA InsertArrayFinite ==
    ASSUME NEW u \in Seq(Update)
    PROVE  /\ IsFiniteSet(InsertArray(u))
           /\ InsertArray(u) \subseteq DOMAIN u
<1>1. InsertArray(u) \subseteq DOMAIN u
  BY DEF InsertArray, LastWrites
<1>2. IsFiniteSet(DOMAIN u)
  <2>1. DOMAIN u = 1..Len(u) /\ Len(u) \in Nat
    OBVIOUS
  <2>2. IsFiniteSet(1..Len(u))
    BY <2>1, FS_Interval
  <2>3. QED
    BY <2>1, <2>2
<1>3. QED
  BY <1>1, <1>2, FS_Subset

(* Writing to a store gives a store, whatever part of the cache goes through. *)
LEMMA WriteType ==
    ASSUME NEW s \in Store, NEW u \in Seq(Update), NEW K,
           NEW I \in SUBSET InsertArray(u)
    PROVE  Write(s, u, K, I) \in Store
<1>1. I \subseteq DOMAIN u /\ IsFiniteSet(I)
  BY InsertArrayFinite, FS_Subset
<1>2. Cardinality(I) \in Nat
  BY <1>1, FS_CardinalityType
<1>3. \A i \in I : Cardinality({j \in I : j < i}) \in Nat
  BY <1>1, FS_Subset, FS_CardinalityType
<1>4. \A i \in I : u[i].key \in Event
  <2>1. \A i \in DOMAIN u : u[i] \in Update
    OBVIOUS
  <2>2. QED
    BY <1>1, <2>1 DEF Update
<1>5. NewRows(u, I, s.nextId) \subseteq Row
  <2>1. s.nextId \in Nat
    BY DEF Store
  <2>2. ASSUME NEW i \in I
        PROVE  [id |-> s.nextId + Cardinality({j \in I : j < i}), key |-> u[i].key] \in Row
    BY <1>3, <1>4, <2>1 DEF Row
  <2>3. QED
    BY <2>2 DEF NewRows
<1>6. DeleteEvents(s.rows, K) \subseteq Row
  BY DEF DeleteEvents, Store
<1>7. DeleteEvents(s.rows, K) \cup NewRows(u, I, s.nextId) \in SUBSET Row
  BY <1>5, <1>6
<1>8. s.nextId + Cardinality(I) \in Nat
  BY <1>2 DEF Store
<1>9. QED
  BY <1>7, <1>8 DEF Write, Store

LEMMA WriteUpdates ==
    ASSUME NEW s \in Store, NEW u, NEW K, NEW I
    PROVE  Write(s, u, K, I).updates = s.updates
BY DEF Write, Store

LEMMA KeysAtNone ==
    ASSUME NEW u
    PROVE  KeysAt(u, {}) = {}
BY DEF KeysAt

(* The keys of the table after a write. *)
LEMMA WriteKeys ==
    ASSUME NEW s \in Store, NEW u, NEW K, NEW I
    PROVE  Keys(Write(s, u, K, I).rows) = (Keys(s.rows) \ K) \cup KeysAt(u, I)
<1>1. Write(s, u, K, I).rows = DeleteEvents(s.rows, K) \cup NewRows(u, I, s.nextId)
  BY DEF Write, Store
<1>2. Keys(NewRows(u, I, s.nextId)) = KeysAt(u, I)
  <2> DEFINE new(i) == [id |-> s.nextId + Cardinality({j \in I : j < i}), key |-> u[i].key]
  <2>1. NewRows(u, I, s.nextId) = {new(i) : i \in I}
    BY DEF NewRows
  <2>2. \A i \in I : new(i).key = u[i].key
    OBVIOUS
  <2> HIDE DEF new
  <2>3. QED
    BY <2>1, <2>2 DEF Keys, KeysAt
<1>3. Keys(DeleteEvents(s.rows, K)) = Keys(s.rows) \ K
  BY DEF Keys, DeleteEvents
<1>4. QED
  BY <1>1, <1>2, <1>3 DEF Keys

LEMMA DrainedType ==
    ASSUME NEW s \in Store
    PROVE  /\ Drained(s) \in Store
           /\ Drained(s).updates = <<>>
           /\ Drained(s).rows = s.rows
           /\ Drained(s).nextId = s.nextId
<1>1. <<>> \in Seq(Update)
  OBVIOUS
<1>2. QED
  BY <1>1 DEF Drained, Store

(* A key is removed or inserted by a flush, never both: its last write decides. *)
LEMMA RemoveInsertDisjoint ==
    ASSUME NEW u \in Seq(Update)
    PROVE  RemoveArray(u) \cap KeysAt(u, InsertArray(u)) = {}
BY DEF KeysAt, RemoveArray, Nulls, InsertArray, LastWrites

LEMMA SetEventType ==
    ASSUME NEW s \in Store, NEW k \in Event
    PROVE  /\ SetEvent(s, k) \in Store
           /\ SetEvent(s, k).rows = s.rows
           /\ SetEvent(s, k).updates = Append(s.updates, [key |-> k, null |-> FALSE])
           /\ SetEventNil(s, k) \in Store
           /\ SetEventNil(s, k).rows = s.rows
           /\ SetEventNil(s, k).updates = Append(s.updates, [key |-> k, null |-> TRUE])
           /\ SetEvent(s, k).updates # <<>>
           /\ SetEventNil(s, k).updates # <<>>
<1>1. s.updates \in Seq(Update)
  BY DEF Store
<1>2. /\ [key |-> k, null |-> FALSE] \in Update
      /\ [key |-> k, null |-> TRUE] \in Update
  BY DEF Update
<1>3. /\ Append(s.updates, [key |-> k, null |-> FALSE]) \in Seq(Update)
      /\ Append(s.updates, [key |-> k, null |-> TRUE]) \in Seq(Update)
  BY <1>1, <1>2
<1>4. /\ SetEvent(s, k).updates = Append(s.updates, [key |-> k, null |-> FALSE])
      /\ SetEventNil(s, k).updates = Append(s.updates, [key |-> k, null |-> TRUE])
  BY DEF SetEvent, SetEventNil, Store
<1>5. /\ SetEvent(s, k).updates # <<>>
      /\ SetEventNil(s, k).updates # <<>>
  <2>1. ASSUME NEW u \in Seq(Update), NEW w \in Update
        PROVE  Append(u, w) # <<>>
    <3>1. Len(Append(u, w)) = Len(u) + 1 /\ Len(u) \in Nat
      OBVIOUS
    <3>2. QED
      BY <3>1
  <2>2. QED
    BY <1>1, <1>2, <1>4, <2>1
<1>6. QED
  BY <1>3, <1>4, <1>5 DEF SetEvent, SetEventNil, Store


(* A removed key is one the cache removes, an inserted one it sets. *)
LEMMA ArraysFromCache ==
    ASSUME NEW u, NEW I \in SUBSET InsertArray(u)
    PROVE  /\ RemoveArray(u) \subseteq Removes(u)
           /\ KeysAt(u, I) \subseteq Sets(u)
BY DEF RemoveArray, Nulls, InsertArray, LastWrites, KeysAt, Removes, Sets

(* A flush, whole or failed, deletes some removed keys and adds some inserted ones. *)
LEMMA FlushKeys ==
    ASSUME NEW s \in Store, NEW t, t = Flush(s) \/ t \in FailedFlushes(s)
    PROVE  \E K \in SUBSET RemoveArray(s.updates), I \in SUBSET InsertArray(s.updates) :
              /\ t \in Store
              /\ t.updates = <<>>
              /\ Keys(t.rows) = (Keys(s.rows) \ K) \cup KeysAt(s.updates, I)
<1> DEFINE u == s.updates
<1>1. u \in Seq(Update)
  BY DEF Store
<1>2. PICK K \in SUBSET RemoveArray(u), I \in SUBSET InsertArray(u) :
         t = Write(Drained(s), u, K, I)
  <2>1. CASE t = Flush(s)
    <3>1. /\ RemoveArray(u) \in SUBSET RemoveArray(u)
          /\ InsertArray(u) \in SUBSET InsertArray(u)
      OBVIOUS
    <3>2. QED
      BY <2>1, <3>1 DEF Flush
  <2>2. CASE t \in FailedFlushes(s)
    <3>1. /\ PartialDeletes(u) \subseteq SUBSET RemoveArray(u)
          /\ PartialInserts(u) \subseteq SUBSET InsertArray(u)
          /\ RemoveArray(u) \in SUBSET RemoveArray(u)
          /\ {} \in SUBSET InsertArray(u)
      BY DEF PartialDeletes, PartialInserts, RemoveArray, Nulls, KeysAt
    <3>2. \/ \E K \in PartialDeletes(u) : t = Write(Drained(s), u, K, {})
          \/ \E I \in PartialInserts(u) : t = Write(Drained(s), u, RemoveArray(u), I)
      BY <2>2 DEF FailedFlushes
    <3>3. QED
      BY <3>1, <3>2
  <2>3. QED
    BY <2>1, <2>2
<1>3. /\ Drained(s) \in Store
      /\ Drained(s).updates = <<>>
      /\ Drained(s).rows = s.rows
  BY DrainedType
<1>4. t \in Store /\ t.updates = <<>>
  BY <1>1, <1>2, <1>3, WriteType, WriteUpdates
<1>5. Keys(t.rows) = (Keys(s.rows) \ K) \cup KeysAt(u, I)
  <2>1. Keys(Write(Drained(s), u, K, I).rows) = (Keys(Drained(s).rows) \ K) \cup KeysAt(u, I)
    BY <1>3, WriteKeys
  <2>2. QED
    BY <1>2, <1>3, <2>1
<1>6. QED
  BY <1>4, <1>5

(***************************************************************************)
(* Whether a flush of s succeeds or fails, it empties the cache, adds only *)
(* what the cache sets and deletes only what the cache removes.            *)
(***************************************************************************)
LEMMA FlushOutcome ==
    ASSUME NEW s \in Store, NEW t, t = Flush(s) \/ t \in FailedFlushes(s)
    PROVE  /\ t \in Store
           /\ t.updates = <<>>
           /\ Keys(t.rows) \subseteq Keys(s.rows) \cup Sets(s.updates)
           /\ Keys(s.rows) \ Removes(s.updates) \subseteq Keys(t.rows)
<1>1. PICK K \in SUBSET RemoveArray(s.updates), I \in SUBSET InsertArray(s.updates) :
         /\ t \in Store
         /\ t.updates = <<>>
         /\ Keys(t.rows) = (Keys(s.rows) \ K) \cup KeysAt(s.updates, I)
  BY FlushKeys
<1>2. K \subseteq Removes(s.updates) /\ KeysAt(s.updates, I) \subseteq Sets(s.updates)
  BY ArraysFromCache
<1>3. QED
  BY <1>1, <1>2

(* An empty cache neither adds nor removes. *)
LEMMA EmptyCache == Sets(<<>>) = {} /\ Removes(<<>>) = {}
BY DEF Sets, Removes, KeysAt

(* One more cached write adds its key to the ones it belongs with. *)
LEMMA AppendKeys ==
    ASSUME NEW u \in Seq(Update), NEW w \in Update
    PROVE  /\ Sets(Append(u, w)) = Sets(u) \cup (IF w.null THEN {} ELSE {w.key})
           /\ Removes(Append(u, w)) = Removes(u) \cup (IF w.null THEN {w.key} ELSE {})
<1> DEFINE n == Len(u)
           v == Append(u, w)
<1>1. /\ n \in Nat
      /\ DOMAIN u = 1..n
      /\ DOMAIN v = 1..(n + 1)
      /\ v[n + 1] = w
      /\ \A i \in 1..n : v[i] = u[i]
  OBVIOUS
<1> HIDE DEF n, v
<1>2. /\ {i \in DOMAIN v : v[i].null}
            = {i \in DOMAIN u : u[i].null} \cup (IF w.null THEN {n + 1} ELSE {})
      /\ {i \in DOMAIN v : ~v[i].null}
            = {i \in DOMAIN u : ~u[i].null} \cup (IF w.null THEN {} ELSE {n + 1})
  BY <1>1
<1>3. /\ \A i \in {j \in DOMAIN u : u[j].null} : v[i].key = u[i].key
      /\ \A i \in {j \in DOMAIN u : ~u[j].null} : v[i].key = u[i].key
      /\ v[n + 1].key = w.key
  BY <1>1
<1>4. /\ Sets(v) = Sets(u) \cup (IF w.null THEN {} ELSE {w.key})
      /\ Removes(v) = Removes(u) \cup (IF w.null THEN {w.key} ELSE {})
  BY <1>2, <1>3 DEF KeysAt, Sets, Removes
<1>5. QED
  BY <1>4 DEF v

LEMMA SetEventKeys ==
    ASSUME NEW s \in Store, NEW k \in Event
    PROVE  /\ Sets(SetEvent(s, k).updates) = Sets(s.updates) \cup {k}
           /\ Removes(SetEvent(s, k).updates) = Removes(s.updates)
           /\ Sets(SetEventNil(s, k).updates) = Sets(s.updates)
           /\ Removes(SetEventNil(s, k).updates) = Removes(s.updates) \cup {k}
<1>1. s.updates \in Seq(Update)
  BY DEF Store
<1>2. /\ SetEvent(s, k).updates = Append(s.updates, [key |-> k, null |-> FALSE])
      /\ SetEventNil(s, k).updates = Append(s.updates, [key |-> k, null |-> TRUE])
  BY SetEventType
<1>3. /\ [key |-> k, null |-> FALSE] \in Update
      /\ [key |-> k, null |-> TRUE] \in Update
  BY DEF Update
<1>4. /\ Sets(SetEvent(s, k).updates) = Sets(s.updates) \cup {k}
      /\ Removes(SetEvent(s, k).updates) = Removes(s.updates)
  BY <1>1, <1>2, <1>3, AppendKeys
<1>5. /\ Sets(SetEventNil(s, k).updates) = Sets(s.updates)
      /\ Removes(SetEventNil(s, k).updates) = Removes(s.updates) \cup {k}
  <2> DEFINE w == [key |-> k, null |-> TRUE]
  <2>1. w \in Update /\ w.null /\ w.key = k
    BY <1>3
  <2>2. SetEventNil(s, k).updates = Append(s.updates, w)
    BY <1>2
  <2> HIDE DEF w
  <2>3. /\ Sets(Append(s.updates, w)) = Sets(s.updates) \cup {}
        /\ Removes(Append(s.updates, w)) = Removes(s.updates) \cup {w.key}
    BY <1>1, <2>1, AppendKeys
  <2>4. QED
    BY <2>1, <2>2, <2>3
<1>6. QED
  BY <1>4, <1>5

LEMMA ApplyEmpty ==
    ASSUME NEW K
    PROVE  Apply(<<>>, K) = K
BY DEF Apply, KeysAt, RemoveArray, Nulls, InsertArray, LastWrites

(***************************************************************************)
(* One more cached write acts last: this is what walking the cache         *)
(* backwards and taking each key once amounts to.                          *)
(***************************************************************************)
LEMMA ApplyAppend ==
    ASSUME NEW u \in Seq(Update), NEW w \in Update, NEW K
    PROVE  Apply(Append(u, w), K) =
              IF w.null THEN Apply(u, K) \ {w.key} ELSE Apply(u, K) \cup {w.key}
<1> DEFINE v == Append(u, w)
           n == Len(u)
<1>1. /\ n \in Nat
      /\ DOMAIN u = 1..n
      /\ DOMAIN v = 1..(n + 1)
      /\ v[n + 1] = w
      /\ \A i \in 1..n : v[i] = u[i]
  OBVIOUS
<1> HIDE DEF v, n
<1>2. LastWrites(v) = {i \in LastWrites(u) : u[i].key # w.key} \cup {n + 1}
  BY <1>1 DEF LastWrites
<1>3. LastWrites(u) \subseteq 1..n
  BY <1>1 DEF LastWrites
<1>4. w.null \in BOOLEAN
  BY DEF Update
<1>5. CASE w.null
  <2>1. RemoveArray(v) = RemoveArray(u) \cup {w.key}
    <3>1. \A k : k \in RemoveArray(v) => k \in RemoveArray(u) \cup {w.key}
      BY <1>1, <1>2, <1>3 DEF RemoveArray, Nulls, KeysAt
    <3>2. w.key \in RemoveArray(v)
      BY <1>1, <1>2, <1>5 DEF RemoveArray, Nulls, KeysAt
    <3>3. \A k \in RemoveArray(u) : k # w.key => k \in RemoveArray(v)
      BY <1>1, <1>2, <1>3 DEF RemoveArray, Nulls, KeysAt
    <3>4. QED
      BY <3>1, <3>2, <3>3
  <2>2. KeysAt(v, InsertArray(v)) = KeysAt(u, InsertArray(u)) \ {w.key}
    BY <1>1, <1>2, <1>3, <1>5 DEF InsertArray, KeysAt
  <2>3. QED
    BY <1>5, <2>1, <2>2 DEF Apply, v
<1>6. CASE ~w.null
  <2>1. RemoveArray(v) = RemoveArray(u) \ {w.key}
    BY <1>1, <1>2, <1>3, <1>6 DEF RemoveArray, Nulls, KeysAt
  <2>2. KeysAt(v, InsertArray(v)) = KeysAt(u, InsertArray(u)) \cup {w.key}
    <3>1. n + 1 \in InsertArray(v)
      BY <1>1, <1>2, <1>6 DEF InsertArray, KeysAt
    <3>2. QED
      BY <1>1, <1>2, <1>3, <1>6, <3>1 DEF InsertArray, KeysAt
  <2>3. QED
    BY <1>6, <2>1, <2>2 DEF Apply, v
<1>7. QED
  BY <1>4, <1>5, <1>6

(* A flush that succeeds changes nothing for the owner of the database. *)
LEMMA FlushApplies ==
    ASSUME NEW s \in Store
    PROVE  Apply(Flush(s).updates, Keys(Flush(s).rows)) = Apply(s.updates, Keys(s.rows))
<1>1. /\ Drained(s) \in Store
      /\ Drained(s).updates = <<>>
      /\ Drained(s).rows = s.rows
  BY DrainedType
<1>2. /\ Flush(s).updates = <<>>
      /\ Keys(Flush(s).rows) =
            (Keys(s.rows) \ RemoveArray(s.updates)) \cup KeysAt(s.updates, InsertArray(s.updates))
  BY <1>1, WriteUpdates, WriteKeys DEF Flush
<1>3. QED
  BY <1>2, ApplyEmpty DEF Apply

-----------------------------------------------------------------------------
(* The order of the rows *)

(* No event was accepted twice. *)
OnceEach(acc) == \A i, j \in DOMAIN acc : acc[i] = acc[j] => i = j

(* The rows of s are numbered in the order acc, below the next rowid. *)
OrderedRows(acc, s) ==
    /\ \A r \in s.rows : r.id < s.nextId
    /\ \A r \in s.rows : \E i \in DOMAIN acc : acc[i] = r.key
    /\ \A q, r \in s.rows : \A i, j \in DOMAIN acc :
          acc[i] = q.key /\ acc[j] = r.key => (q.id < r.id <=> i < j)

(* The events u sets are in the order acc, and later than those of the rows. *)
OrderedUpdates(acc, rows, u) ==
    /\ \A m \in DOMAIN u : ~u[m].null => \E i \in DOMAIN acc : acc[i] = u[m].key
    /\ \A m, n \in DOMAIN u : \A i, j \in DOMAIN acc :
          ~u[m].null /\ ~u[n].null /\ acc[i] = u[m].key /\ acc[j] = u[n].key
              => (m < n <=> i < j)
    /\ \A r \in rows : \A m \in DOMAIN u : \A i, j \in DOMAIN acc :
          ~u[m].null /\ acc[i] = r.key /\ acc[j] = u[m].key => i < j

(* Counting the inserted writes before each one numbers them in cache order. *)
LEMMA InsertRanks ==
    ASSUME NEW I \in SUBSET Nat, IsFiniteSet(I)
    PROVE  /\ Cardinality(I) \in Nat
           /\ \A i \in I : /\ Cardinality({j \in I : j < i}) \in Nat
                           /\ Cardinality({j \in I : j < i}) < Cardinality(I)
           /\ \A i, k \in I :
                 Cardinality({j \in I : j < i}) < Cardinality({j \in I : j < k}) <=> i < k
<1> DEFINE below(i) == {j \in I : j < i}
<1>1. Cardinality(I) \in Nat
  BY FS_CardinalityType
<1>2. \A i \in I : /\ IsFiniteSet(below(i))
                   /\ Cardinality(below(i)) \in Nat
                   /\ below(i) \subseteq I
                   /\ i \notin below(i)
  BY FS_Subset, FS_CardinalityType
<1>3. ASSUME NEW i \in I, NEW T \in SUBSET I, below(i) \subseteq T, i \in T
      PROVE  Cardinality(below(i)) < Cardinality(T)
  <2>1. IsFiniteSet(T) /\ Cardinality(T) \in Nat
    BY FS_Subset, FS_CardinalityType
  <2>2. below(i) # T
    BY <1>2, <1>3
  <2> HIDE DEF below
  <2>3. QED
    BY <1>2, <1>3, <2>1, <2>2, FS_Subset
<1>4. \A i, k \in I : i < k => Cardinality(below(i)) < Cardinality(below(k))
  <2> SUFFICES ASSUME NEW i \in I, NEW k \in I, i < k
               PROVE  Cardinality(below(i)) < Cardinality(below(k))
    OBVIOUS
  <2>1. below(k) \in SUBSET I /\ below(i) \subseteq below(k) /\ i \in below(k)
    <3>1. \A x \in I : x < i => x < k
      OBVIOUS
    <3>2. QED
      BY <3>1
  <2> HIDE DEF below
  <2>2. QED
    BY <1>3, <2>1
<1>5. \A i \in I : Cardinality(below(i)) < Cardinality(I)
  <2> SUFFICES ASSUME NEW i \in I
               PROVE  Cardinality(below(i)) < Cardinality(I)
    OBVIOUS
  <2> HIDE DEF below
  <2>1. QED
    BY <1>2, <1>3
<1>6. \A i, k \in I : Cardinality(below(i)) < Cardinality(below(k)) => i < k
  <2> SUFFICES ASSUME NEW i \in I, NEW k \in I,
                      Cardinality(below(i)) < Cardinality(below(k)), ~(i < k)
               PROVE  FALSE
    OBVIOUS
  <2>1. i \in Nat /\ k \in Nat /\ (k < i \/ k = i)
    OBVIOUS
  <2> HIDE DEF below
  <2>2. QED
    BY <1>2, <1>4, <2>1
<1>7. QED
  BY <1>1, <1>2, <1>4, <1>5, <1>6

(* Deleting rows keeps the rest in order. *)
LEMMA OrderKeptBySubset ==
    ASSUME NEW acc, NEW s \in Store, NEW t \in Store, OrderedRows(acc, s),
           t.rows \subseteq s.rows, t.nextId = s.nextId
    PROVE  /\ OrderedRows(acc, t)
           /\ \A u : OrderedUpdates(acc, s.rows, u) => OrderedUpdates(acc, t.rows, u)
BY DEF OrderedRows, OrderedUpdates

(* Inserting any of the cached writes a flush may insert keeps the rows in order. *)
LEMMA OrderKeptByWrite ==
    ASSUME NEW acc, DOMAIN acc \subseteq Nat,
           NEW s \in Store, NEW u \in Seq(Update), NEW K,
           NEW I \in SUBSET InsertArray(u),
           OrderedRows(acc, s), OrderedUpdates(acc, s.rows, u)
    PROVE  OrderedRows(acc, Write(s, u, K, I))
<1> DEFINE t == Write(s, u, K, I)
           rank(i) == Cardinality({j \in I : j < i})
<1>1. /\ I \in SUBSET Nat /\ IsFiniteSet(I) /\ I \subseteq DOMAIN u
      /\ \A i \in I : ~u[i].null
  <2>1. IsFiniteSet(I) /\ I \subseteq DOMAIN u
    BY InsertArrayFinite, FS_Subset
  <2>2. DOMAIN u \subseteq Nat
    OBVIOUS
  <2>3. \A i \in I : ~u[i].null
    BY DEF InsertArray
  <2>4. QED
    BY <2>1, <2>2, <2>3
<1>2. /\ Cardinality(I) \in Nat
      /\ \A i \in I : rank(i) \in Nat /\ rank(i) < Cardinality(I)
      /\ \A i, k \in I : rank(i) < rank(k) <=> i < k
  BY <1>1, InsertRanks
<1>3. /\ t.rows = DeleteEvents(s.rows, K) \cup NewRows(u, I, s.nextId)
      /\ t.nextId = s.nextId + Cardinality(I)
      /\ s.nextId \in Nat
      /\ \A r \in s.rows : r.id \in Nat
  BY DEF Write, Store, Row
<1>4. \A r \in NewRows(u, I, s.nextId) :
         \E m \in I : r.id = s.nextId + rank(m) /\ r.key = u[m].key
  <2>1. \A m \in I : LET r == [id |-> s.nextId + rank(m), key |-> u[m].key]
                      IN  r.id = s.nextId + rank(m) /\ r.key = u[m].key
    OBVIOUS
  <2>2. NewRows(u, I, s.nextId) = {[id |-> s.nextId + rank(m), key |-> u[m].key] : m \in I}
    BY DEF NewRows
  <2> HIDE DEF rank
  <2>3. QED
    BY <2>1, <2>2
<1>5. DeleteEvents(s.rows, K) \subseteq s.rows
  BY DEF DeleteEvents
<1> HIDE DEF t, rank
<1>6. \A r \in t.rows : r.id < t.nextId
  BY <1>2, <1>3, <1>4, <1>5 DEF OrderedRows
<1>7. \A r \in t.rows : \E i \in DOMAIN acc : acc[i] = r.key
  BY <1>1, <1>3, <1>4, <1>5 DEF OrderedRows, OrderedUpdates
<1>8. ASSUME NEW q \in t.rows, NEW r \in t.rows, NEW i \in DOMAIN acc, NEW j \in DOMAIN acc,
             acc[i] = q.key, acc[j] = r.key
      PROVE  q.id < r.id <=> i < j
  <2>1. CASE q \in s.rows /\ r \in s.rows
    BY <1>8, <2>1 DEF OrderedRows
  <2>2. CASE q \in s.rows /\ r \in NewRows(u, I, s.nextId)
    <3>1. PICK m \in I : r.id = s.nextId + rank(m) /\ r.key = u[m].key
      BY <1>4, <2>2
    <3>2. i < j
      BY <1>1, <1>8, <2>2, <3>1 DEF OrderedUpdates
    <3>3. q.id < r.id
      BY <1>2, <1>3, <2>2, <3>1 DEF OrderedRows
    <3>4. QED
      BY <3>2, <3>3
  <2>3. CASE q \in NewRows(u, I, s.nextId) /\ r \in s.rows
    <3>1. PICK m \in I : q.id = s.nextId + rank(m) /\ q.key = u[m].key
      BY <1>4, <2>3
    <3>2. j < i
      BY <1>1, <1>8, <2>3, <3>1 DEF OrderedUpdates
    <3>3. r.id < q.id
      BY <1>2, <1>3, <2>3, <3>1 DEF OrderedRows
    <3>4. r.id \in Nat /\ q.id \in Nat /\ i \in Nat /\ j \in Nat
      BY <1>2, <1>3, <2>3, <3>1
    <3>5. QED
      BY <3>2, <3>3, <3>4
  <2>4. CASE q \in NewRows(u, I, s.nextId) /\ r \in NewRows(u, I, s.nextId)
    <3>1. PICK m \in I : q.id = s.nextId + rank(m) /\ q.key = u[m].key
      BY <1>4, <2>4
    <3>2. PICK n \in I : r.id = s.nextId + rank(n) /\ r.key = u[n].key
      BY <1>4, <2>4
    <3>3. m < n <=> i < j
      BY <1>1, <1>8, <3>1, <3>2 DEF OrderedUpdates
    <3>4. q.id < r.id <=> m < n
      BY <1>2, <1>3, <3>1, <3>2
    <3>5. QED
      BY <3>3, <3>4
  <2>5. QED
    BY <1>3, <1>5, <2>1, <2>2, <2>3, <2>4
<1>9. QED
  BY <1>6, <1>7, <1>8 DEF OrderedRows, t

(* An event accepted last comes after everything there was. *)
LEMMA OrderKeptByAccept ==
    ASSUME NEW acc \in Seq(Event), OnceEach(acc), NEW k \in Event,
           \A i \in DOMAIN acc : acc[i] # k,
           NEW s \in Store, OrderedRows(acc, s), OrderedUpdates(acc, s.rows, s.updates)
    PROVE  /\ OnceEach(Append(acc, k))
           /\ OrderedRows(Append(acc, k), s)
           /\ OrderedUpdates(Append(acc, k), s.rows, SetEvent(s, k).updates)
<1> DEFINE a == Append(acc, k)
           n == Len(acc)
           w == [key |-> k, null |-> FALSE]
           u == s.updates
           v == Append(u, w)
<1>1. /\ n \in Nat
      /\ DOMAIN acc = 1..n
      /\ DOMAIN a = 1..(n + 1)
      /\ a[n + 1] = k
      /\ \A i \in 1..n : a[i] = acc[i]
  OBVIOUS
<1>2. u \in Seq(Update) /\ w \in Update /\ w.key = k /\ w.null = FALSE
  BY DEF Store, Update
<1>3. SetEvent(s, k).updates = v
  BY SetEventType
<1> DEFINE c == Len(u)
<1>4. /\ c \in Nat
      /\ DOMAIN u = 1..c
      /\ DOMAIN v = 1..(c + 1)
      /\ v[c + 1] = w
      /\ \A i \in 1..c : v[i] = u[i]
  <2> HIDE DEF w, u
  <2>1. QED
    BY <1>2
<1> HIDE DEF a, n, w, u, v, c
<1>5. OnceEach(a)
  BY <1>1 DEF OnceEach
<1>6. \A x : (\E i \in DOMAIN acc : acc[i] = x)
         => \A i \in DOMAIN a : a[i] = x => i \in DOMAIN acc /\ acc[i] = x
  BY <1>1
<1>7. OrderedRows(a, s)
  <2>1. \A r \in s.rows : \E i \in DOMAIN a : a[i] = r.key
    BY <1>1 DEF OrderedRows
  <2>2. ASSUME NEW q \in s.rows, NEW r \in s.rows, NEW i \in DOMAIN a, NEW j \in DOMAIN a,
               a[i] = q.key, a[j] = r.key
        PROVE  q.id < r.id <=> i < j
    <3>1. /\ i \in DOMAIN acc /\ acc[i] = q.key
          /\ j \in DOMAIN acc /\ acc[j] = r.key
      BY <1>6, <2>2 DEF OrderedRows
    <3>2. QED
      BY <3>1 DEF OrderedRows
  <2>3. QED
    BY <2>1, <2>2 DEF OrderedRows
<1>8. OrderedUpdates(a, s.rows, v)
  <2>0. OrderedUpdates(acc, s.rows, u)
    BY DEF u
  <2>1. \A m \in DOMAIN u : ~u[m].null => \E i \in DOMAIN acc : acc[i] = u[m].key
    BY <2>0 DEF OrderedUpdates
  <2>2. ASSUME NEW m \in DOMAIN v, ~v[m].null
        PROVE  \E i \in DOMAIN a : a[i] = v[m].key
    BY <1>1, <1>2, <1>4, <2>1, <2>2
  <2>3. ASSUME NEW m \in DOMAIN v, ~v[m].null, NEW i \in DOMAIN a, a[i] = v[m].key
        PROVE  \/ m = c + 1 /\ i = n + 1
               \/ m \in 1..c /\ i \in 1..n /\ v[m] = u[m] /\ acc[i] = u[m].key
    <3>1. CASE m = c + 1
      BY <1>1, <1>2, <1>4, <2>3, <3>1
    <3>2. CASE m \in 1..c
      BY <1>1, <1>4, <1>6, <2>1, <2>3, <3>2
    <3>3. QED
      BY <1>4, <3>1, <3>2
  <2>4. ASSUME NEW m \in DOMAIN v, NEW o \in DOMAIN v, NEW i \in DOMAIN a, NEW j \in DOMAIN a,
               ~v[m].null, ~v[o].null, a[i] = v[m].key, a[j] = v[o].key
        PROVE  m < o <=> i < j
    <3>1. /\ \/ m = c + 1 /\ i = n + 1
             \/ m \in 1..c /\ i \in 1..n /\ v[m] = u[m] /\ acc[i] = u[m].key
          /\ \/ o = c + 1 /\ j = n + 1
             \/ o \in 1..c /\ j \in 1..n /\ v[o] = u[o] /\ acc[j] = u[o].key
      BY <2>3, <2>4
    <3>2. CASE m \in 1..c /\ o \in 1..c
      <4>1. /\ i \in 1..n /\ v[m] = u[m] /\ acc[i] = u[m].key
            /\ j \in 1..n /\ v[o] = u[o] /\ acc[j] = u[o].key
        BY <1>4, <3>1, <3>2
      <4>2. QED
        BY <1>1, <1>4, <2>0, <2>4, <3>2, <4>1 DEF OrderedUpdates
    <3>3. QED
      BY <1>1, <1>4, <3>1, <3>2
  <2>5. ASSUME NEW r \in s.rows, NEW m \in DOMAIN v, NEW i \in DOMAIN a, NEW j \in DOMAIN a,
               ~v[m].null, a[i] = r.key, a[j] = v[m].key
        PROVE  i < j
    <3>1. i \in 1..n /\ acc[i] = r.key
      BY <1>1, <1>6, <2>5 DEF OrderedRows
    <3>2. \/ j = n + 1
          \/ m \in 1..c /\ j \in 1..n /\ v[m] = u[m] /\ acc[j] = u[m].key
      BY <2>3, <2>5
    <3>3. CASE j = n + 1
      BY <1>1, <3>1, <3>3
    <3>4. CASE m \in 1..c /\ j \in 1..n /\ v[m] = u[m] /\ acc[j] = u[m].key
      BY <1>1, <1>4, <2>0, <2>5, <3>1, <3>4 DEF OrderedUpdates
    <3>5. QED
      BY <3>2, <3>3, <3>4
  <2>6. QED
    BY <2>2, <2>4, <2>5 DEF OrderedUpdates
<1>9. QED
  BY <1>3, <1>5, <1>7, <1>8 DEF a

(* What is in order with one more write is in order without it. *)
LEMMA OrderBeforeSet ==
    ASSUME NEW acc, NEW s \in Store, NEW k \in Event,
           OrderedUpdates(acc, s.rows, SetEvent(s, k).updates)
    PROVE  OrderedUpdates(acc, s.rows, s.updates)
<1> DEFINE w == [key |-> k, null |-> FALSE]
           u == s.updates
           v == Append(u, w)
<1>1. u \in Seq(Update) /\ w \in Update
  BY DEF Store, Update
<1>2. SetEvent(s, k).updates = v
  BY SetEventType
<1> HIDE DEF w, u
<1>3. DOMAIN u \subseteq DOMAIN v /\ \A i \in DOMAIN u : v[i] = u[i]
  BY <1>1
<1>4. OrderedUpdates(acc, s.rows, v)
  BY <1>2
<1> HIDE DEF v
<1>5. OrderedUpdates(acc, s.rows, u)
  BY <1>3, <1>4 DEF OrderedUpdates
<1>6. QED
  BY <1>5 DEF u

(* A removal in the cache changes nothing of the order. *)
LEMMA OrderKeptByNil ==
    ASSUME NEW acc, NEW s \in Store, NEW k \in Event, OrderedUpdates(acc, s.rows, s.updates)
    PROVE  OrderedUpdates(acc, s.rows, SetEventNil(s, k).updates)
<1> DEFINE w == [key |-> k, null |-> TRUE]
           u == s.updates
           v == Append(u, w)
           c == Len(u)
<1>1. u \in Seq(Update) /\ w \in Update /\ w.null = TRUE
  BY DEF Store, Update
<1>2. SetEventNil(s, k).updates = v
  BY SetEventType
<1>3. /\ c \in Nat
      /\ DOMAIN u = 1..c
      /\ DOMAIN v = 1..(c + 1)
      /\ v[c + 1] = w
      /\ \A i \in 1..c : v[i] = u[i]
  <2> HIDE DEF w, u
  <2>1. QED
    BY <1>1
<1>4. OrderedUpdates(acc, s.rows, u)
  OBVIOUS
<1> HIDE DEF w, u, v, c
<1>5. \A m \in DOMAIN v : ~v[m].null => m \in DOMAIN u /\ v[m] = u[m]
  BY <1>1, <1>3
<1>6. OrderedUpdates(acc, s.rows, v)
  BY <1>4, <1>5 DEF OrderedUpdates
<1>7. QED
  BY <1>2, <1>6

(* With an empty cache only the rows have an order. *)
LEMMA OrderOfNothing ==
    ASSUME NEW acc, NEW rows
    PROVE  OrderedUpdates(acc, rows, <<>>)
BY DEF OrderedUpdates

(* A flush, whole or failed, keeps the rows in order. *)
LEMMA OrderKeptByFlush ==
    ASSUME NEW acc, DOMAIN acc \subseteq Nat,
           NEW s \in Store, NEW t, t = Flush(s) \/ t \in FailedFlushes(s),
           OrderedRows(acc, s), OrderedUpdates(acc, s.rows, s.updates)
    PROVE  OrderedRows(acc, t)
<1> DEFINE d == Drained(s)
           u == s.updates
<1>1. d \in Store /\ d.rows = s.rows /\ d.nextId = s.nextId
  BY DrainedType
<1>2. u \in Seq(Update)
  BY DEF Store
<1>3. \E K : \E I \in SUBSET InsertArray(u) : t = Write(d, u, K, I)
  <2>1. CASE t = Flush(s)
    BY <2>1 DEF Flush
  <2>2. CASE t \in FailedFlushes(s)
    <3>1. PartialInserts(u) \subseteq SUBSET InsertArray(u) /\ {} \in SUBSET InsertArray(u)
      BY DEF PartialInserts
    <3>2. \/ \E K \in PartialDeletes(u) : t = Write(d, u, K, {})
          \/ \E I \in PartialInserts(u) : t = Write(d, u, RemoveArray(u), I)
      BY <2>2 DEF FailedFlushes
    <3>3. QED
      BY <3>1, <3>2
  <2>3. QED
    BY <2>1, <2>2
<1>4. OrderedRows(acc, d) /\ OrderedUpdates(acc, d.rows, u)
  BY <1>1 DEF OrderedRows
<1> HIDE DEF d, u
<1>5. QED
  BY <1>1, <1>2, <1>3, <1>4, OrderKeptByWrite

(* A row is known by its rowid and by its key. *)
OneRowEach(rows) ==
    \A q, r \in rows : q.id = r.id \/ q.key = r.key => q = r

LEMMA OrderedRowsDistinct ==
    ASSUME NEW acc, DOMAIN acc \subseteq Nat, NEW s \in Store, OrderedRows(acc, s)
    PROVE  OneRowEach(s.rows)
<1> SUFFICES ASSUME NEW q \in s.rows, NEW r \in s.rows, q.id = r.id \/ q.key = r.key
             PROVE  q = r
  BY DEF OneRowEach
<1>1. PICK i \in DOMAIN acc : acc[i] = q.key
  BY DEF OrderedRows
<1>2. PICK j \in DOMAIN acc : acc[j] = r.key
  BY DEF OrderedRows
<1>3. q \in Row /\ r \in Row /\ q.id \in Nat /\ r.id \in Nat /\ i \in Nat /\ j \in Nat
  BY DEF Row, Store
<1>4. CASE q.id = r.id
  <2>1. (q.id < r.id <=> i < j) /\ (r.id < q.id <=> j < i)
    BY <1>1, <1>2 DEF OrderedRows
  <2>2. i = j
    BY <1>3, <1>4, <2>1
  <2>3. QED
    BY <1>1, <1>2, <1>3, <1>4, <2>2 DEF Row
<1>5. CASE q.key = r.key
  <2>1. (q.id < r.id <=> i < i) /\ (r.id < q.id <=> i < i)
    BY <1>1, <1>5 DEF OrderedRows
  <2>2. q.id = r.id
    BY <1>3, <2>1
  <2>3. QED
    BY <1>3, <1>5, <2>2 DEF Row
<1>6. QED
  BY <1>4, <1>5

(* A table whose rows are in order is finite: a row is known by its rowid. *)
LEMMA OrderedRowsFinite ==
    ASSUME NEW acc, DOMAIN acc \subseteq Nat, NEW s \in Store, OrderedRows(acc, s)
    PROVE  IsFiniteSet(s.rows)
<1>1. s.nextId \in Nat /\ s.rows \in SUBSET Row
  BY DEF Store
<1>2. \A r \in s.rows : r.id \in 0..s.nextId
  BY <1>1 DEF OrderedRows, Row
<1>3. \A q, r \in s.rows : q.id = r.id => q = r
  BY OrderedRowsDistinct DEF OneRowEach
<1>4. [r \in s.rows |-> r.id] \in Injection(s.rows, 0..s.nextId)
  BY <1>2, <1>3 DEF Injection, IsInjective
<1>5. IsFiniteSet(0..s.nextId)
  BY <1>1, FS_Interval
<1>6. QED
  BY <1>4, <1>5, FS_Injection

-----------------------------------------------------------------------------
(* Least and greatest numbers *)

(* A non-empty set of naturals has a least element. *)
LEMMA LeastNatural ==
    ASSUME NEW T \in SUBSET Nat, T # {}
    PROVE  \E m \in T : \A k \in T : m <= k
<1> DEFINE R == OpToRel(<, Nat)
<1>1. \E m \in T : \A k \in T : ~ (<<k, m>> \in R)
  <2> HIDE DEF R
  <2>1. IsWellFoundedOn(R, Nat)
    BY NatLessThanWellFounded DEF R
  <2>2. QED
    BY <2>1, WFMin
<1>2. PICK m \in T : \A k \in T : ~ (<<k, m>> \in R)
  BY <1>1
<1>3. \A k \in T : ~ (k < m)
  BY <1>2 DEF OpToRel
<1>4. QED
  BY <1>3

(* A bounded set of naturals has a greatest element. *)
LEMMA GreatestNatural ==
    ASSUME NEW T \in SUBSET Nat, T # {}, NEW n \in Nat, \A x \in T : x <= n
    PROVE  \E x \in T : \A y \in T : y <= x
<1> DEFINE S == {m \in Nat : \E x \in T : m = n - x}
<1>1. S # {} /\ S \in SUBSET Nat
  <2>1. PICK x \in T : TRUE
    OBVIOUS
  <2>2. n - x \in Nat
    BY <2>1
  <2>3. QED
    BY <2>1, <2>2
<1>2. PICK m \in S : \A k \in S : m <= k
  <2> HIDE DEF S
  <2>1. QED
    BY <1>1, LeastNatural
<1>3. PICK x \in T : m = n - x
  BY <1>2
<1>4. ASSUME NEW y \in T
      PROVE  y <= x
  <2>1. n - y \in S
    BY <1>4
  <2>2. n - x <= n - y
    BY <1>2, <1>3, <2>1
  <2>3. QED
    BY <1>3, <1>4, <2>2
<1>5. QED
  BY <1>4

-----------------------------------------------------------------------------
(* The length of a set of rows *)

(***************************************************************************)
(* EventsLength is a fold, so a recursive function on the subsets of its   *)
(* argument.  LengthStep is the body of its definition and Sums the        *)
(* function; what follows shows that it exists and what it computes.       *)
(***************************************************************************)
Some(s) == CHOOSE x \in s : TRUE
LengthStep(h, s) == IF s = {} THEN 0 ELSE Length[Some(s).key] + h[s \ {Some(s)}]
Sums(S) == CHOOSE h : h = [s \in SUBSET S |-> LengthStep(h, s)]

LEMMA EventsLengthIsSum ==
    ASSUME NEW S
    PROVE  EventsLength(S) = Sums(S)[S]
BY DEF EventsLength, MapThenSumSet, MapThenFoldSet, Sums, LengthStep, Some

LEMMA SomeIn ==
    ASSUME NEW s, s # {}
    PROVE  Some(s) \in s
BY DEF Some

(* One element less is one less to count. *)
LEMMA OneLess ==
    ASSUME NEW S, IsFiniteSet(S), NEW x \in S
    PROVE  /\ IsFiniteSet(S \ {x})
           /\ Cardinality(S) \in Nat /\ Cardinality(S) # 0
           /\ Cardinality(S \ {x}) = Cardinality(S) - 1
           /\ Cardinality(S \ {x}) \in Nat
<1>1. IsFiniteSet(S \ {x}) /\ Cardinality(S \ {x}) = Cardinality(S) - 1
  BY FS_RemoveElement
<1>2. Cardinality(S) \in Nat /\ Cardinality(S \ {x}) \in Nat
  BY <1>1, FS_CardinalityType
<1>3. QED
  BY <1>1, <1>2

(* The subsets of S with at most n elements. *)
Within(S, n) == {T \in SUBSET S : Cardinality(T) <= n}

(* The recursion is sound as far as the sets of n elements, for every n. *)
LEMMA SumsExistWithin ==
    ASSUME NEW S, IsFiniteSet(S), NEW n \in Nat
    PROVE  \E h : h = [s \in Within(S, n) |-> LengthStep(h, s)]
<1> DEFINE Fails == {m \in Nat : ~ \E h : h = [s \in Within(S, m) |-> LengthStep(h, s)]}
<1>1. SUFFICES ASSUME Fails # {}
               PROVE  FALSE
  OBVIOUS
<1>2. PICK m \in Fails : \A k \in Fails : m <= k
  <2>1. Fails \in SUBSET Nat
    OBVIOUS
  <2> HIDE DEF Fails
  <2>2. QED
    BY <1>1, <2>1, LeastNatural
<1>3. CASE m = 0
  <2> DEFINE h == [s \in Within(S, 0) |-> 0]
  <2>1. \A s \in Within(S, 0) : s = {}
    <3> SUFFICES ASSUME NEW s \in Within(S, 0)
                 PROVE  s = {}
      OBVIOUS
    <3>1. IsFiniteSet(s) /\ Cardinality(s) \in Nat /\ Cardinality(s) <= 0
      BY FS_Subset, FS_CardinalityType DEF Within
    <3>2. QED
      BY <3>1, FS_EmptySet
  <2>2. h = [s \in Within(S, 0) |-> LengthStep(h, s)]
    BY <2>1 DEF LengthStep
  <2>3. QED
    BY <1>3, <2>2
<1>4. CASE m # 0
  <2>1. m \in Nat /\ m - 1 \in Nat /\ m - 1 \notin Fails
    BY <1>2, <1>4
  <2>2. PICK g : g = [s \in Within(S, m - 1) |-> LengthStep(g, s)]
    BY <2>1
  <2> DEFINE h == [s \in Within(S, m) |-> LengthStep(g, s)]
  <2>3. ASSUME NEW s \in Within(S, m)
        PROVE  LengthStep(g, s) = LengthStep(h, s)
    <3>1. CASE s = {}
      BY <3>1 DEF LengthStep
    <3>2. CASE s # {}
      <4> DEFINE t == s \ {Some(s)}
      <4>1. IsFiniteSet(s) /\ s \in SUBSET S /\ Cardinality(s) <= m
        BY FS_Subset DEF Within
      <4>2. Cardinality(t) = Cardinality(s) - 1 /\ Cardinality(s) \in Nat
        BY <3>2, <4>1, SomeIn, OneLess
      <4>3. t \in Within(S, m - 1) /\ t \in Within(S, m)
        BY <2>1, <4>1, <4>2 DEF Within
      <4> HIDE DEF t
      <4>4. g[t] = LengthStep(g, t)
        BY <2>2, <4>3
      <4>5. h[t] = LengthStep(g, t)
        BY <4>3
      <4> HIDE DEF h
      <4>6. QED
        BY <4>4, <4>5 DEF LengthStep, t
    <3>3. QED
      BY <3>1, <3>2
  <2>4. h = [s \in Within(S, m) |-> LengthStep(h, s)]
    BY <2>3
  <2>5. QED
    BY <1>2, <2>4
<1>5. QED
  BY <1>3, <1>4

(* The function that the definition of EventsLength chooses obeys its body. *)
LEMMA SumsObeys ==
    ASSUME NEW S, IsFiniteSet(S)
    PROVE  Sums(S) = [s \in SUBSET S |-> LengthStep(Sums(S), s)]
<1>1. Within(S, Cardinality(S)) = SUBSET S
  BY FS_Subset DEF Within
<1>2. Cardinality(S) \in Nat
  BY FS_CardinalityType
<1>3. \E h : h = [s \in Within(S, Cardinality(S)) |-> LengthStep(h, s)]
  BY <1>2, SumsExistWithin
<1>4. QED
  BY <1>1, <1>3 DEF Sums

(* Taking any row out takes its length out, whichever rows the fold takes first. *)
LEMMA SumsOfRows ==
    ASSUME NEW S \in SUBSET Row, IsFiniteSet(S)
    PROVE  \A T \in SUBSET S :
              /\ Sums(S)[T] \in Nat
              /\ \A x \in T : Sums(S)[T] = Length[x.key] + Sums(S)[T \ {x}]
<1> DEFINE h == Sums(S)
           Good(T) == /\ h[T] \in Nat
                      /\ \A x \in T : h[T] = Length[x.key] + h[T \ {x}]
           Fails == {n \in Nat : \E T \in SUBSET S : Cardinality(T) = n /\ ~Good(T)}
<1>1. \A T \in SUBSET S : h[T] = LengthStep(h, T)
  BY SumsObeys
<1>2. \A x \in S : Length[x.key] \in Nat
  BY StoreAssumption DEF Row
<1>3. \A T \in SUBSET S : IsFiniteSet(T) /\ Cardinality(T) \in Nat
  BY FS_Subset, FS_CardinalityType
<1> HIDE DEF h
<1>4. SUFFICES ASSUME Fails # {}
               PROVE  FALSE
  <2>1. \A T \in SUBSET S : Good(T)
    BY <1>3, <1>4
  <2>2. QED
    BY <2>1 DEF h
<1>5. PICK n \in Fails : \A k \in Fails : n <= k
  <2>1. Fails \in SUBSET Nat
    OBVIOUS
  <2> HIDE DEF Fails
  <2>2. QED
    BY <1>4, <2>1, LeastNatural
<1>6. PICK T \in SUBSET S : Cardinality(T) = n /\ ~Good(T)
  BY <1>5
<1>7. ASSUME NEW x \in T
      PROVE  /\ Good(T \ {x})
             /\ h[T \ {x}] \in Nat
             /\ \A y \in T \ {x} : h[T \ {x}] = Length[y.key] + h[(T \ {x}) \ {y}]
  <2>1. IsFiniteSet(T) /\ n \in Nat
    BY <1>3, <1>5
  <2>2. Cardinality(T \ {x}) = n - 1 /\ Cardinality(T \ {x}) \in Nat
    BY <1>6, <2>1, OneLess
  <2>3. T \ {x} \in SUBSET S /\ ~ (n <= n - 1)
    BY <2>1
  <2> HIDE DEF Good
  <2>4. Good(T \ {x})
    BY <1>5, <2>2, <2>3
  <2>5. QED
    BY <2>4 DEF Good
<1>8. CASE T = {}
  <2>1. h[T] = 0
    BY <1>1, <1>8 DEF LengthStep
  <2>2. QED
    BY <1>6, <1>8, <2>1
<1>9. CASE T # {}
  <2> DEFINE y == Some(T)
  <2>1. y \in T
    BY <1>9, SomeIn
  <2>2. h[T] = Length[y.key] + h[T \ {y}]
    BY <1>1, <1>9 DEF LengthStep
  <2> HIDE DEF y
  <2>3. h[T] \in Nat
    <3>1. h[T \ {y}] \in Nat
      BY <1>7, <2>1
    <3>2. Length[y.key] \in Nat
      BY <1>2, <2>1
    <3> HIDE DEF Good
    <3>3. QED
      BY <2>2, <3>1, <3>2
  <2>4. ASSUME NEW x \in T
        PROVE  h[T] = Length[x.key] + h[T \ {x}]
    <3>1. CASE x = y
      BY <2>2, <3>1
    <3>2. CASE x # y
      <4>1. (T \ {x}) \ {y} = (T \ {y}) \ {x}
        OBVIOUS
      <4> DEFINE r == h[(T \ {x}) \ {y}]
      <4>2. h[T \ {y}] = Length[x.key] + r
        BY <1>7, <2>1, <3>2, <4>1
      <4>3. h[T \ {x}] = Length[y.key] + r /\ h[T \ {x}] \in Nat
        BY <1>7, <2>1, <3>2
      <4>4. r \in Nat
        <5>1. Good(T \ {x})
          BY <1>7
        <5>2. (T \ {x}) \ {y} \in SUBSET S
          OBVIOUS
        <5>3. IsFiniteSet(T) /\ IsFiniteSet(T \ {x}) /\ n \in Nat
          BY <1>3, <1>5
        <5>4. Cardinality(T \ {x}) = n - 1 /\ Cardinality(T \ {x}) \in Nat
          BY <1>6, <5>3, OneLess
        <5>5. /\ Cardinality((T \ {x}) \ {y}) = n - 2
              /\ Cardinality((T \ {x}) \ {y}) \in Nat
          <6> DEFINE t == T \ {x}
          <6>1. IsFiniteSet(t) /\ y \in t /\ Cardinality(t) = n - 1 /\ n \in Nat
            BY <2>1, <3>2, <5>3, <5>4
          <6> HIDE DEF t
          <6>2. Cardinality(t \ {y}) = Cardinality(t) - 1 /\ Cardinality(t \ {y}) \in Nat
            BY <6>1, OneLess
          <6>3. Cardinality(t \ {y}) = n - 2
            BY <6>1, <6>2
          <6>4. QED
            BY <6>2, <6>3 DEF t
        <5>6. ~ (n <= n - 2)
          BY <5>3
        <5> HIDE DEF Good, r
        <5>7. Good((T \ {x}) \ {y})
          BY <1>5, <5>2, <5>5, <5>6
        <5>8. QED
          BY <5>7 DEF Good, r
      <4>5. Length[x.key] \in Nat /\ Length[y.key] \in Nat
        BY <1>2, <2>1
      <4> HIDE DEF r
      <4>6. QED
        BY <2>2, <4>2, <4>3, <4>4, <4>5
    <3>3. QED
      BY <3>1, <3>2
  <2>5. QED
    BY <1>6, <2>3, <2>4
<1>10. QED
  BY <1>8, <1>9

(* The sums over a set and over a subset agree. *)
LEMMA SumsAgree ==
    ASSUME NEW S, IsFiniteSet(S), NEW U \in SUBSET S
    PROVE  \A T \in SUBSET U : Sums(U)[T] = Sums(S)[T]
<1> DEFINE g == Sums(U)
           h == Sums(S)
           Fails == {n \in Nat : \E T \in SUBSET U : Cardinality(T) = n /\ g[T] # h[T]}
<1>1. \A T \in SUBSET U : g[T] = LengthStep(g, T) /\ h[T] = LengthStep(h, T)
  <2>1. IsFiniteSet(U)
    BY FS_Subset
  <2>2. Sums(U) = [s \in SUBSET U |-> LengthStep(Sums(U), s)]
    BY <2>1, SumsObeys
  <2>3. Sums(S) = [s \in SUBSET S |-> LengthStep(Sums(S), s)]
    BY SumsObeys
  <2>4. QED
    BY <2>2, <2>3
<1>2. \A T \in SUBSET U : IsFiniteSet(T) /\ Cardinality(T) \in Nat
  BY FS_Subset, FS_CardinalityType
<1> HIDE DEF g, h
<1>3. SUFFICES ASSUME Fails # {}
               PROVE  FALSE
  BY <1>2 DEF g, h
<1>4. PICK n \in Fails : \A k \in Fails : n <= k
  <2>1. Fails \in SUBSET Nat
    OBVIOUS
  <2> HIDE DEF Fails
  <2>2. QED
    BY <1>3, <2>1, LeastNatural
<1>5. PICK T \in SUBSET U : Cardinality(T) = n /\ g[T] # h[T]
  BY <1>4
<1>6. CASE T = {}
  BY <1>1, <1>5, <1>6 DEF LengthStep
<1>7. CASE T # {}
  <2> DEFINE t == T \ {Some(T)}
  <2>1. Cardinality(t) = n - 1 /\ Cardinality(t) \in Nat /\ n \in Nat
    BY <1>2, <1>5, <1>7, SomeIn, OneLess
  <2>2. t \in SUBSET U /\ ~ (n <= n - 1)
    BY <2>1
  <2>3. g[t] = h[t]
    <3> HIDE DEF t
    <3>1. QED
      BY <1>4, <2>1, <2>2
  <2>4. QED
    BY <1>1, <1>5, <2>3 DEF LengthStep
<1>8. QED
  BY <1>6, <1>7

(***************************************************************************)
(* What a batch weighs: nothing when it is empty, and one row's length     *)
(* more with that row.                                                     *)
(***************************************************************************)
LEMMA EventsLengthOfNone == EventsLength({}) = 0
<1>1. Sums({}) = [s \in SUBSET {} |-> LengthStep(Sums({}), s)]
  BY SumsObeys, FS_EmptySet
<1>2. Sums({})[{}] = 0
  BY <1>1 DEF LengthStep
<1>3. QED
  BY <1>2, EventsLengthIsSum

(* The length of finitely many rows is a number. *)
LEMMA EventsLengthType ==
    ASSUME NEW S \in SUBSET Row, IsFiniteSet(S)
    PROVE  EventsLength(S) \in Nat
<1>1. S \in SUBSET S
  OBVIOUS
<1>2. Sums(S)[S] \in Nat
  BY <1>1, SumsOfRows
<1>3. QED
  BY <1>2, EventsLengthIsSum

LEMMA EventsLengthOfMore ==
    ASSUME NEW S \in SUBSET Row, IsFiniteSet(S), NEW x \in Row, x \notin S
    PROVE  EventsLength(S \cup {x}) = EventsLength(S) + Length[x.key]
<1> DEFINE U == S \cup {x}
<1>1. U \in SUBSET Row /\ S \in SUBSET U /\ x \in U /\ U \ {x} = S
  OBVIOUS
<1>2. IsFiniteSet(U)
  BY FS_AddElement
<1>3. EventsLength(U) = Sums(U)[U] /\ EventsLength(S) = Sums(S)[S]
  BY EventsLengthIsSum
<1> HIDE DEF U
<1>4. /\ Sums(U)[S] \in Nat
      /\ Sums(U)[U] = Length[x.key] + Sums(U)[U \ {x}]
  <2>1. \A T \in SUBSET U :
           /\ Sums(U)[T] \in Nat
           /\ \A y \in T : Sums(U)[T] = Length[y.key] + Sums(U)[T \ {y}]
    BY <1>1, <1>2, SumsOfRows
  <2>2. U \in SUBSET U
    OBVIOUS
  <2>3. QED
    BY <1>1, <2>1, <2>2
<1>5. \A T \in SUBSET S : Sums(S)[T] = Sums(U)[T]
  BY <1>1, <1>2, SumsAgree
<1>6. Length[x.key] \in Nat
  BY StoreAssumption DEF Row
<1>7. EventsLength(S) \in Nat /\ EventsLength(U) = EventsLength(S) + Length[x.key]
  <2>1. Sums(S)[S] = Sums(U)[S]
    BY <1>5
  <2>2. Sums(U)[U] = Length[x.key] + Sums(U)[S]
    BY <1>1, <1>4
  <2>3. QED
    BY <1>3, <1>4, <1>6, <2>1, <2>2
<1>8. QED
  BY <1>7 DEF U

(* n rows of at most m bytes weigh at most n * m bytes. *)
LEMMA EventsLengthBounded ==
    ASSUME NEW S \in SUBSET Row, IsFiniteSet(S),
           NEW m \in Nat, \A e \in Event : Length[e] <= m
    PROVE  EventsLength(S) <= Cardinality(S) * m
<1> DEFINE Fails == {n \in Nat : \E T \in SUBSET S : /\ Cardinality(T) = n
                                                     /\ ~ (EventsLength(T) <= n * m)}
<1>1. \A T \in SUBSET S : IsFiniteSet(T) /\ Cardinality(T) \in Nat
  BY FS_Subset, FS_CardinalityType
<1>2. SUFFICES ASSUME Fails # {}
               PROVE  FALSE
  <2>1. \A T \in SUBSET S : EventsLength(T) <= Cardinality(T) * m
    BY <1>1, <1>2
  <2>2. QED
    BY <2>1
<1>3. PICK n \in Fails : \A k \in Fails : n <= k
  <2>1. Fails \in SUBSET Nat
    OBVIOUS
  <2> HIDE DEF Fails
  <2>2. QED
    BY <1>2, <2>1, LeastNatural
<1>4. PICK T \in SUBSET S : Cardinality(T) = n /\ ~ (EventsLength(T) <= n * m)
  BY <1>3
<1>5. n \in Nat /\ IsFiniteSet(T)
  BY <1>1, <1>3
<1>6. CASE T = {}
  <2>1. EventsLength(T) = 0 /\ n = 0
    BY <1>4, <1>6, EventsLengthOfNone, FS_EmptySet
  <2>2. QED
    BY <1>4, <2>1
<1>7. CASE T # {}
  <2>1. PICK x \in T : TRUE
    BY <1>7
  <2> DEFINE t == T \ {x}
  <2>2. /\ IsFiniteSet(t) /\ Cardinality(t) = n - 1 /\ n - 1 \in Nat
        /\ t \in SUBSET S /\ x \in Row /\ x \notin t /\ T = t \cup {x}
    BY <1>4, <1>5, <2>1, OneLess
  <2> HIDE DEF t
  <2>3. EventsLength(t) \in Nat /\ EventsLength(T) = EventsLength(t) + Length[x.key]
    BY <2>2, EventsLengthType, EventsLengthOfMore
  <2>4. Length[x.key] \in Nat /\ Length[x.key] <= m
    BY <2>2, StoreAssumption DEF Row
  <2>5. EventsLength(t) <= (n - 1) * m
    <3>1. n - 1 \notin Fails
      BY <1>3, <1>5, <2>2
    <3>2. QED
      BY <2>2, <3>1
  <2>6. (n - 1) * m + m = n * m /\ (n - 1) * m \in Nat
    <3> HIDE DEF Fails
    <3>1. QED
      BY <1>5, <2>2
  <2> DEFINE a == (n - 1) * m
             b == n * m
  <2>7. EventsLength(t) <= a /\ a \in Nat /\ b = a + m
    BY <2>5, <2>6
  <2> HIDE DEF a, b
  <2>8. EventsLength(T) <= b
    BY <2>3, <2>4, <2>7
  <2>9. QED
    BY <1>4, <2>8 DEF b
<1>8. QED
  BY <1>6, <1>7

-----------------------------------------------------------------------------
(* What a batch takes *)

(***************************************************************************)
(* The walk of GetEvents over the rows C stops at r.  The rows before the  *)
(* first stop are Taken; those of its keys are the batch.                  *)
(***************************************************************************)
StopsAt(C, r) == \/ Cardinality(UpTo(C, r)) > MaxBatch
                 \/ EventsLength(UpTo(C, r)) >= LimitSize
Taken(C) == {r \in C : \A q \in UpTo(C, r) : ~StopsAt(C, q)}

LEMMA BatchIsTaken ==
    ASSUME NEW rows, NEW mask
    PROVE  GetEvents(rows, mask) = Keys(Taken(Candidates(rows, mask)))
BY DEF GetEvents, Taken, StopsAt

(* With a row the walk takes all before it. *)
LEMMA TakenIsPrefix ==
    ASSUME NEW C \in SUBSET Row, NEW r \in Taken(C), NEW q \in C, q.id <= r.id
    PROVE  q \in Taken(C)
<1>1. q.id \in Nat /\ r.id \in Nat /\ r \in C
  BY DEF Row, Taken
<1>2. UpTo(C, q) \subseteq UpTo(C, r)
  BY <1>1 DEF UpTo, Row
<1>3. QED
  BY <1>2 DEF Taken

(* A set of rows that a rowid bounds has a last one. *)
LEMMA LastRow ==
    ASSUME NEW B \in SUBSET Row, B # {}, NEW n \in Nat, \A r \in B : r.id < n
    PROVE  \E r \in B : \A q \in B : q.id <= r.id
<1> DEFINE ids == {m \in Nat : \E r \in B : r.id = m}
<1>1. ids \in SUBSET Nat /\ ids # {} /\ \A m \in ids : m <= n
  BY DEF Row
<1>2. \E m \in ids : \A k \in ids : k <= m
  <2> HIDE DEF ids
  <2>1. QED
    BY <1>1, GreatestNatural
<1>3. QED
  BY <1>2 DEF Row

(* What is taken keeps both limits: the last row taken did not stop the walk. *)
LEMMA TakenFits ==
    ASSUME NEW C \in SUBSET Row, NEW n \in Nat, \A r \in C : r.id < n
    PROVE  /\ ~ (Cardinality(Taken(C)) > MaxBatch)
           /\ ~ (EventsLength(Taken(C)) >= LimitSize)
<1>1. Taken(C) \in SUBSET C
  BY DEF Taken
<1>2. CASE Taken(C) = {}
  BY <1>2, FS_EmptySet, EventsLengthOfNone, StoreAssumption
<1>3. CASE Taken(C) # {}
  <2>1. PICK r \in Taken(C) : \A q \in Taken(C) : q.id <= r.id
    BY <1>1, <1>3, LastRow
  <2>2. r \in C /\ r \in UpTo(C, r)
    BY <1>1 DEF UpTo, Row
  <2>3. UpTo(C, r) = Taken(C)
    <3>1. \A q \in C : q.id <= r.id => q \in Taken(C)
      BY TakenIsPrefix
    <3>2. QED
      BY <1>1, <2>1, <3>1 DEF UpTo
  <2>4. ~StopsAt(C, r)
    BY <2>2 DEF Taken
  <2>5. QED
    BY <2>3, <2>4 DEF StopsAt
<1>4. QED
  BY <1>2, <1>3

(* The first row that is left out would break a limit. *)
LEMMA NextIsTooMuch ==
    ASSUME NEW C \in SUBSET Row, IsFiniteSet(C), OneRowEach(C),
           NEW q \in C \ Taken(C), \A r \in C \ Taken(C) : q.id <= r.id
    PROVE  \/ Cardinality(Taken(C)) + 1 > MaxBatch
           \/ EventsLength(Taken(C)) + Length[q.key] >= LimitSize
<1> DEFINE B == Taken(C)
<1>1. B \in SUBSET C /\ IsFiniteSet(B) /\ q \notin B /\ q \in Row
  BY FS_Subset DEF Taken
<1>2. UpTo(C, q) = B \cup {q}
  <2>1. ASSUME NEW r \in C, r.id <= q.id, r \notin B
        PROVE  r = q
    <3>1. q.id <= r.id
      BY <2>1
    <3>2. q.id = r.id
      BY <2>1, <3>1 DEF Row
    <3>3. QED
      BY <3>2 DEF OneRowEach
  <2>2. ASSUME NEW r \in B
        PROVE  r.id <= q.id
    <3>1. ~ (q.id <= r.id)
      BY <1>1, TakenIsPrefix
    <3>2. q.id \in Nat /\ r.id \in Nat
      BY <1>1 DEF Row
    <3>3. QED
      BY <3>1, <3>2
  <2>3. q.id <= q.id
    BY <1>1 DEF Row
  <2>4. QED
    BY <1>1, <2>1, <2>2, <2>3 DEF UpTo
<1>3. PICK p \in UpTo(C, q) : StopsAt(C, p)
  BY DEF Taken
<1>4. p = q
  <2>1. p \in UpTo(C, p)
    BY <1>3 DEF UpTo, Row
  <2>2. p \notin B
    BY <1>3, <2>1 DEF Taken
  <2>3. QED
    BY <1>2, <2>2
<1> HIDE DEF B
<1>5. \/ Cardinality(B \cup {q}) > MaxBatch
      \/ EventsLength(B \cup {q}) >= LimitSize
  BY <1>2, <1>3, <1>4 DEF StopsAt
<1>6. Cardinality(B \cup {q}) = Cardinality(B) + 1
  BY <1>1, FS_AddElement
<1>7. EventsLength(B \cup {q}) = EventsLength(B) + Length[q.key]
  BY <1>1, EventsLengthOfMore
<1>8. \/ Cardinality(B) + 1 > MaxBatch
      \/ EventsLength(B) + Length[q.key] >= LimitSize
  BY <1>5, <1>6, <1>7
<1>9. QED
  BY <1>8 DEF B

(* Where all that comes up to r fits, r is taken. *)
LEMMA ShortPrefixTaken ==
    ASSUME NEW C \in SUBSET Row, IsFiniteSet(C), NEW r \in C,
           NEW n \in Nat, Cardinality(UpTo(C, r)) <= n, n <= MaxBatch,
           NEW m \in Nat, \A e \in Event : Length[e] <= m, n * m < LimitSize
    PROVE  r \in Taken(C)
<1> SUFFICES ASSUME NEW q \in UpTo(C, r)
             PROVE  ~StopsAt(C, q)
  BY DEF Taken
<1> DEFINE U == UpTo(C, q)
<1>1. U \in SUBSET UpTo(C, r) /\ UpTo(C, r) \in SUBSET C /\ UpTo(C, r) \in SUBSET Row
  BY DEF UpTo, Row
<1> HIDE DEF U
<1>2. IsFiniteSet(U) /\ IsFiniteSet(UpTo(C, r)) /\ U \in SUBSET Row
  BY <1>1, FS_Subset
<1>3. Cardinality(U) \in Nat /\ Cardinality(UpTo(C, r)) \in Nat
      /\ Cardinality(U) <= Cardinality(UpTo(C, r))
  BY <1>1, <1>2, FS_Subset, FS_CardinalityType
<1>4. Cardinality(U) <= n
  BY <1>3
<1>5. EventsLength(U) \in Nat /\ EventsLength(U) <= Cardinality(U) * m
  BY <1>2, EventsLengthType, EventsLengthBounded
<1>6. Cardinality(U) * m <= n * m /\ Cardinality(U) * m \in Nat /\ n * m \in Nat
  <2>1. ASSUME NEW i \in Nat, i <= n
        PROVE  i * m <= n * m /\ i * m \in Nat /\ n * m \in Nat
    BY <2>1
  <2>2. QED
    BY <1>3, <1>4, <2>1
<1>7. MaxBatch \in Nat /\ LimitSize \in Nat
  BY StoreAssumption
<1>8. ~ (Cardinality(U) > MaxBatch)
  BY <1>3, <1>4, <1>7
<1>9. ~ (EventsLength(U) >= LimitSize)
  BY <1>5, <1>6, <1>7
<1>10. QED
  BY <1>8, <1>9 DEF StopsAt, U

(***************************************************************************)
(* A batch skips nothing: with a row it has every row before it that the   *)
(* mask lets through as well.                                              *)
(***************************************************************************)
LEMMA BatchIsPrefix ==
    ASSUME NEW rows \in SUBSET Row, NEW mask, NEW k \in GetEvents(rows, mask)
    PROVE  \E r \in rows :
              /\ r.key = k
              /\ \A q \in rows : q.id <= r.id /\ Policy[q.key] = Policy[k]
                                     => q.key \in GetEvents(rows, mask)
<1> DEFINE C == Candidates(rows, mask)
<1>1. GetEvents(rows, mask) = Keys(Taken(C))
  BY BatchIsTaken
<1>2. PICK r \in Taken(C) : r.key = k
  BY <1>1 DEF Keys
<1>3. C \in SUBSET Row /\ r \in C /\ r \in rows
  BY <1>2 DEF Candidates, Taken
<1>4. ASSUME NEW q \in rows, q.id <= r.id, Policy[q.key] = Policy[k]
      PROVE  q \in Taken(C)
  <2>1. q \in C
    BY <1>2, <1>3, <1>4 DEF Candidates
  <2> HIDE DEF C
  <2>2. QED
    BY <1>2, <1>3, <1>4, <2>1, TakenIsPrefix
<1>5. QED
  BY <1>1, <1>2, <1>3, <1>4 DEF Keys

(* A batch holds at most MaxBatch events: its last row did not stop the walk. *)
LEMMA BatchFits ==
    ASSUME NEW rows \in SUBSET Row, IsFiniteSet(rows), NEW mask,
           NEW n \in Nat, \A r \in rows : r.id < n
    PROVE  /\ IsFiniteSet(GetEvents(rows, mask))
           /\ Cardinality(GetEvents(rows, mask)) <= MaxBatch
<1> DEFINE C == Candidates(rows, mask)
           B == Taken(C)
           key == [r \in B |-> r.key]
<1>1. GetEvents(rows, mask) = Keys(B)
  BY BatchIsTaken
<1>2. C \in SUBSET rows /\ B \in SUBSET rows
  BY DEF Candidates, Taken
<1>3. ~ (Cardinality(B) > MaxBatch)
  <2> HIDE DEF C
  <2>1. QED
    BY <1>2, TakenFits
<1> HIDE DEF B
<1>4. IsFiniteSet(B) /\ Cardinality(B) \in Nat /\ MaxBatch \in Nat
  BY <1>2, FS_Subset, FS_CardinalityType, StoreAssumption
<1>5. key \in Surjection(B, Keys(B))
  BY DEF Surjection, Keys
<1>6. IsFiniteSet(Keys(B)) /\ Cardinality(Keys(B)) <= Cardinality(B)
  <2> HIDE DEF key
  <2>1. QED
    BY <1>4, <1>5, FS_Surjection
<1>7. Cardinality(Keys(B)) \in Nat
  BY <1>6, FS_CardinalityType
<1>8. QED
  BY <1>1, <1>3, <1>4, <1>6, <1>7

(***************************************************************************)
(* A batch is the longest prefix of the rows the mask lets through that    *)
(* keeps both limits, in a table with one row for each rowid and key.      *)
(***************************************************************************)
LEMMA BatchIsLongest ==
    ASSUME NEW rows \in SUBSET Row, IsFiniteSet(rows), OneRowEach(rows), NEW mask,
           NEW n \in Nat, \A r \in rows : r.id < n
    PROVE  LET C == Candidates(rows, mask)
               B == {r \in C : r.key \in GetEvents(rows, mask)}
           IN  /\ \A r \in B, q \in C \ B : r.id < q.id
               /\ Cardinality(B) <= MaxBatch
               /\ EventsLength(B) < LimitSize
               /\ \A q \in C \ B :
                     (\A r \in C \ B : q.id <= r.id) =>
                         \/ Cardinality(B) = MaxBatch
                         \/ EventsLength(B) + Length[q.key] >= LimitSize
<1> DEFINE C == Candidates(rows, mask)
           B == {r \in C : r.key \in GetEvents(rows, mask)}
<1>1. C \in SUBSET rows /\ C \in SUBSET Row
  BY DEF Candidates
<1>2. IsFiniteSet(C) /\ OneRowEach(C) /\ \A r \in C : r.id < n
  BY <1>1, FS_Subset DEF OneRowEach
<1>3. GetEvents(rows, mask) = Keys(Taken(C))
  BY BatchIsTaken
<1>4. B = Taken(C)
  <2>1. Taken(C) \in SUBSET C
    BY DEF Taken
  <2>2. \A r \in C, q \in Taken(C) : r.key = q.key => r = q
    BY <1>2, <2>1 DEF OneRowEach
  <2> HIDE DEF C
  <2>3. QED
    BY <1>3, <2>1, <2>2 DEF Keys
<1> HIDE DEF B, C
<1>5. B \in SUBSET C /\ B \in SUBSET Row /\ IsFiniteSet(B)
  BY <1>1, <1>2, <1>4, FS_Subset DEF Taken
<1>6. /\ Cardinality(B) \in Nat /\ MaxBatch \in Nat
      /\ EventsLength(B) \in Nat /\ LimitSize \in Nat
  BY <1>5, FS_CardinalityType, EventsLengthType, StoreAssumption
<1>7. ASSUME NEW r \in B, NEW q \in C \ B
      PROVE  r.id < q.id
  <2>1. ~ (q.id <= r.id)
    BY <1>1, <1>4, <1>7, TakenIsPrefix
  <2>2. q.id \in Nat /\ r.id \in Nat
    BY <1>1, <1>5 DEF Row
  <2>3. QED
    BY <2>1, <2>2
<1>8. ~ (Cardinality(B) > MaxBatch) /\ ~ (EventsLength(B) >= LimitSize)
  BY <1>1, <1>2, <1>4, TakenFits
<1>9. ASSUME NEW q \in C \ B, \A r \in C \ B : q.id <= r.id
      PROVE  \/ Cardinality(B) = MaxBatch
             \/ EventsLength(B) + Length[q.key] >= LimitSize
  <2>1. \/ Cardinality(B) + 1 > MaxBatch
        \/ EventsLength(B) + Length[q.key] >= LimitSize
    BY <1>1, <1>2, <1>4, <1>9, NextIsTooMuch
  <2>2. QED
    BY <1>6, <1>8, <2>1
<1>10. Cardinality(B) <= MaxBatch /\ EventsLength(B) < LimitSize
  BY <1>6, <1>8
<1>11. QED
  BY <1>7, <1>9, <1>10 DEF B, C

=============================================================================
