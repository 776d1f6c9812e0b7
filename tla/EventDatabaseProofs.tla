------------------------- MODULE EventDatabaseProofs -------------------------
(***************************************************************************)
(* Theorems about EventDatabase, for every set of events and every value   *)
(* of its constants.                                                       *)
(***************************************************************************)
EXTENDS EventDatabase, EventStoreProofs

-----------------------------------------------------------------------------
(* The inductive invariant *)

(* The part of a setEvent: call that stores the write and may start a flush. *)
LEMMA AfterSetInv ==
    ASSUME IInv, pc = "idle", NEW s \in Store, s.updates # <<>>, AfterSet(s)
    PROVE  /\ store' \in Store
           /\ pc' \in {"idle", "delete", "insert"}
           /\ drained' \in Seq(Update)
           /\ FlushPhases'
           /\ CacheBelowCount'
<1> USE DEF IInv, TypeOK, FlushPhases, CacheBelowCount
<1>1. s.updates \in Seq(Update) /\ Len(s.updates) \in Nat
  BY DEF Store
<1>2. CASE Len(s.updates) >= AutoFlushCount
  BY <1>1, <1>2, DrainedType DEF AfterSet, BeginFlush
<1>3. CASE ~(Len(s.updates) >= AutoFlushCount)
  <2>1. store' = s /\ pc' = pc /\ drained' = drained
    BY <1>3 DEF AfterSet
  <2>2. Len(s.updates) < AutoFlushCount
    BY <1>1, <1>3, DatabaseAssumption
  <2>3. QED
    BY <2>1, <2>2
<1>4. QED
  BY <1>2, <1>3

(* A call is recorded with one of the names of the database's methods. *)
LEMMA CalledType ==
    ASSUME call \in Call, NEW op \in {"set", "remove", "clear"},
           NEW K \in SUBSET Event, Called(op, K)
    PROVE  call' \in Call
BY DEF Call, Called

LEMMA NextInv == IInv /\ [Next]_vars => IInv'
<1> SUFFICES ASSUME IInv, [Next]_vars
             PROVE  IInv'
  OBVIOUS
<1> USE DEF IInv
<1>a. /\ store \in Store
      /\ store.updates \in Seq(Update)
      /\ store.rows \in SUBSET Row
      /\ drained \in Seq(Update)
      /\ call \in Call
      /\ accepted \in Seq(Event)
      /\ faults \in Nat
      /\ crashes \in Nat
  BY DEF TypeOK, Store
<1>b. /\ {} \in SUBSET InsertArray(drained)
      /\ InsertArray(drained) \in SUBSET InsertArray(drained)
      /\ PartialInserts(drained) \subseteq SUBSET InsertArray(drained)
  BY DEF PartialInserts
<1>c. <<>> \in Seq(Update)
  OBVIOUS
<1>1. ASSUME NEW k \in Event, SetEventForKey(k)
      PROVE  IInv'
  <2>1. SetEvent(store, k) \in Store /\ SetEvent(store, k).updates # <<>>
    BY <1>a, SetEventType
  <2>2. AfterSet(SetEvent(store, k)) /\ pc = "idle"
    BY <1>1 DEF SetEventForKey, Called
  <2>3. accepted' \in Seq(Event) /\ faults' \in Nat /\ crashes' \in Nat
    BY <1>1, <1>a DEF SetEventForKey
  <2>4. call' \in Call
    BY <1>1, <1>a, CalledType DEF SetEventForKey
  <2>5. QED
    BY <2>1, <2>2, <2>3, <2>4, AfterSetInv DEF TypeOK
<1>2. ASSUME NEW k \in Event, SetNilForKey(k)
      PROVE  IInv'
  <2>1. SetEventNil(store, k) \in Store /\ SetEventNil(store, k).updates # <<>>
    BY <1>a, SetEventType
  <2>2. AfterSet(SetEventNil(store, k)) /\ pc = "idle"
    BY <1>2 DEF SetNilForKey, Called
  <2>3. accepted' \in Seq(Event) /\ faults' \in Nat /\ crashes' \in Nat
    BY <1>2, <1>a DEF SetNilForKey
  <2>4. call' \in Call
    BY <1>2, <1>a, CalledType DEF SetNilForKey
  <2>5. QED
    BY <2>1, <2>2, <2>3, <2>4, AfterSetInv DEF TypeOK
<1>3. CASE FlushCache
  BY <1>3, <1>a, DrainedType
  DEF FlushCache, BeginFlush, TypeOK, FlushPhases, CacheBelowCount
<1>4. CASE DeleteTransaction
  <2>1. /\ store' = Write(store, drained, RemoveArray(drained), {})
        /\ pc = "delete" /\ pc' = "insert" /\ drained' = drained
        /\ UNCHANGED <<call, accepted, faults, crashes>>
    BY <1>4 DEF DeleteTransaction
  <2>2. store' \in Store /\ store'.updates = <<>>
    BY <2>1, <1>a, <1>b, WriteType, WriteUpdates DEF FlushPhases
  <2>3. Keys(store'.rows) \cap RemoveArray(drained) = {}
    <3>1. Keys(Write(store, drained, RemoveArray(drained), {}).rows)
             = (Keys(store.rows) \ RemoveArray(drained)) \cup KeysAt(drained, {})
      BY <1>a, WriteKeys
    <3>2. QED
      BY <2>1, <3>1, KeysAtNone
  <2>4. QED
    BY <2>1, <2>2, <2>3, <1>a DEF TypeOK, FlushPhases, CacheBelowCount
<1>5. CASE DeleteFails
  <2>1. PICK K \in PartialDeletes(drained) : store' = Write(store, drained, K, {})
    BY <1>5 DEF DeleteFails
  <2>2. store' \in Store /\ store'.updates = <<>>
    BY <1>5, <2>1, <1>a, <1>b, WriteType, WriteUpdates DEF FlushPhases, DeleteFails
  <2>3. QED
    BY <1>5, <2>2, <1>a, <1>c DEF DeleteFails, TypeOK, FlushPhases, CacheBelowCount
<1>6. CASE InsertTransaction
  <2>1. store' = Write(store, drained, {}, InsertArray(drained))
    BY <1>6 DEF InsertTransaction
  <2>2. store' \in Store /\ store'.updates = <<>>
    BY <1>6, <2>1, <1>a, <1>b, WriteType, WriteUpdates DEF FlushPhases, InsertTransaction
  <2>3. QED
    BY <1>6, <2>2, <1>a, <1>c DEF InsertTransaction, TypeOK, FlushPhases, CacheBelowCount
<1>7. CASE InsertFails
  <2>1. PICK I \in PartialInserts(drained) : store' = Write(store, drained, {}, I)
    BY <1>7 DEF InsertFails
  <2>2. store' \in Store /\ store'.updates = <<>>
    BY <1>7, <2>1, <1>a, <1>b, WriteType, WriteUpdates DEF FlushPhases, InsertFails
  <2>3. QED
    BY <1>7, <2>2, <1>a, <1>c DEF InsertFails, TypeOK, FlushPhases, CacheBelowCount
<1>8. CASE CrashAndOpen
  <2>1. PICK oldest :
           store' = [Drained(store) EXCEPT !.rows = {r \in @ : r.id > oldest}]
    BY <1>8 DEF CrashAndOpen
  <2>2. store' \in Store /\ store'.updates = <<>>
    BY <2>1, <1>a, DrainedType DEF Store
  <2>3. QED
    BY <1>8, <2>2, <1>a, <1>c DEF CrashAndOpen, TypeOK, FlushPhases, CacheBelowCount
<1>9. CASE ClearAllItems
  <2>1. Flush(store) \in Store /\ Flush(store).updates = <<>>
    <3>1. InsertArray(store.updates) \in SUBSET InsertArray(store.updates)
      OBVIOUS
    <3>2. QED
      BY <3>1, <1>a, DrainedType, WriteType, WriteUpdates DEF Flush
  <2>2. store' \in Store /\ store'.updates = <<>>
    BY <1>9, <2>1 DEF ClearAllItems, Store
  <2>3. call' \in Call
    BY <1>9, <1>a, CalledType DEF ClearAllItems
  <2>4. QED
    BY <1>9, <2>2, <2>3, <1>a
    DEF ClearAllItems, Called, TypeOK, FlushPhases, CacheBelowCount
<1>10. CASE ClearAllItemsFails
  <2>1. store' = Flush(store) \/ store' \in FailedFlushes(store)
    BY <1>10 DEF ClearAllItemsFails
  <2>2. store' \in Store /\ store'.updates = <<>>
    BY <2>1, <1>a, FlushOutcome
  <2>3. call' \in Call
    BY <1>10, <1>a, CalledType DEF ClearAllItemsFails
  <2>4. QED
    BY <1>10, <2>2, <2>3, <1>a
    DEF ClearAllItemsFails, Called, TypeOK, FlushPhases, CacheBelowCount
<1>11. CASE UNCHANGED vars
  BY <1>11 DEF vars, TypeOK, FlushPhases, CacheBelowCount
<1>12. QED
  BY <1>1, <1>2, <1>3, <1>4, <1>5, <1>6, <1>7, <1>8, <1>9, <1>10, <1>11 DEF Next

(* Initially the store is empty and no flush runs. *)
LEMMA InitInv == Init => IInv
<1> SUFFICES ASSUME Init
             PROVE  IInv
  OBVIOUS
<1>1. <<>> \in Seq(Update) /\ <<>> \in Seq(Event)
  OBVIOUS
<1>2. EmptyStore \in Store /\ EmptyStore.updates = <<>>
  BY <1>1 DEF EmptyStore, Store
<1>3. QED
  BY <1>1, <1>2 DEF Init, Call, IInv, TypeOK, FlushPhases, CacheBelowCount

(* The inductive invariant holds in every state of every behaviour. *)
THEOREM Invariance == Spec => []IInv
<1>1. Init => IInv
  BY InitInv
<1>2. IInv /\ [Next]_vars => IInv'
  BY NextInv
<1>3. QED
  BY <1>1, <1>2, PTL DEF Spec

(* GrowingEventDatabase's cache, table and flush state keep their types. *)
THEOREM TypeCorrect == Spec => []TypeOK
<1>1. IInv => TypeOK
  BY DEF IInv
<1>2. QED
  BY <1>1, Invariance, PTL


-----------------------------------------------------------------------------
(* Refinement of WriteBehindMap *)

LEMMA KeysAreEvents ==
    ASSUME TypeOK
    PROVE  Keys(store.rows) \subseteq Event
BY DEF TypeOK, Store, Row, Keys

(* With nothing pending, the owner sees the table. *)
LEMMA MemIdle ==
    ASSUME store.updates = <<>>, drained = <<>>
    PROVE  Mem = Keys(store.rows)
BY ApplyEmpty DEF Mem

(***************************************************************************)
(* Handing the cache to a flush changes neither the table nor what the     *)
(* owner sees; s is the store the flush finds.                             *)
(***************************************************************************)
LEMMA AfterSetMem ==
    ASSUME IInv, pc = "idle", NEW s \in Store, s.rows = store.rows,
           AfterSet(s) \/ BeginFlush(s)
    PROVE  /\ Keys(store'.rows) = Keys(store.rows)
           /\ Mem' = Apply(s.updates, Keys(store.rows))
<1>1. drained = <<>>
  BY DEF IInv, FlushPhases
<1>2. CASE store' = s /\ drained' = drained
  BY <1>1, <1>2, ApplyEmpty DEF Mem
<1>3. CASE store' = Drained(s) /\ drained' = s.updates
  <2>1. store'.updates = <<>> /\ store'.rows = store.rows
    BY <1>3, DrainedType
  <2>2. QED
    BY <1>3, <2>1, ApplyEmpty DEF Mem
<1>4. QED
  BY <1>2, <1>3 DEF AfterSet, BeginFlush

(* A delete or an insert that only went part of the way, or all of it. *)
LEMMA WriteBetween ==
    ASSUME NEW u \in Seq(Update), NEW D,
           NEW K \in SUBSET RemoveArray(u), NEW I \in SUBSET InsertArray(u)
    PROVE  /\ D \cap Apply(u, D) \subseteq (D \ K) \cup KeysAt(u, I)
           /\ (D \ K) \cup KeysAt(u, I) \subseteq D \cup Apply(u, D)
<1>1. K \cap KeysAt(u, InsertArray(u)) = {}
  BY RemoveInsertDisjoint
<1>2. KeysAt(u, I) \subseteq KeysAt(u, InsertArray(u))
  BY DEF KeysAt
<1>3. QED
  BY <1>1, <1>2 DEF Apply

(* The table a flush leaves, whole or failed, lies between the old one and the mapping. *)
LEMMA FlushBetween ==
    ASSUME NEW s \in Store, NEW t, t = Flush(s) \/ t \in FailedFlushes(s)
    PROVE  /\ t.updates = <<>>
           /\ Keys(s.rows) \cap Apply(s.updates, Keys(s.rows)) \subseteq Keys(t.rows)
           /\ Keys(t.rows) \subseteq Keys(s.rows) \cup Apply(s.updates, Keys(s.rows))
<1>1. PICK K \in SUBSET RemoveArray(s.updates), I \in SUBSET InsertArray(s.updates) :
         /\ t \in Store
         /\ t.updates = <<>>
         /\ Keys(t.rows) = (Keys(s.rows) \ K) \cup KeysAt(s.updates, I)
  BY FlushKeys
<1>2. s.updates \in Seq(Update)
  BY DEF Store
<1>3. QED
  BY <1>1, <1>2, WriteBetween

(* Each step of the cache and of its flush is a step of the write-behind map. *)
LEMMA NextRefines == IInv /\ [Next]_vars => [WBM!Next]_WBM!vars
<1> SUFFICES ASSUME IInv, [Next]_vars
             PROVE  [WBM!Next]_WBM!vars
  OBVIOUS
<1> DEFINE D == Keys(store.rows)
<1>a. /\ store \in Store
      /\ store.updates \in Seq(Update)
      /\ drained \in Seq(Update)
      /\ faults \in Nat
      /\ FlushPhases
      /\ TypeOK
  BY DEF IInv, TypeOK, Store
<1>b. /\ {} \in SUBSET InsertArray(drained)
      /\ {} \in SUBSET RemoveArray(drained)
      /\ InsertArray(drained) \in SUBSET InsertArray(drained)
      /\ PartialInserts(drained) \subseteq SUBSET InsertArray(drained)
      /\ PartialDeletes(drained) \subseteq SUBSET RemoveArray(drained)
  BY DEF PartialInserts, PartialDeletes, RemoveArray, Nulls, KeysAt
<1>c. pc # "idle" => Mem = Apply(drained, D) /\ store.updates = <<>>
  BY <1>a, ApplyEmpty DEF Mem, FlushPhases
<1>d. pc = "idle" => Mem = Apply(store.updates, D)
  BY <1>a, ApplyEmpty DEF Mem, FlushPhases
<1>1. ASSUME NEW k \in Event, SetEventForKey(k)
      PROVE  WBM!Put(k)
  <2> DEFINE s == SetEvent(store, k)
             w == [key |-> k, null |-> FALSE]
  <2>1. s \in Store /\ s.rows = store.rows /\ s.updates = Append(store.updates, w)
    BY <1>a, SetEventType
  <2>2. pc = "idle" /\ AfterSet(s) /\ UNCHANGED <<faults, crashes>>
        /\ call' = [n |-> call.n + 1, op |-> "set", events |-> {k}]
    BY <1>1 DEF SetEventForKey, Called
  <2>3. w \in Update /\ w.key = k /\ w.null = FALSE
    BY DEF Update
  <2>4. Keys(store'.rows) = D /\ Mem' = Apply(s.updates, D)
    <3> HIDE DEF s
    <3>1. QED
      BY <2>1, <2>2, AfterSetMem
  <2>5. Apply(s.updates, D) = Apply(store.updates, D) \cup {k}
    <3> HIDE DEF s, w
    <3>1. QED
      BY <2>1, <2>3, <1>a, ApplyAppend
  <2>6. QED
    BY <2>2, <2>4, <2>5, <1>d DEF WBM!Put, WBM!Called
<1>2. ASSUME NEW k \in Event, SetNilForKey(k)
      PROVE  WBM!Remove(k)
  <2> DEFINE s == SetEventNil(store, k)
             w == [key |-> k, null |-> TRUE]
  <2>1. s \in Store /\ s.rows = store.rows /\ s.updates = Append(store.updates, w)
    BY <1>a, SetEventType
  <2>2. pc = "idle" /\ AfterSet(s) /\ UNCHANGED <<faults, crashes>>
        /\ call' = [n |-> call.n + 1, op |-> "remove", events |-> {k}]
    BY <1>2 DEF SetNilForKey, Called
  <2>3. w \in Update /\ w.key = k /\ w.null = TRUE
    BY DEF Update
  <2>4. Keys(store'.rows) = D /\ Mem' = Apply(s.updates, D)
    <3> HIDE DEF s
    <3>1. QED
      BY <2>1, <2>2, AfterSetMem
  <2>5. Apply(s.updates, D) = Apply(store.updates, D) \ {k}
    <3> HIDE DEF s, w
    <3>1. QED
      BY <2>1, <2>3, <1>a, ApplyAppend
  <2>6. QED
    BY <2>2, <2>4, <2>5, <1>d DEF WBM!Remove, WBM!Called
<1>3. CASE FlushCache
  <2>1. pc = "idle" /\ BeginFlush(store) /\ UNCHANGED <<call, faults, crashes>>
    BY <1>3 DEF FlushCache
  <2>2. Keys(store'.rows) = D /\ Mem' = Apply(store.updates, D)
    BY <2>1, <1>a, AfterSetMem
  <2>3. QED
    BY <2>1, <2>2, <1>d DEF WBM!vars
<1>4. CASE DeleteTransaction
  <2>1. /\ store' = Write(store, drained, RemoveArray(drained), {})
        /\ pc = "delete" /\ drained' = drained /\ UNCHANGED <<call, faults, crashes>>
    BY <1>4 DEF DeleteTransaction
  <2>2. /\ Keys(store'.rows) = D \ RemoveArray(drained)
        /\ store'.updates = <<>>
    <3>1. Keys(store'.rows) = (Keys(store.rows) \ RemoveArray(drained)) \cup KeysAt(drained, {})
      BY <2>1, <1>a, WriteKeys
    <3>2. QED
      BY <2>1, <3>1, <1>a, <1>c, KeysAtNone, WriteUpdates
  <2>3. Mem' = Apply(drained, Keys(store'.rows))
    BY <2>1, <2>2, ApplyEmpty DEF Mem
  <2>4. Mem' = Mem
    <3>1. /\ Mem' = Apply(drained, D \ RemoveArray(drained))
          /\ Mem = Apply(drained, D)
      BY <2>1, <2>2, <2>3, <1>c
    <3>2. QED
      BY <3>1, <1>a, RemoveInsertDisjoint DEF Apply
  <2>5. /\ D \cap Mem \subseteq Keys(store'.rows)
        /\ Keys(store'.rows) \subseteq D \cup Mem
    <3>1. /\ Keys(store'.rows) = D \ RemoveArray(drained)
          /\ Mem = Apply(drained, D)
      BY <2>1, <2>2, <1>c
    <3>2. QED
      BY <3>1, <1>a, RemoveInsertDisjoint DEF Apply
  <2>6. QED
    BY <2>1, <2>4, <2>5 DEF WBM!Next, WBM!Persist, WBM!Between
<1>5. CASE DeleteFails
  <2>1. PICK K \in PartialDeletes(drained) : store' = Write(store, drained, K, {})
    BY <1>5 DEF DeleteFails
  <2>2. pc = "delete" /\ drained' = <<>> /\ faults' = faults + 1
        /\ UNCHANGED <<call, crashes>>
    BY <1>5 DEF DeleteFails
  <2>3. Keys(store'.rows) = (Keys(store.rows) \ K) \cup KeysAt(drained, {})
    BY <2>1, <1>a, WriteKeys
  <2>4. store'.updates = <<>>
    BY <2>1, <2>2, <1>a, <1>c, WriteUpdates
  <2>5. Mem' = Keys(store'.rows)
    BY <2>2, <2>4, ApplyEmpty DEF Mem
  <2>6. /\ D \cap Mem \subseteq Keys(store'.rows)
        /\ Keys(store'.rows) \subseteq D \cup Mem
    <3>1. K \in SUBSET RemoveArray(drained) /\ {} \in SUBSET InsertArray(drained)
      BY <2>1, <1>b
    <3>2. /\ D \cap Apply(drained, D) \subseteq (D \ K) \cup KeysAt(drained, {})
          /\ (D \ K) \cup KeysAt(drained, {}) \subseteq D \cup Apply(drained, D)
      BY <3>1, <1>a, WriteBetween
    <3>3. QED
      BY <2>2, <2>3, <3>2, <1>c
  <2>7. QED
    BY <2>2, <2>5, <2>6 DEF WBM!Next, WBM!Fail, WBM!Between
<1>6. CASE InsertTransaction
  <2>1. /\ store' = Write(store, drained, {}, InsertArray(drained))
        /\ pc = "insert" /\ drained' = <<>> /\ UNCHANGED <<call, faults, crashes>>
    BY <1>6 DEF InsertTransaction
  <2>2. /\ Keys(store'.rows) = (D \ {}) \cup KeysAt(drained, InsertArray(drained))
        /\ store'.updates = <<>>
    BY <2>1, <1>a, <1>c, WriteKeys, WriteUpdates
  <2>3. Mem' = Keys(store'.rows)
    BY <2>1, <2>2, ApplyEmpty DEF Mem
  <2>4. D \cap RemoveArray(drained) = {}
    BY <2>1, <1>a DEF FlushPhases
  <2>5. Mem' = Mem
    BY <2>1, <2>2, <2>3, <2>4, <1>c DEF Apply
  <2>6. QED
    BY <2>1, <2>3, <2>5 DEF WBM!Next, WBM!Persist, WBM!Between
<1>7. CASE InsertFails
  <2>1. PICK I \in PartialInserts(drained) : store' = Write(store, drained, {}, I)
    BY <1>7 DEF InsertFails
  <2>2. pc = "insert" /\ drained' = <<>> /\ faults' = faults + 1
        /\ UNCHANGED <<call, crashes>>
    BY <1>7 DEF InsertFails
  <2>3. Keys(store'.rows) = (Keys(store.rows) \ {}) \cup KeysAt(drained, I)
    <3>1. \A K : Keys(Write(store, drained, K, I).rows)
                     = (Keys(store.rows) \ K) \cup KeysAt(drained, I)
      BY <1>a, WriteKeys
    <3>2. QED
      BY <2>1, <3>1
  <2>4. store'.updates = <<>>
    BY <2>1, <2>2, <1>a, <1>c, WriteUpdates
  <2>5. Mem' = Keys(store'.rows)
    BY <2>2, <2>4, ApplyEmpty DEF Mem
  <2>6. /\ D \cap Mem \subseteq Keys(store'.rows)
        /\ Keys(store'.rows) \subseteq D \cup Mem
    <3>1. {} \in SUBSET RemoveArray(drained) /\ I \in SUBSET InsertArray(drained)
      BY <2>1, <1>b
    <3>2. /\ D \cap Apply(drained, D) \subseteq (D \ {}) \cup KeysAt(drained, I)
          /\ (D \ {}) \cup KeysAt(drained, I) \subseteq D \cup Apply(drained, D)
      BY <3>1, <1>a, WriteBetween
    <3>3. QED
      BY <2>2, <2>3, <3>2, <1>c
  <2>7. QED
    BY <2>2, <2>5, <2>6 DEF WBM!Next, WBM!Fail, WBM!Between
<1>8. CASE CrashAndOpen
  <2>1. PICK oldest :
           store' = [Drained(store) EXCEPT !.rows = {r \in @ : r.id > oldest}]
    BY <1>8 DEF CrashAndOpen
  <2>2. drained' = <<>> /\ crashes' = crashes + 1 /\ UNCHANGED <<call, faults>>
    BY <1>8 DEF CrashAndOpen
  <2>3. store'.updates = <<>> /\ store'.rows \subseteq store.rows
    BY <2>1, <1>a, DrainedType DEF Store
  <2>4. Mem' = Keys(store'.rows)
    BY <2>2, <2>3, ApplyEmpty DEF Mem
  <2>5. Keys(store'.rows) \in SUBSET D
    BY <2>3 DEF Keys
  <2>6. QED
    BY <2>2, <2>4, <2>5 DEF WBM!Next, WBM!Restart
<1>9. CASE ClearAllItems
  <2>1. /\ store' = [Flush(store) EXCEPT !.rows = {}]
        /\ pc = "idle" /\ drained' = drained /\ UNCHANGED <<faults, crashes>>
        /\ call' = [n |-> call.n + 1, op |-> "clear", events |-> {}]
    BY <1>9 DEF ClearAllItems, Called
  <2>2. Flush(store) \in Store /\ Flush(store).updates = <<>>
    <3>1. InsertArray(store.updates) \in SUBSET InsertArray(store.updates)
      OBVIOUS
    <3>2. QED
      BY <3>1, <1>a, DrainedType, WriteType, WriteUpdates DEF Flush
  <2>3. store'.updates = <<>> /\ store'.rows = {}
    BY <2>1, <2>2 DEF Store
  <2>4. drained' = <<>>
    BY <2>1, <1>a DEF FlushPhases
  <2>5. Keys(store'.rows) = {}
    BY <2>3 DEF Keys
  <2>6. Mem' = {}
    BY <2>3, <2>4, <2>5, ApplyEmpty DEF Mem
  <2>7. QED
    BY <2>1, <2>5, <2>6 DEF WBM!Next, WBM!Clear, WBM!Called
<1>10. CASE ClearAllItemsFails
  <2>1. /\ store' = Flush(store) \/ store' \in FailedFlushes(store)
        /\ pc = "idle" /\ drained' = drained
        /\ faults' = faults + 1 /\ UNCHANGED crashes
        /\ call' = [n |-> call.n + 1, op |-> "clear", events |-> {}]
    BY <1>10 DEF ClearAllItemsFails, Called
  <2>2. /\ store'.updates = <<>>
        /\ Keys(store.rows) \cap Apply(store.updates, Keys(store.rows)) \subseteq Keys(store'.rows)
        /\ Keys(store'.rows) \subseteq Keys(store.rows) \cup Apply(store.updates, Keys(store.rows))
    BY <2>1, <1>a, FlushBetween
  <2>3. Mem' = Keys(store'.rows)
    BY <2>1, <2>2, <1>a, ApplyEmpty DEF Mem, FlushPhases
  <2>4. /\ D \cap Mem \subseteq Keys(store'.rows)
        /\ Keys(store'.rows) \subseteq D \cup Mem
    BY <2>1, <2>2, <1>d
  <2>5. QED
    BY <2>1, <2>3, <2>4 DEF WBM!Next, WBM!ClearFails, WBM!Called, WBM!Between
<1>11. CASE UNCHANGED vars
  BY <1>11 DEF vars, WBM!vars, Mem
<1>12. QED
  BY <1>1, <1>2, <1>3, <1>4, <1>5, <1>6, <1>7, <1>8, <1>9, <1>10, <1>11 DEF Next, WBM!Next

(***************************************************************************)
(* GrowingEventDatabase implements the write-behind map: for any events,   *)
(* any flush threshold and any number of failed writes and restarts.       *)
(***************************************************************************)
THEOREM Refines == Spec => Refinement
<1>1. Init => WBM!Init
  BY ApplyEmpty DEF Init, EmptyStore, Mem, Keys, WBM!Init
<1>2. IInv /\ [Next]_vars => [WBM!Next]_WBM!vars
  BY NextRefines
<1>3. QED
  BY <1>1, <1>2, Invariance, PTL DEF Spec, Refinement, WBM!Spec

(***************************************************************************)
(* What an end of the process may cost: the writes still in the cache, of  *)
(* which there are fewer than autoFlushCount, none when that count is 0.   *)
(***************************************************************************)
THEOREM LossIsBounded == Spec => []BoundedLoss
<1>1. IInv => BoundedLoss
  <2> SUFFICES ASSUME IInv, pc = "idle"
               PROVE  LET atRisk == Mem \ Keys(store.rows)
                      IN  atRisk = {} \/ Cardinality(atRisk) < AutoFlushCount
    BY DEF BoundedLoss
  <2> DEFINE u == store.updates
             atRisk == Mem \ Keys(store.rows)
             key == [i \in DOMAIN u |-> u[i].key]
             written == KeysAt(u, DOMAIN u)
  <2>1. /\ u \in Seq(Update)
        /\ drained = <<>>
        /\ u = <<>> \/ Len(u) < AutoFlushCount
    BY DEF IInv, TypeOK, Store, FlushPhases, CacheBelowCount
  <2>2. Mem = Apply(u, Keys(store.rows))
    BY <2>1, ApplyEmpty DEF Mem
  <2>3. CASE u = <<>>
    BY <2>2, <2>3, ApplyEmpty
  <2>4. CASE Len(u) < AutoFlushCount
    <3>1. atRisk \subseteq written
      BY <2>2, InsertArrayFinite, <2>1 DEF Apply, KeysAt
    <3>2. /\ IsFiniteSet(DOMAIN u)
          /\ Cardinality(DOMAIN u) = Len(u)
          /\ Len(u) \in Nat
      <4>1. DOMAIN u = 1..Len(u) /\ Len(u) \in Nat
        BY <2>1
      <4>2. QED
        BY <4>1, FS_Interval
    <3>3. key \in Surjection(DOMAIN u, written)
      BY DEF Surjection, KeysAt
    <3> HIDE DEF u, atRisk, key, written
    <3>4. IsFiniteSet(written) /\ Cardinality(written) <= Len(u)
      BY <3>2, <3>3, FS_Surjection
    <3>5. /\ Cardinality(atRisk) <= Cardinality(written)
          /\ Cardinality(atRisk) \in Nat
          /\ Cardinality(written) \in Nat
      BY <3>1, <3>4, FS_Subset, FS_CardinalityType
    <3>6. Cardinality(atRisk) < AutoFlushCount
      BY <2>4, <3>2, <3>4, <3>5, DatabaseAssumption
    <3>7. QED
      BY <3>6 DEF atRisk
  <2>5. QED
    BY <2>1, <2>3, <2>4
<1>2. QED
  BY <1>1, Invariance, PTL

-----------------------------------------------------------------------------
(* The order of the rows *)

(***************************************************************************)
(* The table is in the order of the calls, and what is still to be written *)
(* to it, in the cache or by the flush under way, comes after its rows.    *)
(***************************************************************************)
OrderInv ==
    /\ OnceEach(accepted)
    /\ OrderedRows(accepted, store)
    /\ OrderedUpdates(accepted, store.rows, store.updates)
    /\ OrderedUpdates(accepted, store.rows, drained)

(* Storing a write, and the drain it may start, leave the rows alone. *)
LEMMA AfterSetOrder ==
    ASSUME NEW s \in Store, AfterSet(s) \/ BeginFlush(s), pc = "idle", drained = <<>>,
           NEW acc, OrderedRows(acc, s), OrderedUpdates(acc, s.rows, s.updates)
    PROVE  /\ OrderedRows(acc, store')
           /\ OrderedUpdates(acc, store'.rows, store'.updates)
           /\ OrderedUpdates(acc, store'.rows, drained')
<1>1. CASE store' = s /\ drained' = drained
  BY <1>1, OrderOfNothing
<1>2. CASE store' = Drained(s) /\ drained' = s.updates
  <2>1. /\ store'.rows = s.rows
        /\ store'.nextId = s.nextId
        /\ store'.updates = <<>>
    BY <1>2, DrainedType
  <2>2. QED
    BY <1>2, <2>1, OrderOfNothing DEF OrderedRows
<1>3. QED
  BY <1>1, <1>2 DEF AfterSet, BeginFlush

(* A delete transaction, whole or stopped half-way, keeps the rest in order. *)
LEMMA DeletionOrder ==
    ASSUME IInv, OrderInv, \E K : store' = Write(store, drained, K, {})
    PROVE  /\ OrderedRows(accepted, store')
           /\ OrderedUpdates(accepted, store'.rows, store'.updates)
           /\ OrderedUpdates(accepted, store'.rows, drained)
<1>1. PICK K : store' = Write(store, drained, K, {})
  OBVIOUS
<1>2. store \in Store /\ drained \in Seq(Update) /\ {} \in SUBSET InsertArray(drained)
  BY DEF IInv, TypeOK
<1>3. store' \in Store /\ store'.updates = store.updates
  BY <1>1, <1>2, WriteType, WriteUpdates
<1>4. store'.rows \subseteq store.rows /\ store'.nextId = store.nextId
  <2>1. /\ store'.rows = DeleteEvents(store.rows, K) \cup NewRows(drained, {}, store.nextId)
        /\ store'.nextId = store.nextId + Cardinality({})
    BY <1>1, <1>2 DEF Write, Store
  <2>2. Cardinality({}) = 0 /\ store.nextId \in Nat
    BY <1>2, FS_EmptySet DEF Store
  <2>3. NewRows(drained, {}, store.nextId) = {} /\ DeleteEvents(store.rows, K) \subseteq store.rows
    BY DEF NewRows, DeleteEvents
  <2>4. QED
    BY <2>1, <2>2, <2>3
<1>5. QED
  BY <1>2, <1>3, <1>4, OrderKeptBySubset DEF OrderInv

LEMMA NextOrder == IInv /\ OrderInv /\ [Next]_vars => OrderInv'
<1> SUFFICES ASSUME IInv, OrderInv, [Next]_vars
             PROVE  OrderInv'
  OBVIOUS
<1>a. /\ store \in Store
      /\ drained \in Seq(Update)
      /\ accepted \in Seq(Event)
      /\ FlushPhases
  BY DEF IInv, TypeOK
<1>b. /\ OnceEach(accepted)
      /\ OrderedRows(accepted, store)
      /\ OrderedUpdates(accepted, store.rows, store.updates)
      /\ OrderedUpdates(accepted, store.rows, drained)
  BY DEF OrderInv
<1>c. DOMAIN accepted \subseteq Nat
  BY <1>a
<1>1. ASSUME NEW k \in Event, SetEventForKey(k)
      PROVE  OrderInv'
  <2> DEFINE s == SetEvent(store, k)
             acc == Append(accepted, k)
  <2>1. /\ pc = "idle" /\ drained = <<>>
        /\ AfterSet(s)
        /\ \A i \in DOMAIN accepted : accepted[i] # k
        /\ accepted' = acc
    BY <1>1, <1>a DEF SetEventForKey, Called, FlushPhases, Accepted
  <2>2. s \in Store /\ s.rows = store.rows /\ s.nextId = store.nextId
    <3>1. s \in Store /\ s.rows = store.rows
      BY <1>a, SetEventType
    <3>2. s.nextId = store.nextId
      BY <1>a DEF SetEvent, Store
    <3>3. QED
      BY <3>1, <3>2
  <2>3. /\ OnceEach(acc)
        /\ OrderedRows(acc, store)
        /\ OrderedUpdates(acc, store.rows, s.updates)
    BY <1>a, <1>b, <2>1, OrderKeptByAccept
  <2>4. OrderedRows(acc, s) /\ OrderedUpdates(acc, s.rows, s.updates)
    BY <2>2, <2>3 DEF OrderedRows
  <2> HIDE DEF s, acc
  <2>5. QED
    BY <2>1, <2>2, <2>3, <2>4, AfterSetOrder DEF OrderInv
<1>2. ASSUME NEW k \in Event, SetNilForKey(k)
      PROVE  OrderInv'
  <2> DEFINE s == SetEventNil(store, k)
  <2>1. /\ pc = "idle" /\ drained = <<>>
        /\ AfterSet(s)
        /\ accepted' = accepted
    BY <1>2, <1>a DEF SetNilForKey, Called, FlushPhases
  <2>2. s \in Store /\ s.rows = store.rows /\ s.nextId = store.nextId
    <3>1. s \in Store /\ s.rows = store.rows
      BY <1>a, SetEventType
    <3>2. s.nextId = store.nextId
      BY <1>a DEF SetEventNil, Store
    <3>3. QED
      BY <3>1, <3>2
  <2>3. OrderedRows(accepted, s) /\ OrderedUpdates(accepted, s.rows, s.updates)
    BY <1>a, <1>b, <2>2, OrderKeptByNil DEF OrderedRows
  <2> HIDE DEF s
  <2>4. QED
    BY <1>b, <2>1, <2>2, <2>3, AfterSetOrder DEF OrderInv
<1>3. CASE FlushCache
  <2>1. pc = "idle" /\ drained = <<>> /\ BeginFlush(store) /\ accepted' = accepted
    BY <1>3, <1>a DEF FlushCache, FlushPhases
  <2>2. QED
    BY <1>a, <1>b, <2>1, AfterSetOrder DEF OrderInv
<1>4. CASE DeleteTransaction
  <2>1. /\ store' = Write(store, drained, RemoveArray(drained), {})
        /\ UNCHANGED <<drained, accepted>>
    BY <1>4 DEF DeleteTransaction
  <2>2. \E K : store' = Write(store, drained, K, {})
    BY <2>1
  <2>3. QED
    BY <1>a, <1>b, <2>1, <2>2, DeletionOrder DEF OrderInv
<1>5. CASE DeleteFails
  <2>1. /\ \E K : store' = Write(store, drained, K, {})
        /\ drained' = <<>> /\ accepted' = accepted
    BY <1>5 DEF DeleteFails
  <2>2. QED
    BY <1>a, <1>b, <2>1, DeletionOrder, OrderOfNothing DEF OrderInv
<1>6. CASE InsertTransaction \/ InsertFails
  <2>1. /\ drained' = <<>> /\ accepted' = accepted /\ store.updates = <<>>
        /\ \E I \in SUBSET InsertArray(drained) : store' = Write(store, drained, {}, I)
    BY <1>6, <1>a DEF InsertTransaction, InsertFails, PartialInserts, FlushPhases
  <2>2. PICK I \in SUBSET InsertArray(drained) : store' = Write(store, drained, {}, I)
    BY <2>1
  <2>3. OrderedRows(accepted, store')
    <3>1. \A K : OrderedRows(accepted, Write(store, drained, K, I))
      BY <1>a, <1>b, <1>c, OrderKeptByWrite
    <3>2. QED
      BY <2>2, <3>1
  <2>4. store'.updates = <<>>
    BY <2>1, <2>2, <1>a, WriteUpdates
  <2>5. QED
    BY <1>b, <2>1, <2>3, <2>4, OrderOfNothing DEF OrderInv
<1>7. CASE CrashAndOpen
  <2>1. PICK oldest :
           store' = [Drained(store) EXCEPT !.rows = {r \in @ : r.id > oldest}]
    BY <1>7 DEF CrashAndOpen
  <2>2. /\ store' \in Store
        /\ store'.rows \subseteq store.rows
        /\ store'.nextId = store.nextId
        /\ store'.updates = <<>>
    BY <2>1, <1>a, DrainedType DEF Store
  <2>3. drained' = <<>> /\ accepted' = accepted
    BY <1>7 DEF CrashAndOpen
  <2>4. QED
    BY <1>a, <1>b, <2>2, <2>3, OrderKeptBySubset, OrderOfNothing DEF OrderInv
<1>8. CASE ClearAllItems
  <2>1. /\ store' = [Flush(store) EXCEPT !.rows = {}]
        /\ drained' = drained /\ accepted' = accepted /\ drained = <<>>
    BY <1>8, <1>a DEF ClearAllItems, Called, FlushPhases
  <2>2. Flush(store) \in Store /\ Flush(store).updates = <<>>
    BY <1>a, FlushOutcome
  <2>3. store'.rows = {} /\ store'.updates = <<>>
    BY <2>1, <2>2 DEF Store
  <2>4. OrderedRows(accepted, store')
    BY <2>3 DEF OrderedRows
  <2>5. QED
    BY <1>b, <2>1, <2>3, <2>4, OrderOfNothing DEF OrderInv
<1>9. CASE ClearAllItemsFails
  <2>1. /\ store' = Flush(store) \/ store' \in FailedFlushes(store)
        /\ drained' = drained /\ accepted' = accepted /\ drained = <<>>
    BY <1>9, <1>a DEF ClearAllItemsFails, Called, FlushPhases
  <2>2. store'.updates = <<>>
    BY <2>1, <1>a, FlushOutcome
  <2>3. OrderedRows(accepted, store')
    BY <2>1, <1>a, <1>b, <1>c, OrderKeptByFlush
  <2>4. QED
    BY <1>b, <2>1, <2>2, <2>3, OrderOfNothing DEF OrderInv
<1>10. CASE UNCHANGED vars
  BY <1>10, <1>b DEF vars, OrderInv
<1>11. QED
  BY <1>1, <1>2, <1>3, <1>4, <1>5, <1>6, <1>7, <1>8, <1>9, <1>10 DEF Next

(***************************************************************************)
(* The rows of a table are in the order in which the events were set,      *)
(* whatever flushes failed and whenever the process ended in between.      *)
(***************************************************************************)
THEOREM RowsStayInOrder == Spec => []RowsInOrder
<1>1. Init => OrderInv
  BY DEF Init, EmptyStore, OrderInv, OnceEach, OrderedRows, OrderedUpdates
<1>2. OrderInv => RowsInOrder
  BY DEF OrderInv, OrderedRows, RowsInOrder
<1>3. QED
  BY <1>1, <1>2, NextOrder, Invariance, PTL DEF Spec

(***************************************************************************)
(* The batch that getEventsByCount: reads in any reachable state is the    *)
(* longest prefix of the rows the mask lets through that keeps the count   *)
(* and the size limit: it skips nothing and stops as late as it can.       *)
(***************************************************************************)
THEOREM BatchesAreLongest == Spec => []BatchIsLongestPrefix
<1>1. Init => OrderInv
  BY DEF Init, EmptyStore, OrderInv, OnceEach, OrderedRows, OrderedUpdates
<1>2. IInv /\ OrderInv => BatchIsLongestPrefix
  <2> SUFFICES ASSUME IInv, OrderInv
               PROVE  BatchIsLongestPrefix
    OBVIOUS
  <2>1. store \in Store /\ store.rows \in SUBSET Row /\ store.nextId \in Nat
    BY DEF IInv, TypeOK, Store
  <2>2. DOMAIN accepted \subseteq Nat
    BY DEF IInv, TypeOK
  <2>3. OrderedRows(accepted, store) /\ \A r \in store.rows : r.id < store.nextId
    BY DEF OrderInv, OrderedRows
  <2>4. IsFiniteSet(store.rows) /\ OneRowEach(store.rows)
    BY <2>1, <2>2, <2>3, OrderedRowsFinite, OrderedRowsDistinct
  <2>5. QED
    BY <2>1, <2>3, <2>4, BatchIsLongest DEF BatchIsLongestPrefix
<1>3. QED
  BY <1>1, <1>2, NextOrder, Invariance, PTL DEF Spec

=============================================================================
