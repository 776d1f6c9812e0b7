------------------------- MODULE EventManagerProofs -------------------------
(***************************************************************************)
(* Theorems about EventManager, for any events, channels and bounds: no    *)
(* event leaves the database before the server has it.                     *)
(***************************************************************************)
EXTENDS EventManager, EventStoreProofs, SequenceTheorems

(***************************************************************************)
(* How flushes, failed or not, may turn the databases d into e: caches     *)
(* shrink, tables gain only what left the caches and lose only what a      *)
(* cache removes.                                                          *)
(***************************************************************************)
Evolves(d, e) ==
    /\ e \in [Channel -> Store]
    /\ \A c \in Channel :
          /\ Sets(e[c].updates) \subseteq Sets(d[c].updates)
          /\ Removes(e[c].updates) \subseteq Removes(d[c].updates)
          /\ Keys(e[c].rows) \subseteq
                Keys(d[c].rows) \cup (Sets(d[c].updates) \ Sets(e[c].updates))
          /\ Keys(d[c].rows) \ Removes(d[c].updates) \subseteq Keys(e[c].rows)

LEMMA EvolvesReflexive ==
    ASSUME NEW d \in [Channel -> Store]
    PROVE  Evolves(d, d)
BY DEF Evolves

LEMMA EvolvesTransitive ==
    ASSUME NEW d, NEW e, NEW f, Evolves(d, e), Evolves(e, f)
    PROVE  Evolves(d, f)
<1> SUFFICES ASSUME NEW c \in Channel
             PROVE  /\ Sets(f[c].updates) \subseteq Sets(d[c].updates)
                    /\ Removes(f[c].updates) \subseteq Removes(d[c].updates)
                    /\ Keys(f[c].rows) \subseteq
                          Keys(d[c].rows) \cup (Sets(d[c].updates) \ Sets(f[c].updates))
                    /\ Keys(d[c].rows) \ Removes(d[c].updates) \subseteq Keys(f[c].rows)
  BY DEF Evolves
<1>1. /\ Sets(e[c].updates) \subseteq Sets(d[c].updates)
      /\ Removes(e[c].updates) \subseteq Removes(d[c].updates)
      /\ Keys(e[c].rows) \subseteq
            Keys(d[c].rows) \cup (Sets(d[c].updates) \ Sets(e[c].updates))
      /\ Keys(d[c].rows) \ Removes(d[c].updates) \subseteq Keys(e[c].rows)
  BY DEF Evolves
<1>2. /\ Sets(f[c].updates) \subseteq Sets(e[c].updates)
      /\ Removes(f[c].updates) \subseteq Removes(e[c].updates)
      /\ Keys(f[c].rows) \subseteq
            Keys(e[c].rows) \cup (Sets(e[c].updates) \ Sets(f[c].updates))
      /\ Keys(e[c].rows) \ Removes(e[c].updates) \subseteq Keys(f[c].rows)
  BY DEF Evolves
<1>3. QED
  BY <1>1, <1>2

(* One database that is flushed, or not. *)
LEMMA OneEvolves ==
    ASSUME NEW d \in [Channel -> Store], NEW c \in Channel, NEW s,
           s = d[c] \/ s \in Flushes(d[c])
    PROVE  /\ s \in Store
           /\ Evolves(d, [d EXCEPT ![c] = s])
<1> DEFINE e == [d EXCEPT ![c] = s]
<1>1. CASE s = d[c]
  <2>1. e = d /\ s \in Store
    BY <1>1
  <2>2. QED
    BY <2>1, EvolvesReflexive
<1>2. CASE s \in Flushes(d[c])
  <2>1. d[c] \in Store /\ (s = Flush(d[c]) \/ s \in FailedFlushes(d[c]))
    BY <1>2 DEF Flushes
  <2>2. /\ s \in Store
        /\ s.updates = <<>>
        /\ Keys(s.rows) \subseteq Keys(d[c].rows) \cup Sets(d[c].updates)
        /\ Keys(d[c].rows) \ Removes(d[c].updates) \subseteq Keys(s.rows)
    BY <2>1, FlushOutcome
  <2>3. Sets(s.updates) = {} /\ Removes(s.updates) = {}
    BY <2>2, EmptyCache
  <2>4. /\ e \in [Channel -> Store]
        /\ e[c] = s
        /\ \A b \in Channel : b # c => e[b] = d[b]
    BY <2>2
  <2>5. QED
    BY <2>2, <2>3, <2>4 DEF Evolves
<1>3. QED
  BY <1>1, <1>2

LEMMA AfterSetEvolves ==
    ASSUME NEW d \in [Channel -> Store], NEW c \in Channel, NEW s \in AfterSet(d[c], c)
    PROVE  /\ s \in Store
           /\ Evolves(d, [d EXCEPT ![c] = s])
<1>1. s = d[c] \/ s \in Flushes(d[c])
  BY DEF AfterSet
<1>2. QED
  BY <1>1, OneEvolves

LEMMA FlushDBEvolves ==
    ASSUME NEW d \in [Channel -> Store], NEW e \in FlushDB(d)
    PROVE  Evolves(d, e)
<1>1. PICK f \in [Timing -> UNION {Flushes(d[c]) : c \in Timing}] :
         /\ \A c \in Timing : f[c] \in Flushes(d[c])
         /\ e = [c \in Channel |-> IF c \in Timing THEN f[c] ELSE d[c]]
  BY DEF FlushDB
<1>2. ASSUME NEW c \in Channel
      PROVE  /\ e[c] \in Store
             /\ Sets(e[c].updates) \subseteq Sets(d[c].updates)
             /\ Removes(e[c].updates) \subseteq Removes(d[c].updates)
             /\ Keys(e[c].rows) \subseteq
                   Keys(d[c].rows) \cup (Sets(d[c].updates) \ Sets(e[c].updates))
             /\ Keys(d[c].rows) \ Removes(d[c].updates) \subseteq Keys(e[c].rows)
  <2>1. e[c] = d[c] \/ e[c] \in Flushes(d[c])
    BY <1>1
  <2>2. /\ e[c] \in Store
        /\ Evolves(d, [d EXCEPT ![c] = e[c]])
        /\ [d EXCEPT ![c] = e[c]][c] = e[c]
    BY <2>1, OneEvolves
  <2>3. QED
    BY <2>2 DEF Evolves
<1>3. e \in [Channel -> Store]
  BY <1>1, <1>2
<1>4. QED
  BY <1>2, <1>3 DEF Evolves

(***************************************************************************)
(* The databases stay consistent under flushes, which are writes as        *)
(* EventDelivery allows them.                                              *)
(***************************************************************************)
LEMMA EvolvesConsistent ==
    ASSUME NEW d, NEW e, NEW A, NEW R, Consistent(d, A, R), Evolves(d, e)
    PROVE  /\ Consistent(e, A, R)
           /\ StoredIn(d) \ R \subseteq StoredIn(e)
           /\ StoredIn(e) \subseteq StoredIn(d) \cup (A \ R)
<1>1. ASSUME NEW c \in Channel
      PROVE  /\ Sets(e[c].updates) \subseteq Sets(d[c].updates)
             /\ Removes(e[c].updates) \subseteq Removes(d[c].updates)
             /\ Keys(e[c].rows) \subseteq
                   Keys(d[c].rows) \cup (Sets(d[c].updates) \ Sets(e[c].updates))
             /\ Keys(d[c].rows) \ Removes(d[c].updates) \subseteq Keys(e[c].rows)
  BY DEF Evolves
<1>2. /\ R \subseteq A
      /\ StoredIn(d) \subseteq A
      /\ \A c \in Channel :
            /\ Sets(d[c].updates) \subseteq A \ (R \cup StoredIn(d))
            /\ Removes(d[c].updates) \subseteq R
            /\ \A b \in Channel \ {c} : Sets(d[b].updates) \cap Sets(d[c].updates) = {}
  BY DEF Consistent
<1>3. StoredIn(d) \ R \subseteq StoredIn(e)
  BY <1>1, <1>2 DEF StoredIn
<1>4. StoredIn(e) \subseteq StoredIn(d) \cup (A \ R)
  BY <1>1, <1>2 DEF StoredIn
<1>5. ASSUME NEW c \in Channel
      PROVE  Sets(e[c].updates) \cap StoredIn(e) = {}
  <2>1. ASSUME NEW b \in Channel
        PROVE  Sets(e[c].updates) \cap Keys(e[b].rows) = {}
    <3>1. Sets(e[c].updates) \cap Keys(d[b].rows) = {}
      BY <1>1, <1>2 DEF StoredIn
    <3>2. CASE b = c
      BY <1>1, <3>1, <3>2
    <3>3. CASE b # c
      BY <1>1, <1>2, <3>1, <3>3
    <3>4. QED
      BY <3>2, <3>3
  <2>2. QED
    BY <2>1 DEF StoredIn
<1>6. Consistent(e, A, R)
  BY <1>1, <1>2, <1>4, <1>5 DEF Consistent
<1>7. QED
  BY <1>3, <1>4, <1>6


(* The databases d with one more write, or removal, in the cache of c. *)
AfterPost(d, c, k)   == [d EXCEPT ![c] = SetEvent(d[c], k)]
AfterRemove(d, c, k) == [d EXCEPT ![c] = SetEventNil(d[c], k)]

(* A new event goes into the cache of its channel. *)
LEMMA PostConsistent ==
    ASSUME NEW d \in [Channel -> Store], NEW A, NEW R, Consistent(d, A, R),
           NEW c \in Channel, NEW k \in Event, k \notin A
    PROVE  /\ AfterPost(d, c, k) \in [Channel -> Store]
           /\ Consistent(AfterPost(d, c, k), A \cup {k}, R)
           /\ StoredIn(AfterPost(d, c, k)) = StoredIn(d)
<1> DEFINE e == AfterPost(d, c, k)
<1>1. /\ SetEvent(d[c], k) \in Store
      /\ SetEvent(d[c], k).rows = d[c].rows
      /\ Sets(SetEvent(d[c], k).updates) = Sets(d[c].updates) \cup {k}
      /\ Removes(SetEvent(d[c], k).updates) = Removes(d[c].updates)
  BY SetEventType, SetEventKeys
<1>2. /\ e \in [Channel -> Store]
      /\ e[c] = SetEvent(d[c], k)
      /\ \A b \in Channel : b # c => e[b] = d[b]
  BY <1>1 DEF AfterPost
<1> HIDE DEF e
<1>3. \A b \in Channel : e[b].rows = d[b].rows
  BY <1>1, <1>2
<1>4. StoredIn(e) = StoredIn(d)
  BY <1>3 DEF StoredIn
<1>5. \A b \in Channel :
         /\ Sets(e[b].updates) = Sets(d[b].updates) \cup (IF b = c THEN {k} ELSE {})
         /\ Removes(e[b].updates) = Removes(d[b].updates)
  BY <1>1, <1>2
<1>6. Consistent(e, A \cup {k}, R)
  <2>1. /\ R \subseteq A
        /\ StoredIn(d) \subseteq A
        /\ \A b \in Channel :
              /\ Sets(d[b].updates) \subseteq A \ (R \cup StoredIn(d))
              /\ Removes(d[b].updates) \subseteq R
              /\ \A a \in Channel \ {b} : Sets(d[a].updates) \cap Sets(d[b].updates) = {}
    BY DEF Consistent
  <2>2. ASSUME NEW b \in Channel
        PROVE  /\ Sets(e[b].updates) \subseteq (A \cup {k}) \ (R \cup StoredIn(e))
               /\ Removes(e[b].updates) \subseteq R
    BY <1>4, <1>5, <2>1
  <2>3. ASSUME NEW b \in Channel, NEW a \in Channel \ {b}
        PROVE  Sets(e[a].updates) \cap Sets(e[b].updates) = {}
    <3>1. /\ Sets(d[a].updates) \cap Sets(d[b].updates) = {}
          /\ k \notin Sets(d[a].updates) /\ k \notin Sets(d[b].updates)
          /\ a # b /\ a \in Channel
      BY <2>1
    <3>2. /\ Sets(e[a].updates) \subseteq Sets(d[a].updates) \cup {k}
          /\ Sets(e[b].updates) \subseteq Sets(d[b].updates) \cup {k}
          /\ Sets(e[a].updates) = Sets(d[a].updates) \/ Sets(e[b].updates) = Sets(d[b].updates)
      BY <1>5, <3>1
    <3>3. QED
      BY <3>1, <3>2
  <2>4. R \subseteq A \cup {k} /\ StoredIn(e) \subseteq A \cup {k}
    BY <1>4, <2>1
  <2>5. QED
    BY <2>2, <2>3, <2>4, Zenon DEF Consistent
<1>7. QED
  BY <1>2, <1>4, <1>6 DEF e

(* The same for the variables of the specification. *)
LEMMA PostAccepted ==
    ASSUME db \in [Channel -> Store], Consistent(db, Accepted, Received),
           NEW c \in Channel, NEW e \in Event, e \notin Accepted
    PROVE  /\ AfterPost(db, c, e) \in [Channel -> Store]
           /\ Consistent(AfterPost(db, c, e), Accepted \cup {e}, Received)
           /\ StoredIn(AfterPost(db, c, e)) = StoredIn(db)
BY PostConsistent

(* The removal of an event the server has goes into the cache. *)
LEMMA NilConsistent ==
    ASSUME NEW d \in [Channel -> Store], NEW A, NEW R, Consistent(d, A, R),
           NEW c \in Channel, NEW k \in Event, k \in R
    PROVE  /\ AfterRemove(d, c, k) \in [Channel -> Store]
           /\ Consistent(AfterRemove(d, c, k), A, R)
           /\ StoredIn(AfterRemove(d, c, k)) = StoredIn(d)
<1> DEFINE e == AfterRemove(d, c, k)
<1>1. /\ SetEventNil(d[c], k) \in Store
      /\ SetEventNil(d[c], k).rows = d[c].rows
      /\ Sets(SetEventNil(d[c], k).updates) = Sets(d[c].updates)
      /\ Removes(SetEventNil(d[c], k).updates) = Removes(d[c].updates) \cup {k}
  BY SetEventType, SetEventKeys
<1>2. /\ e \in [Channel -> Store]
      /\ e[c] = SetEventNil(d[c], k)
      /\ \A b \in Channel : b # c => e[b] = d[b]
  BY <1>1 DEF AfterRemove
<1> HIDE DEF e
<1>3. \A b \in Channel : e[b].rows = d[b].rows
  BY <1>1, <1>2
<1>4. StoredIn(e) = StoredIn(d)
  BY <1>3 DEF StoredIn
<1>5. \A b \in Channel :
         /\ Sets(e[b].updates) = Sets(d[b].updates)
         /\ Removes(e[b].updates) \subseteq Removes(d[b].updates) \cup {k}
  BY <1>1, <1>2
<1>6. Consistent(e, A, R)
  BY <1>4, <1>5 DEF Consistent
<1>7. QED
  BY <1>2, <1>4, <1>6 DEF e

(* A new process: empty caches over tables that lost what had expired. *)
LEMMA ReopenedConsistent ==
    ASSUME NEW d \in [Channel -> Store], NEW A, NEW R, R \subseteq A,
           StoredIn(d) \subseteq A, NEW old
    PROVE  /\ Reopened(d, old) \in [Channel -> Store]
           /\ Consistent(Reopened(d, old), A, R)
           /\ StoredIn(Reopened(d, old)) \subseteq StoredIn(d)
<1> DEFINE e == Reopened(d, old)
           new(c) == [Drained(d[c]) EXCEPT !.rows = {r \in @ : r.id > old[c]}]
<1>1. ASSUME NEW c \in Channel
      PROVE  /\ new(c) \in Store
             /\ new(c).updates = <<>>
             /\ new(c).rows \subseteq d[c].rows
  <2>1. /\ Drained(d[c]) \in Store
        /\ Drained(d[c]).updates = <<>>
        /\ Drained(d[c]).rows = d[c].rows
    BY DrainedType
  <2>2. QED
    BY <2>1 DEF Store
<1>2. e = [c \in Channel |-> new(c)]
  BY DEF Reopened
<1> HIDE DEF new
<1>3. /\ e \in [Channel -> Store]
      /\ \A c \in Channel : e[c] = new(c)
  BY <1>1, <1>2
<1>4. StoredIn(e) \subseteq StoredIn(d)
  BY <1>1, <1>3 DEF StoredIn, Keys
<1>5. \A c \in Channel : Sets(e[c].updates) = {} /\ Removes(e[c].updates) = {}
  BY <1>1, <1>3, EmptyCache
<1>6. Consistent(e, A, R)
  BY <1>4, <1>5 DEF Consistent
<1>7. QED
  BY <1>3, <1>4, <1>6

-----------------------------------------------------------------------------
(* Requests *)

(* There is always an identifier for one more request. *)
LEMMA NewIdType ==
    ASSUME requests \in SUBSET Request, IsFiniteSet(requests)
    PROVE  NewId \in Nat
<1> DEFINE n == Cardinality(requests)
           used == {r.id : r \in requests}
           id == [r \in requests |-> r.id]
<1>1. n \in Nat
  BY FS_CardinalityType
<1>2. id \in Surjection(requests, used)
  BY DEF Surjection
<1>3. IsFiniteSet(used) /\ Cardinality(used) <= n
  BY <1>2, FS_Surjection
<1>4. /\ IsFiniteSet(1..(n + 1))
      /\ Cardinality(1..(n + 1)) = n + 1
  BY <1>1, FS_Interval
<1>5. Cardinality(used) \in Nat
  BY <1>3, FS_CardinalityType
<1>6. ~(1..(n + 1) \subseteq used)
  <2>1. SUFFICES ASSUME 1..(n + 1) \subseteq used
                 PROVE  FALSE
    OBVIOUS
  <2>2. Cardinality(1..(n + 1)) <= Cardinality(used)
    BY <1>3, <2>1, FS_Subset
  <2>3. QED
    BY <1>1, <1>3, <1>4, <1>5, <2>2
<1>7. \E i \in 1..(n + 1) : \A r \in requests : r.id # i
  BY <1>6
<1>8. NewId \in 1..(n + 1)
  BY <1>7 DEF NewId
<1>9. QED
  BY <1>1, <1>8

LEMMA RequestFields ==
    ASSUME NEW r \in Request
    PROVE  /\ r.channel \in Channel
           /\ r.events \in SUBSET Event
           /\ \A s \in {"sent", "got", "cleared", "late", "removing"} :
                 /\ [r EXCEPT !.state = s] \in Request
                 /\ [r EXCEPT !.state = s].events = r.events
                 /\ [r EXCEPT !.state = s].state = s
           /\ \A e : /\ [r EXCEPT !.events = @ \ {e}] \in Request
                     /\ [r EXCEPT !.events = @ \ {e}].events = r.events \ {e}
                     /\ [r EXCEPT !.events = @ \ {e}].state = r.state
BY DEF Request

(* A step that drops request r or puts q in its place. *)
LEMMA ReplaceRequest ==
    ASSUME requests \in SUBSET Request, IsFiniteSet(requests), NEW r, NEW q \in Request
    PROVE  /\ requests \ {r} \in SUBSET Request
           /\ IsFiniteSet(requests \ {r})
           /\ (requests \ {r}) \cup {q} \in SUBSET Request
           /\ IsFiniteSet((requests \ {r}) \cup {q})
BY FS_RemoveElement, FS_AddElement

(***************************************************************************)
(* Requests that are left alone stay consistent when no event disappears   *)
(* that the server does not have.                                          *)
(***************************************************************************)
LEMMA KeepRequests ==
    ASSUME RequestsConsistent,
           Stored \ Received \subseteq Stored', Received \subseteq Received',
           \A q \in requests' :
              \/ q \in requests
              \/ /\ q.events \subseteq Stored' \cup Received'
                 /\ q.state \in {"got", "late", "removing"} => q.events \subseteq Received'
    PROVE  RequestsConsistent'
<1> SUFFICES ASSUME NEW q \in requests, q \in requests'
             PROVE  /\ q.events \subseteq Stored' \cup Received'
                    /\ q.state \in {"got", "late", "removing"} => q.events \subseteq Received'
  BY DEF RequestsConsistent
<1>1. /\ q.events \subseteq Stored \cup Received
      /\ q.state \in {"got", "late", "removing"} => q.events \subseteq Received
  BY DEF RequestsConsistent
<1>2. QED
  BY <1>1

LEMMA AcceptOne ==
    ASSUME accepted \in Seq(Event), NEW e \in Event, accepted' = Append(accepted, e)
    PROVE  /\ accepted' \in Seq(Event)
           /\ Accepted' = Accepted \cup {e}
<1>1. /\ accepted' \in Seq(Event)
      /\ Len(accepted) \in Nat
      /\ DOMAIN accepted = 1..Len(accepted)
      /\ DOMAIN accepted' = 1..(Len(accepted) + 1)
      /\ accepted'[Len(accepted) + 1] = e
      /\ \A i \in 1..Len(accepted) : accepted'[i] = accepted[i]
  OBVIOUS
<1>2. DOMAIN accepted' = DOMAIN accepted \cup {Len(accepted) + 1}
  BY <1>1
<1>3. QED
  BY <1>1, <1>2 DEF Accepted

LEMMA AcceptedType ==
    ASSUME accepted \in Seq(Event)
    PROVE  Accepted \in SUBSET Event
<1>1. \A i \in DOMAIN accepted : accepted[i] \in Event
  OBVIOUS
<1>2. QED
  BY <1>1 DEF Accepted

(***************************************************************************)
(* A step of the databases: d is where a write to a cache has left them,   *)
(* and flushes take them on from there.                                    *)
(***************************************************************************)
LEMMA DatabaseStep ==
    ASSUME IInv, NEW d, Consistent(d, Accepted', Received), StoredIn(d) = Stored,
           Evolves(d, db'), received' = received
    PROVE  /\ db' \in [Channel -> Store]
           /\ Received' = Received
           /\ Consistent(db', Accepted', Received')
           /\ Stored \ Received \subseteq Stored'
           /\ Stored' \subseteq Stored \cup (Accepted' \ Received)
<1>1. Received' = Received
  BY DEF Received
<1>2. /\ Consistent(db', Accepted', Received)
      /\ StoredIn(d) \ Received \subseteq StoredIn(db')
      /\ StoredIn(db') \subseteq StoredIn(d) \cup (Accepted' \ Received)
  BY EvolvesConsistent
<1>3. Stored' = StoredIn(db')
  BY DEF Stored, StoredIn
<1>4. QED
  BY <1>1, <1>2, <1>3 DEF Evolves

-----------------------------------------------------------------------------
(***************************************************************************)
(* The steps, one lemma per kind: each preserves the invariant and is a    *)
(* step of EventDelivery.                                                  *)
(***************************************************************************)

(* A new event is cached, and the caches are flushed, or not. *)
LEMMA RecordStep ==
    ASSUME IInv, NEW e \in Event, e \notin Accepted, accepted' = Append(accepted, e),
           NEW s \in AfterSet(SetEvent(db[ChannelOf[e]], e), ChannelOf[e]),
           NEW f, f = [db EXCEPT ![ChannelOf[e]] = s],
           db' = f \/ db' \in FlushDB(f),
           received' = received, requests' = requests, crashes' = crashes
    PROVE  /\ accepted' \in Seq(Event)
           /\ db' \in [Channel -> Store]
           /\ Consistent(db', Accepted', Received')
           /\ RequestsConsistent'
           /\ Delivery!Record(e)
<1> DEFINE c == ChannelOf[e]
           d == AfterPost(db, c, e)
<1>1. /\ db \in [Channel -> Store] /\ accepted \in Seq(Event)
      /\ Consistent(db, Accepted, Received) /\ RequestsConsistent
      /\ c \in Channel
  BY ManagerAssumption DEF IInv, Types
<1>2. /\ accepted' \in Seq(Event)
      /\ Accepted' = Accepted \cup {e}
  BY <1>1, AcceptOne
<1>3. d[c] = SetEvent(db[c], e)
  BY <1>1 DEF AfterPost
<1>4. f = [d EXCEPT ![c] = s]
  BY <1>1 DEF AfterPost
<1> HIDE DEF d
<1>5. /\ d \in [Channel -> Store]
      /\ Consistent(d, Accepted \cup {e}, Received)
      /\ StoredIn(d) = StoredIn(db)
  <2>1. /\ AfterPost(db, c, e) \in [Channel -> Store]
        /\ Consistent(AfterPost(db, c, e), Accepted \cup {e}, Received)
        /\ StoredIn(AfterPost(db, c, e)) = StoredIn(db)
    BY <1>1, PostAccepted
  <2>2. d = AfterPost(db, c, e)
    BY DEF d, c
  <2>3. QED
    BY <2>1, <2>2, Zenon
<1>6. s \in Store /\ Evolves(d, f)
  <2>1. s \in AfterSet(d[c], c)
    BY <1>3
  <2>2. s \in Store /\ Evolves(d, [d EXCEPT ![c] = s])
    BY <1>1, <1>5, <2>1, AfterSetEvolves
  <2>3. QED
    BY <1>4, <2>2
<1>7. Evolves(d, db')
  <2>1. f \in [Channel -> Store]
    BY <1>1, <1>6
  <2>2. QED
    BY <1>6, <2>1, FlushDBEvolves, EvolvesTransitive
<1>8. /\ db' \in [Channel -> Store]
      /\ Received' = Received
      /\ Consistent(db', Accepted', Received')
      /\ Stored \ Received \subseteq Stored'
      /\ Stored' \subseteq Stored \cup (Accepted' \ Received)
  <2>1. StoredIn(d) = Stored
    BY <1>5 DEF Stored
  <2>2. QED
    BY <1>2, <1>5, <1>7, <2>1, DatabaseStep
<1>9. RequestsConsistent'
  BY <1>1, <1>8, KeepRequests
<1>10. Delivery!Record(e)
  BY <1>2, <1>8 DEF Delivery!Record, Delivery!Written
<1>11. QED
  BY <1>2, <1>8, <1>9, <1>10

LEMMA PostEventStep ==
    ASSUME IInv, NEW e \in Event, PostEvent(e)
    PROVE  IInv' /\ Delivery!Record(e)
<1> DEFINE c == ChannelOf[e]
<1>1. PICK s \in AfterSet(SetEvent(db[c], e), c) :
         LET f == [db EXCEPT ![c] = s]
         IN  IF "Instant" \in Policy[e]
             THEN db' \in FlushDB(f) /\ sending' = {c}
             ELSE db' = f /\ UNCHANGED sending
  BY DEF PostEvent
<1>2. /\ accepted' \in Seq(Event)
      /\ db' \in [Channel -> Store]
      /\ Consistent(db', Accepted', Received')
      /\ RequestsConsistent'
      /\ Delivery!Record(e)
  <2>1. /\ e \notin Accepted /\ accepted' = Append(accepted, e)
        /\ received' = received /\ requests' = requests /\ crashes' = crashes
    BY DEF PostEvent, history
  <2>2. QED
    BY <1>1, <2>1, RecordStep
<1>3. sending' \in SUBSET Channel
  BY <1>1, ManagerAssumption DEF IInv, Types
<1>4. QED
  BY <1>2, <1>3 DEF IInv, Types, PostEvent, world, history

LEMMA DidEnterBackgroundStep ==
    ASSUME IInv, NEW e \in Event, DidEnterBackground(e)
    PROVE  IInv' /\ Delivery!Record(e)
<1> DEFINE c == ChannelOf[e]
<1>1. PICK s \in AfterSet(SetEvent(db[c], e), c) : db' \in FlushDB([db EXCEPT ![c] = s])
  BY DEF DidEnterBackground
<1>2. /\ accepted' \in Seq(Event)
      /\ db' \in [Channel -> Store]
      /\ Consistent(db', Accepted', Received')
      /\ RequestsConsistent'
      /\ Delivery!Record(e)
  <2>1. /\ e \notin Accepted /\ accepted' = Append(accepted, e)
        /\ received' = received /\ requests' = requests /\ crashes' = crashes
    BY DEF DidEnterBackground, history
  <2>2. QED
    BY <1>1, <2>1, RecordStep
<1>3. QED
  BY <1>2 DEF IInv, Types, DidEnterBackground, world, history

(* The databases are flushed, or a removal is cached, and no event is new. *)
LEMMA PersistStep ==
    ASSUME IInv, NEW d, Consistent(d, Accepted, Received), StoredIn(d) = Stored,
           Evolves(d, db'), received' = received, accepted' = accepted,
           crashes' = crashes,
           \A q \in requests' : q \in requests \/ q.events \subseteq Received
    PROVE  /\ db' \in [Channel -> Store]
           /\ Consistent(db', Accepted', Received')
           /\ RequestsConsistent'
           /\ Delivery!Persist
<1>1. Accepted' = Accepted
  BY DEF Accepted
<1>2. /\ db' \in [Channel -> Store]
      /\ Received' = Received
      /\ Consistent(db', Accepted', Received')
      /\ Stored \ Received \subseteq Stored'
      /\ Stored' \subseteq Stored \cup (Accepted \ Received)
  BY <1>1, DatabaseStep
<1>3. RequestsConsistent'
  BY <1>2, KeepRequests DEF IInv
<1>4. Delivery!Persist
  BY <1>1, <1>2 DEF Delivery!Persist, Delivery!Written
<1>5. QED
  BY <1>2, <1>3, <1>4

LEMMA SendAllChannelEventsStep ==
    ASSUME IInv, SendAllChannelEvents \/ DidEnterBackgroundSilently
    PROVE  IInv' /\ Delivery!Persist
<1>1. /\ db' \in FlushDB(db)
      /\ received' = received /\ accepted' = accepted /\ requests' = requests
      /\ crashes' = crashes
  BY DEF SendAllChannelEvents, DidEnterBackgroundSilently, history
<1>2. db \in [Channel -> Store] /\ Consistent(db, Accepted, Received)
  BY DEF IInv, Types
<1>3. StoredIn(db) = Stored
  BY DEF Stored
<1>4. /\ db' \in [Channel -> Store]
      /\ Consistent(db', Accepted', Received')
      /\ RequestsConsistent'
      /\ Delivery!Persist
  BY <1>1, <1>2, <1>3, FlushDBEvolves, PersistStep
<1>5. QED
  BY <1>4 DEF IInv, Types, SendAllChannelEvents, DidEnterBackgroundSilently, world, history

LEMMA RemoveEventStep ==
    ASSUME IInv, NEW r \in requests, NEW e \in r.events, RemoveEvent(r, e)
    PROVE  IInv' /\ Delivery!Persist
<1> DEFINE c == r.channel
           d == AfterRemove(db, c, e)
           q == [r EXCEPT !.events = @ \ {e}]
<1>1. /\ db \in [Channel -> Store]
      /\ Consistent(db, Accepted, Received)
      /\ requests \in SUBSET Request /\ IsFiniteSet(requests)
      /\ r.events \subseteq Received
  BY DEF IInv, Types, RequestsConsistent, RemoveEvent
<1>2. /\ r \in Request /\ c \in Channel /\ e \in Event /\ e \in Received
      /\ q \in Request /\ q.events \subseteq Received
  <2>1. r \in Request /\ e \in r.events
    BY <1>1
  <2>2. q \in Request /\ q.events = r.events \ {e}
    BY <2>1 DEF Request
  <2>3. QED
    BY <1>1, <2>1, <2>2, RequestFields
<1>3. PICK s \in AfterSet(SetEventNil(db[c], e), c) : db' = [db EXCEPT ![c] = s]
  BY DEF RemoveEvent
<1>4. /\ requests' = (requests \ {r}) \cup {q}
      /\ received' = received /\ accepted' = accepted /\ crashes' = crashes
  BY DEF RemoveEvent, history
<1>5. d[c] = SetEventNil(db[c], e) /\ db' = [d EXCEPT ![c] = s]
  BY <1>1, <1>2, <1>3 DEF AfterRemove
<1>6. /\ requests' \in SUBSET Request /\ IsFiniteSet(requests')
      /\ \A p \in requests' : p \in requests \/ p.events \subseteq Received
  BY <1>1, <1>2, <1>4, ReplaceRequest
<1> HIDE DEF q
<1>7. /\ d \in [Channel -> Store]
      /\ Consistent(d, Accepted, Received)
      /\ StoredIn(d) = Stored
  BY <1>1, <1>2, NilConsistent DEF Stored
<1> HIDE DEF d
<1>8. Evolves(d, db')
  <2>1. s \in AfterSet(d[c], c)
    BY <1>3, <1>5
  <2>2. Evolves(d, [d EXCEPT ![c] = s])
    BY <1>2, <1>7, <2>1, AfterSetEvolves
  <2>3. QED
    BY <1>5, <2>2
<1>9. /\ db' \in [Channel -> Store]
      /\ Consistent(db', Accepted', Received')
      /\ RequestsConsistent'
      /\ Delivery!Persist
  BY <1>4, <1>6, <1>7, <1>8, PersistStep
<1>10. QED
  BY <1>6, <1>9 DEF IInv, Types, RemoveEvent, world, history

LEMMA EventsRemovedStep ==
    ASSUME IInv, NEW r \in requests, EventsRemoved(r)
    PROVE  IInv' /\ Delivery!Persist
<1> DEFINE c == r.channel
<1>1. /\ db \in [Channel -> Store]
      /\ Consistent(db, Accepted, Received)
      /\ requests \in SUBSET Request /\ IsFiniteSet(requests)
      /\ sending \in SUBSET Channel
  BY DEF IInv, Types
<1>2. c \in Channel
  BY <1>1, RequestFields
<1>3. PICK s \in Flushes(db[c]) :
         LET d == [db EXCEPT ![c] = s]
         IN  IF Cardinality(s.rows) >= MaxBatch
             THEN db' \in FlushDB(d) /\ sending' = {c}
             ELSE db' = d /\ UNCHANGED sending
  BY DEF EventsRemoved
<1>4. sending' \in SUBSET Channel
  BY <1>1, <1>2, <1>3
<1>5. /\ requests' = requests \ {r}
      /\ received' = received /\ accepted' = accepted /\ crashes' = crashes
  BY DEF EventsRemoved, history
<1>6. /\ requests' \in SUBSET Request /\ IsFiniteSet(requests')
  BY <1>1, <1>5, FS_RemoveElement
<1>7. Evolves(db, db')
  <2> DEFINE d == [db EXCEPT ![c] = s]
  <2>1. s \in Store /\ Evolves(db, d)
    BY <1>1, <1>2, <1>3, OneEvolves
  <2>2. d \in [Channel -> Store]
    BY <1>1, <2>1
  <2>3. db' = d \/ db' \in FlushDB(d)
    BY <1>3
  <2> HIDE DEF d
  <2>4. QED
    BY <2>1, <2>2, <2>3, FlushDBEvolves, EvolvesTransitive
<1>8. /\ db' \in [Channel -> Store]
      /\ Consistent(db', Accepted', Received')
      /\ RequestsConsistent'
      /\ Delivery!Persist
  <2>1. StoredIn(db) = Stored
    BY DEF Stored
  <2>2. QED
    BY <1>1, <1>5, <1>7, <2>1, PersistStep
<1>9. isUploading' \in [Channel -> BOOLEAN]
  BY DEF EventsRemoved, ClearFlag, IInv, Types
<1>10. QED
  BY <1>4, <1>6, <1>8, <1>9 DEF IInv, Types, EventsRemoved, world, history

(* Neither the databases nor what the server has changes. *)
LEMMA QuietStep ==
    ASSUME IInv, db' = db, received' = received, accepted' = accepted,
           crashes' = crashes,
           \A q \in requests' :
              \/ q \in requests
              \/ /\ q.events \subseteq Stored \cup Received
                 /\ q.state \in {"got", "late", "removing"} => q.events \subseteq Received
    PROVE  /\ Consistent(db', Accepted', Received')
           /\ RequestsConsistent'
           /\ UNCHANGED Delivery!vars
<1>1. /\ Accepted' = Accepted /\ Received' = Received /\ Stored' = Stored
  BY DEF Accepted, Received, Stored, StoredIn
<1>2. RequestsConsistent'
  BY <1>1, KeepRequests DEF IInv
<1>3. QED
  BY <1>1, <1>2 DEF IInv, Delivery!vars

LEMMA BatchStored ==
    ASSUME NEW c \in Channel
    PROVE  Batch(c) \subseteq Stored
<1>1. GetEvents(db[c].rows, PolicyMask) \subseteq Keys(db[c].rows)
  BY DEF GetEvents, Keys, Candidates
<1>2. QED
  BY <1>1 DEF Batch, Stored, StoredIn

LEMMA SendEventsOfChannelStep ==
    ASSUME IInv, NEW c \in Channel, SendEventsOfChannel(c) \/ ReturnFromSend(c)
    PROVE  IInv' /\ UNCHANGED Delivery!vars
<1>1. /\ db' = db /\ received' = received /\ accepted' = accepted
      /\ sending' = sending \ {c} /\ crashes' = crashes
  BY DEF SendEventsOfChannel, ReturnFromSend, history
<1>2. /\ Types /\ requests \in SUBSET Request /\ IsFiniteSet(requests)
  BY DEF IInv, Types
<1>3. CASE ReturnFromSend(c)
  <2>1. requests' = requests
    BY <1>3 DEF ReturnFromSend
  <2>2. /\ Consistent(db', Accepted', Received')
        /\ RequestsConsistent'
        /\ UNCHANGED Delivery!vars
    BY <1>1, <2>1, QuietStep
  <2>3. QED
    BY <1>1, <1>2, <1>3, <2>1, <2>2 DEF IInv, Types, ReturnFromSend, world, history
<1>4. CASE SendEventsOfChannel(c)
  <2> DEFINE q == [id |-> NewId, channel |-> c, events |-> Batch(c),
                   cellular |-> WithinLimit, state |-> "sent"]
  <2>1. requests' = requests \cup {q} /\ isUploading' \in [Channel -> BOOLEAN]
    BY <1>2, <1>4 DEF SendEventsOfChannel, Types
  <2>2. Batch(c) \subseteq Stored
    BY BatchStored
  <2>3. Stored \subseteq Event
    BY <1>2, AcceptedType DEF IInv, Consistent, Stored, Types
  <2>4. q \in Request
    <3>1. NewId \in Nat
      BY <1>2, NewIdType
    <3>2. WithinLimit \in BOOLEAN
      BY DEF WithinLimit
    <3>3. QED
      BY <2>2, <2>3, <3>1, <3>2 DEF Request
  <2>5. q.events \subseteq Stored /\ q.state = "sent"
    BY <2>2
  <2> HIDE DEF q
  <2>6. requests' \in SUBSET Request /\ IsFiniteSet(requests')
    BY <1>2, <2>1, <2>4, FS_AddElement
  <2>7. /\ Consistent(db', Accepted', Received')
        /\ RequestsConsistent'
        /\ UNCHANGED Delivery!vars
    BY <1>1, <2>1, <2>5, QuietStep
  <2>8. QED
    BY <1>1, <1>2, <1>4, <2>1, <2>6, <2>7 DEF IInv, Types, SendEventsOfChannel, world, history
<1>5. QED
  BY <1>3, <1>4

LEMMA ServerReceivesStep ==
    ASSUME IInv, NEW r \in requests, ServerReceives(r)
    PROVE  IInv' /\ Delivery!Deliver
<1> DEFINE q == [r EXCEPT !.state = "got"]
<1>1. /\ Types /\ requests \in SUBSET Request /\ IsFiniteSet(requests)
      /\ Consistent(db, Accepted, Received) /\ RequestsConsistent
      /\ r \in Request /\ r.events \subseteq Event
      /\ r.events \subseteq Stored \cup Received
  <2>1. /\ Types /\ requests \in SUBSET Request /\ IsFiniteSet(requests)
        /\ Consistent(db, Accepted, Received) /\ RequestsConsistent
    BY DEF IInv, Types
  <2>2. QED
    BY <2>1, RequestFields DEF RequestsConsistent
<1>2. /\ db' = db /\ accepted' = accepted /\ crashes' = crashes
      /\ requests' = (requests \ {r}) \cup {q}
      /\ received' = [e \in Event |-> IF e \in r.events /\ received[e] < 2
                                      THEN received[e] + 1 ELSE received[e]]
  BY DEF ServerReceives, Become, history
<1>3. q \in Request /\ q.events = r.events /\ q.state = "got"
  BY <1>1, RequestFields
<1> HIDE DEF q
<1>4. /\ requests' \in SUBSET Request
      /\ IsFiniteSet(requests')
  BY <1>1, <1>2, <1>3, ReplaceRequest
<1>5. received' \in [Event -> 0..2]
  BY <1>1, <1>2 DEF Types
<1>6. Received' = Received \cup r.events
  <2>1. received \in [Event -> 0..2]
    BY <1>1 DEF Types
  <2>2. QED
    BY <1>1, <1>2, <2>1 DEF Received
<1>7. Accepted' = Accepted /\ Stored' = Stored
  BY <1>2 DEF Accepted, Stored, StoredIn
<1>8. Consistent(db', Accepted', Received')
  <2>1. r.events \subseteq Accepted
    BY <1>1 DEF Consistent, Stored
  <2>2. \A c \in Channel : Sets(db[c].updates) \cap r.events = {}
    BY <1>1 DEF Consistent, Stored
  <2>3. QED
    BY <1>1, <1>2, <1>6, <1>7, <2>1, <2>2 DEF Consistent
<1>9. RequestsConsistent'
  BY <1>1, <1>2, <1>3, <1>6, <1>7, KeepRequests
<1>10. Delivery!Deliver
  BY <1>1, <1>2, <1>6, <1>7 DEF Delivery!Deliver
<1>11. QED
  BY <1>1, <1>4, <1>5, <1>8, <1>9, <1>10 DEF IInv, Types, ServerReceives, world, history

(* The answers that delete nothing, and the start of a deletion. *)
LEMMA AnswerStep ==
    ASSUME IInv, NEW r \in requests,
           BadStatus(r) \/ ConnectionError(r) \/ ClearAgain(r) \/ DidSend(r)
    PROVE  IInv' /\ UNCHANGED Delivery!vars
<1>1. /\ Types /\ requests \in SUBSET Request /\ IsFiniteSet(requests)
      /\ r \in Request /\ r.channel \in Channel /\ r.events \in SUBSET Event
      /\ r.events \subseteq Stored \cup Received
      /\ r.state = "got" \/ r.state = "late" => r.events \subseteq Received
  <2>1. Types /\ requests \in SUBSET Request /\ IsFiniteSet(requests) /\ RequestsConsistent
    BY DEF IInv, Types
  <2>2. QED
    BY <2>1, RequestFields DEF RequestsConsistent
<1>2. /\ db' = db /\ received' = received /\ accepted' = accepted
      /\ crashes' = crashes
  BY DEF BadStatus, ConnectionError, ClearAgain, DidSend, history
<1>3. ASSUME NEW s \in {"cleared", "late", "removing"},
             s = "cleared" \/ r.events \subseteq Received,
             Become(r, s)
      PROVE  /\ requests' \in SUBSET Request
             /\ IsFiniteSet(requests')
             /\ \A q \in requests' :
                   \/ q \in requests
                   \/ /\ q.events \subseteq Stored \cup Received
                      /\ q.state \in {"got", "late", "removing"} => q.events \subseteq Received
  <2> DEFINE q == [r EXCEPT !.state = s]
  <2>1. requests' = (requests \ {r}) \cup {q}
    BY <1>3 DEF Become
  <2>2. q \in Request /\ q.events = r.events /\ q.state = s
    BY <1>1 DEF Request
  <2> HIDE DEF q
  <2>3. QED
    BY <1>1, <1>3, <2>1, <2>2, ReplaceRequest
<1>4. /\ requests' \in SUBSET Request
      /\ IsFiniteSet(requests')
      /\ \A q \in requests' :
            \/ q \in requests
            \/ /\ q.events \subseteq Stored \cup Received
               /\ q.state \in {"got", "late", "removing"} => q.events \subseteq Received
  <2>1. CASE requests' = requests \ {r}
    BY <1>1, <2>1, FS_RemoveElement
  <2>2. CASE Become(r, "cleared")
    BY <1>3, <2>2
  <2>3. CASE r.state = "got" /\ Become(r, "late")
    BY <1>1, <1>3, <2>3
  <2>4. CASE r.state \in {"got", "late"} /\ Become(r, "removing")
    BY <1>1, <1>3, <2>4
  <2>5. QED
    BY <2>1, <2>2, <2>3, <2>4 DEF BadStatus, ConnectionError, ClearAgain, DidSend
<1>5. /\ Consistent(db', Accepted', Received')
      /\ RequestsConsistent'
      /\ UNCHANGED Delivery!vars
  BY <1>2, <1>4, QuietStep
<1>6. /\ isUploading' \in [Channel -> BOOLEAN]
      /\ uploadEventSize' \in Nat
      /\ netErrors' \in Nat /\ connErrors' \in Nat
  <2>1. OutSize[r.events] \in Nat
    BY <1>1, ManagerAssumption
  <2>2. CASE DidSend(r)
    BY <1>1, <2>1, <2>2 DEF Types, DidSend, history
  <2>3. CASE BadStatus(r)
    BY <1>1, <2>3 DEF Types, BadStatus, ClearFlag, history
  <2>4. CASE ConnectionError(r)
    BY <1>1, <2>4 DEF Types, ConnectionError, ClearFlag, history
  <2>5. CASE ClearAgain(r)
    BY <1>1, <2>5 DEF Types, ClearAgain, ClearFlag, history
  <2>6. QED
    BY <2>2, <2>3, <2>4, <2>5
<1>7. /\ UNCHANGED <<sending, world, outages, crashes>>
  BY DEF BadStatus, ConnectionError, ClearAgain, DidSend, history
<1>8. Types'
  BY <1>1, <1>2, <1>4, <1>6, <1>7 DEF Types, world
<1>9. QED
  BY <1>4, <1>5, <1>8 DEF IInv

LEMMA EnvironmentStep ==
    ASSUME IInv, ChangeLink \/ NextDay \/ Fetched \/ DiskFails \/ DiskRecovers
    PROVE  IInv' /\ UNCHANGED Delivery!vars
<1>1. /\ db' = db /\ received' = received /\ accepted' = accepted /\ requests' = requests
      /\ isUploading' = isUploading /\ sending' = sending
      /\ netErrors' = netErrors /\ connErrors' = connErrors /\ crashes' = crashes
  BY DEF ChangeLink, NextDay, Fetched, DiskFails, DiskRecovers, world, history
<1>2. /\ Consistent(db', Accepted', Received')
      /\ RequestsConsistent'
      /\ UNCHANGED Delivery!vars
  BY <1>1, QuietStep
<1>3. /\ uploadEventSize' \in Nat
      /\ link' \in Link
      /\ fetching' \in BOOLEAN
      /\ diskOK' \in BOOLEAN
      /\ outages' \in Nat
  <2>1. Types /\ Links \subseteq Link
    BY ManagerAssumption DEF IInv
  <2>2. CASE ChangeLink
    BY <2>1, <2>2 DEF Types, ChangeLink, history
  <2>3. CASE NextDay
    BY <2>1, <2>3 DEF Types, NextDay, world, history
  <2>4. CASE Fetched
    BY <2>1, <2>4 DEF Types, Fetched, history
  <2>5. CASE DiskFails
    <3>1. outages' = outages + 1 /\ outages \in Nat
      BY <2>1, <2>5 DEF Types, DiskFails
    <3>2. diskOK' \in BOOLEAN
      BY <2>5 DEF DiskFails
    <3>3. QED
      BY <2>1, <2>5, <3>1, <3>2 DEF Types, DiskFails
  <2>6. CASE DiskRecovers
    BY <2>1, <2>6 DEF Types, DiskRecovers, history
  <2>7. QED
    BY <2>2, <2>3, <2>4, <2>5, <2>6
<1>4. QED
  BY <1>1, <1>2, <1>3 DEF IInv, Types

(* The process ends, with the databases as d, and another one starts. *)
LEMMA NewProcessStep ==
    ASSUME IInv, NEW d \in [Channel -> Store], NewProcess(d),
           StoredIn(d) \subseteq Stored \cup (Accepted \ Received)
    PROVE  IInv' /\ Delivery!Reopen
<1>1. /\ Types /\ Consistent(db, Accepted, Received)
  BY DEF IInv
<1>2. PICK old : db' = Reopened(d, old)
  BY DEF NewProcess
<1>3. /\ Accepted' = Accepted /\ Received' = Received /\ crashes' = crashes + 1
  BY DEF NewProcess, Accepted, Received
<1>4. /\ db' \in [Channel -> Store]
      /\ Consistent(db', Accepted, Received)
      /\ StoredIn(db') \subseteq StoredIn(d)
  <2>1. StoredIn(d) \subseteq Accepted /\ Received \subseteq Accepted
    BY <1>1 DEF Consistent, Stored
  <2>2. QED
    BY <1>2, <2>1, ReopenedConsistent
<1>5. Delivery!Reopen
  BY <1>3, <1>4 DEF Delivery!Reopen, Stored, StoredIn
<1>6. requests' = {} /\ IsFiniteSet({})
  BY FS_EmptySet DEF NewProcess
<1>7. RequestsConsistent'
  BY <1>6 DEF RequestsConsistent
<1>8. Types'
  BY <1>1, <1>4, <1>6 DEF Types, NewProcess
<1>9. QED
  BY <1>3, <1>4, <1>5, <1>6, <1>7, <1>8 DEF IInv

LEMMA CrashStep ==
    ASSUME IInv, Crash \/ WillTerminate
    PROVE  IInv' /\ Delivery!Reopen
<1>1. db \in [Channel -> Store] /\ Consistent(db, Accepted, Received)
  BY DEF IInv, Types
<1>2. CASE NewProcess(db)
  BY <1>1, <1>2, NewProcessStep DEF Stored
<1>3. ASSUME NEW c \in Channel, NEW s \in FailedFlushes(db[c]),
             NewProcess([db EXCEPT ![c] = s])
      PROVE  IInv' /\ Delivery!Reopen
  <2> DEFINE d == [db EXCEPT ![c] = s]
  <2>1. db[c] \in Store
    BY <1>1
  <2>2. s \in Store /\ Keys(s.rows) \subseteq Keys(db[c].rows) \cup Sets(db[c].updates)
    BY <1>3, <2>1, FlushOutcome
  <2>3. /\ d \in [Channel -> Store]
        /\ \A b \in Channel : d[b] = IF b = c THEN s ELSE db[b]
        /\ NewProcess(d)
    BY <1>1, <1>3, <2>2
  <2> HIDE DEF d
  <2>4. StoredIn(d) \subseteq StoredIn(db) \cup Sets(db[c].updates)
    BY <2>2, <2>3 DEF StoredIn
  <2>5. Sets(db[c].updates) \subseteq Accepted \ Received
    BY <1>1 DEF Consistent
  <2>6. QED
    BY <2>3, <2>4, <2>5, NewProcessStep DEF Stored
<1>4. QED
  BY <1>2, <1>3 DEF Crash, WillTerminate

-----------------------------------------------------------------------------
(* The theorems *)

LEMMA InitStep ==
    ASSUME Init
    PROVE  IInv /\ Delivery!Init
<1> USE ManagerAssumption
<1> DEFINE n == Cardinality(Legacy)
<1>1. PICK old \in [1..n -> Legacy] :
         /\ accepted = old
         /\ db = [c \in Channel |->
                     [EmptyStore EXCEPT
                        !.rows = {[id |-> i, key |-> old[i]] :
                                     i \in {j \in DOMAIN old : ChannelOf[old[j]] = c}},
                        !.nextId = n + 1]]
  BY DEF Init
<1>2. n \in Nat /\ \A i \in 1..n : old[i] \in Event
  BY <1>1, FS_CardinalityType
<1> HIDE DEF n
<1>3. accepted \in Seq(Event)
  <2>1. accepted \in [1..n -> Event]
    BY <1>1, <1>2
  <2>2. QED
    BY <1>2, <2>1, SeqDef
<1> DEFINE row(i) == [id |-> i, key |-> old[i]]
           here(c) == {j \in DOMAIN old : ChannelOf[old[j]] = c}
           store(c) == [EmptyStore EXCEPT !.rows = {row(i) : i \in here(c)}, !.nextId = n + 1]
<1>4. \A i \in 1..n : row(i) \in Row /\ row(i).key = old[i]
  BY <1>2 DEF Row
<1>5. ASSUME NEW c \in Channel
      PROVE  /\ store(c) \in Store
             /\ store(c).updates = <<>>
             /\ \A k : k \in Keys(store(c).rows) <=> \E j \in here(c) : k = old[j]
  <2> DEFINE rows == {row(i) : i \in here(c)}
  <2>1. here(c) \subseteq 1..n
    BY <1>1
  <2> HIDE DEF row, here
  <2>2. rows \in SUBSET Row
    BY <1>4, <2>1
  <2>3. \A k : k \in Keys(rows) <=> \E j \in here(c) : k = old[j]
    BY <1>4, <2>1 DEF Keys
  <2>4. store(c) = [EmptyStore EXCEPT !.rows = rows, !.nextId = n + 1]
    OBVIOUS
  <2> HIDE DEF rows, store
  <2>5. EmptyStore \in Store /\ EmptyStore.updates = <<>>
    <3>1. <<>> \in Seq(Update)
      OBVIOUS
    <3>2. QED
      BY <3>1 DEF EmptyStore, Store
  <2>6. store(c) \in Store /\ store(c).updates = <<>> /\ store(c).rows = rows
    <3> DEFINE with(s, X, m) == [s EXCEPT !.rows = X, !.nextId = m]
    <3>1. ASSUME NEW s \in Store, NEW X \in SUBSET Row, NEW m \in Nat
          PROVE  /\ with(s, X, m) \in Store
                 /\ with(s, X, m).updates = s.updates
                 /\ with(s, X, m).rows = X
      BY DEF Store
    <3>2. n + 1 \in Nat
      BY <1>2
    <3>3. store(c) = with(EmptyStore, rows, n + 1)
      BY <2>4
    <3> HIDE DEF with
    <3>4. QED
      BY <2>2, <2>5, <3>1, <3>2, <3>3
  <2>7. QED
    BY <2>3, <2>6
<1>6. db = [c \in Channel |-> store(c)]
  BY <1>1
<1> HIDE DEF store, here
<1>7. /\ db \in [Channel -> Store]
      /\ \A c \in Channel :
            /\ db[c].updates = <<>>
            /\ \A k : k \in Keys(db[c].rows) <=> \E j \in here(c) : k = old[j]
  BY <1>5, <1>6
<1>8. Accepted = {old[j] : j \in 1..n} /\ Accepted \subseteq Event
  <2>1. DOMAIN accepted = 1..n
    BY <1>1
  <2>2. QED
    BY <1>1, <1>2, <2>1 DEF Accepted
<1>9. Stored = Accepted
  <2>1. \A j \in 1..n : ChannelOf[old[j]] \in Channel
    BY <1>2
  <2>2. \A j \in 1..n : j \in here(ChannelOf[old[j]])
    BY <1>1 DEF here
  <2>3. \A c \in Channel : here(c) \subseteq 1..n
    BY <1>1 DEF here
  <2>4. Stored \subseteq Accepted
    <3>1. \A c \in Channel : Keys(db[c].rows) \subseteq Accepted
      BY <1>7, <1>8, <2>3
    <3>2. QED
      BY <3>1 DEF Stored, StoredIn
  <2>5. Accepted \subseteq Stored
    BY <1>7, <1>8, <2>1, <2>2 DEF Stored, StoredIn
  <2>6. QED
    BY <2>4, <2>5
<1>10. Received = {} /\ received \in [Event -> 0..2]
  <2>1. received = [e \in Event |-> 0]
    BY DEF Init
  <2>2. QED
    BY <2>1 DEF Received
<1>11. requests = {} /\ IsFiniteSet({})
  BY FS_EmptySet DEF Init
<1>12. Consistent(db, Accepted, Received)
  <2>1. \A c \in Channel : Sets(db[c].updates) = {} /\ Removes(db[c].updates) = {}
    BY <1>7, EmptyCache
  <2>2. QED
    BY <1>9, <1>10, <2>1 DEF Consistent, Stored
<1>13. RequestsConsistent
  BY <1>11 DEF RequestsConsistent
<1>14. Types
  BY <1>3, <1>7, <1>10, <1>11 DEF Types, Init
<1>15. Delivery!Init
  <2>1. crashes = 0
    BY DEF Init
  <2>2. QED
    BY <1>8, <1>9, <1>10, <2>1 DEF Delivery!Init
<1>16. QED
  BY <1>11, <1>12, <1>13, <1>14, <1>15 DEF IInv

LEMMA NextStep ==
    ASSUME IInv, [Next]_vars
    PROVE  IInv' /\ [Delivery!Next]_(Delivery!vars)
<1>1. ASSUME NEW e \in Event, PostEvent(e) \/ DidEnterBackground(e)
      PROVE  IInv' /\ Delivery!Next
  BY <1>1, PostEventStep, DidEnterBackgroundStep DEF Delivery!Next
<1>2. CASE SendAllChannelEvents \/ DidEnterBackgroundSilently
  BY <1>2, SendAllChannelEventsStep DEF Delivery!Next
<1>3. ASSUME NEW c \in Channel, SendEventsOfChannel(c) \/ ReturnFromSend(c)
      PROVE  IInv' /\ UNCHANGED Delivery!vars
  BY <1>3, SendEventsOfChannelStep
<1>4. ASSUME NEW r \in requests, Complete(r)
      PROVE  IInv' /\ [Delivery!Next]_(Delivery!vars)
  <2>1. CASE ServerReceives(r)
    BY <2>1, ServerReceivesStep DEF Delivery!Next
  <2>2. CASE BadStatus(r) \/ ConnectionError(r) \/ ClearAgain(r) \/ DidSend(r)
    BY <2>2, AnswerStep
  <2>3. ASSUME NEW e \in r.events, RemoveEvent(r, e)
        PROVE  IInv' /\ Delivery!Next
    BY <2>3, RemoveEventStep DEF Delivery!Next
  <2>4. CASE EventsRemoved(r)
    BY <2>4, EventsRemovedStep DEF Delivery!Next
  <2>5. QED
    BY <1>4, <2>1, <2>2, <2>3, <2>4 DEF Complete
<1>5. CASE Crash \/ WillTerminate
  BY <1>5, CrashStep DEF Delivery!Next
<1>6. CASE ChangeLink \/ NextDay \/ Fetched \/ DiskFails \/ DiskRecovers
  BY <1>6, EnvironmentStep
<1>7. CASE UNCHANGED vars
  <2>1. /\ Accepted' = Accepted /\ Received' = Received /\ Stored' = Stored
    BY <1>7 DEF vars, Accepted, Received, Stored, StoredIn
  <2>2. /\ db' = db /\ received' = received /\ accepted' = accepted /\ requests' = requests
        /\ crashes' = crashes
    BY <1>7 DEF vars, history
  <2>3. /\ Consistent(db', Accepted', Received')
        /\ RequestsConsistent'
        /\ UNCHANGED Delivery!vars
    BY <2>2, QuietStep
  <2>4. QED
    BY <1>7, <2>2, <2>3 DEF IInv, Types, vars, world, history
<1>8. QED
  BY <1>1, <1>2, <1>3, <1>4, <1>5, <1>6, <1>7 DEF Next

(***************************************************************************)
(* In every reachable state: a cached event is neither in a table nor with *)
(* the server, a cached removal is of an event the server has, and so is   *)
(* every event of an upload that was answered.                             *)
(***************************************************************************)
THEOREM Invariance == Spec => []IInv
<1>1. Init => IInv
  BY InitStep
<1>2. IInv /\ [Next]_vars => IInv'
  BY NextStep
<1>3. QED
  BY <1>1, <1>2, PTL DEF Spec

-----------------------------------------------------------------------------
(* The caches of the databases d hold fewer writes than their counts. *)
Low(d) ==
    \A c \in Channel : d[c].updates = <<>> \/ Len(d[c].updates) < AutoFlushCount(c)

LEMMA FlushesEmpty ==
    ASSUME NEW u \in Store, NEW s \in Flushes(u)
    PROVE  s \in Store /\ s.updates = <<>>
BY FlushOutcome DEF Flushes

LEMMA CountType ==
    ASSUME NEW c \in Channel
    PROVE  AutoFlushCount(c) \in Nat
BY ManagerAssumption DEF AutoFlushCount

(* Every write to a cache is followed by the test of its count. *)
LEMMA AfterSetLow ==
    ASSUME NEW d \in [Channel -> Store], Low(d), NEW c \in Channel, NEW u \in Store,
           NEW s \in AfterSet(u, c)
    PROVE  [d EXCEPT ![c] = s] \in [Channel -> Store] /\ Low([d EXCEPT ![c] = s])
<1>1. Len(u.updates) \in Nat /\ AutoFlushCount(c) \in Nat
  BY CountType DEF Store
<1>2. s \in Store /\ (s.updates = <<>> \/ Len(s.updates) < AutoFlushCount(c))
  BY <1>1, FlushesEmpty DEF AfterSet
<1>3. QED
  BY <1>2 DEF Low

LEMMA FlushDBLow ==
    ASSUME NEW d \in [Channel -> Store], Low(d), NEW e \in FlushDB(d)
    PROVE  Low(e)
<1>1. \A c \in Channel : e[c] = d[c] \/ e[c] \in Flushes(d[c])
  BY DEF FlushDB
<1>2. QED
  BY <1>1, FlushesEmpty DEF Low

(* A new event, and the flushes it may bring. *)
LEMMA LowRecord ==
    ASSUME Types, Low(db), NEW e \in Event,
           NEW s \in AfterSet(SetEvent(db[ChannelOf[e]], e), ChannelOf[e]),
           NEW f, f = [db EXCEPT ![ChannelOf[e]] = s],
           db' = f \/ db' \in FlushDB(f)
    PROVE  Low(db')
<1>1. db \in [Channel -> Store] /\ ChannelOf[e] \in Channel
  BY ManagerAssumption DEF Types
<1>2. SetEvent(db[ChannelOf[e]], e) \in Store
  BY <1>1, SetEventType
<1>3. f \in [Channel -> Store] /\ Low(f)
  BY <1>1, <1>2, AfterSetLow
<1>4. QED
  BY <1>3, FlushDBLow

(* The removal of an event from a table goes through the cache as well. *)
LEMMA LowRemove ==
    ASSUME Types, Low(db), NEW r \in requests, NEW e \in r.events, RemoveEvent(r, e)
    PROVE  Low(db')
<1>1. db \in [Channel -> Store] /\ r.channel \in Channel /\ e \in Event
  BY RequestFields DEF Types
<1>2. PICK s \in AfterSet(SetEventNil(db[r.channel], e), r.channel) :
         db' = [db EXCEPT ![r.channel] = s]
  BY DEF RemoveEvent
<1>3. SetEventNil(db[r.channel], e) \in Store
  BY <1>1, SetEventType
<1>4. QED
  BY <1>1, <1>2, <1>3, AfterSetLow

LEMMA LowRemoved ==
    ASSUME Types, Low(db), NEW r \in requests, EventsRemoved(r)
    PROVE  Low(db')
<1> DEFINE c == r.channel
<1>1. db \in [Channel -> Store] /\ c \in Channel
  BY RequestFields DEF Types
<1>2. PICK s \in Flushes(db[c]) :
         LET d == [db EXCEPT ![c] = s]
         IN  IF Cardinality(s.rows) >= MaxBatch
             THEN db' \in FlushDB(d) /\ sending' = {c}
             ELSE db' = d /\ UNCHANGED sending
  BY DEF EventsRemoved
<1> DEFINE d == [db EXCEPT ![c] = s]
<1>3. s \in Store /\ s.updates = <<>>
  BY <1>1, FlushesEmpty
<1>4. d \in [Channel -> Store] /\ Low(d)
  BY <1>1, <1>3 DEF Low
<1>5. db' = d \/ db' \in FlushDB(d)
  BY <1>2
<1> HIDE DEF d
<1>6. QED
  BY <1>4, <1>5, FlushDBLow

LEMMA LowReopened ==
    ASSUME NEW d \in [Channel -> Store], NewProcess(d)
    PROVE  Low(db')
<1>1. PICK old : db' = Reopened(d, old)
  BY DEF NewProcess
<1>2. \A c \in Channel : db'[c].updates = <<>>
  BY <1>1 DEF Reopened, Drained, Store
<1>3. QED
  BY <1>2 DEF Low

LEMMA LowNext ==
    ASSUME Types, Low(db), [Next]_vars
    PROVE  Low(db')
<1>1. db \in [Channel -> Store]
  BY DEF Types
<1>2. ASSUME NEW e \in Event, PostEvent(e)
      PROVE  Low(db')
  <2> DEFINE c == ChannelOf[e]
  <2>1. PICK s \in AfterSet(SetEvent(db[c], e), c) :
           LET f == [db EXCEPT ![c] = s]
           IN  db' \in FlushDB(f) \/ db' = f
    BY <1>2 DEF PostEvent
  <2>2. QED
    BY <2>1, LowRecord
<1>3. ASSUME NEW e \in Event, DidEnterBackground(e)
      PROVE  Low(db')
  <2> DEFINE c == ChannelOf[e]
  <2>1. PICK s \in AfterSet(SetEvent(db[c], e), c) : db' \in FlushDB([db EXCEPT ![c] = s])
    BY <1>3 DEF DidEnterBackground
  <2>2. QED
    BY <2>1, LowRecord
<1>4. CASE SendAllChannelEvents \/ DidEnterBackgroundSilently
  BY <1>1, <1>4, FlushDBLow DEF SendAllChannelEvents, DidEnterBackgroundSilently
<1>5. ASSUME NEW r \in requests, Complete(r)
      PROVE  Low(db')
  <2>1. ASSUME NEW e \in r.events, RemoveEvent(r, e)
        PROVE  Low(db')
    BY <2>1, LowRemove
  <2>2. CASE EventsRemoved(r)
    BY <2>2, LowRemoved
  <2>3. CASE ServerReceives(r) \/ BadStatus(r) \/ ConnectionError(r) \/ ClearAgain(r) \/ DidSend(r)
    <3>1. db' = db
      BY <2>3 DEF ServerReceives, BadStatus, ConnectionError, ClearAgain, DidSend
    <3>2. QED
      BY <3>1
  <2>4. QED
    BY <1>5, <2>1, <2>2, <2>3 DEF Complete
<1>6. CASE Crash \/ WillTerminate
  <2>1. ASSUME NEW c \in Channel, NEW s \in FailedFlushes(db[c]),
               NewProcess([db EXCEPT ![c] = s])
        PROVE  Low(db')
    <3>1. s \in Store
      BY <1>1, FlushOutcome
    <3>2. QED
      BY <1>1, <2>1, <3>1, LowReopened
  <2>2. QED
    BY <1>1, <1>6, <2>1, LowReopened DEF Crash, WillTerminate
<1>7. CASE \/ \E c \in Channel : SendEventsOfChannel(c) \/ ReturnFromSend(c)
           \/ ChangeLink \/ NextDay \/ Fetched \/ DiskFails \/ DiskRecovers
           \/ UNCHANGED vars
  <2>1. db' = db
    BY <1>7 DEF SendEventsOfChannel, ReturnFromSend, ChangeLink, NextDay, Fetched,
                DiskFails, DiskRecovers, vars
  <2>2. QED
    BY <2>1
<1>8. QED
  BY <1>2, <1>3, <1>4, <1>5, <1>6, <1>7 DEF Next

(***************************************************************************)
(* The variables have their types, and no cache grows to its count: each   *)
(* call of setEvent:forKey: that would reach it flushes the cache, also    *)
(* while the writes of the flush fail.                                     *)
(***************************************************************************)
THEOREM TypeCorrect == Spec => []TypeOK
<1>1. Init => Low(db)
  <2> SUFFICES ASSUME Init, NEW c \in Channel
               PROVE  db[c].updates = <<>>
    BY DEF Low
  <2>1. PICK X, n : db[c] = [EmptyStore EXCEPT !.rows = X, !.nextId = n]
    BY DEF Init
  <2>2. QED
    BY <2>1 DEF EmptyStore
<1>2. IInv /\ Low(db) /\ [Next]_vars => Low(db)'
  <2>1. Low(db)' <=> Low(db')
    BY DEF Low, AutoFlushCount
  <2>2. QED
    BY <2>1, LowNext DEF IInv
<1>3. IInv /\ Low(db) => TypeOK
  BY DEF IInv, TypeOK, CachesBelowCount, Low
<1>4. QED
  BY <1>1, <1>2, <1>3, Invariance, PTL DEF Spec

(***************************************************************************)
(* The pipeline implements EventDelivery: an event in a table stays there  *)
(* until the server has it or it has expired, whatever fails on the way.   *)
(***************************************************************************)
THEOREM DeliversAtLeastOnce == Spec => AtLeastOnce
<1>1. Init => Delivery!Init
  BY InitStep
<1>2. IInv /\ [Next]_vars => [Delivery!Next]_(Delivery!vars)
  BY NextStep
<1>3. QED
  BY <1>1, <1>2, Invariance, PTL DEF Spec, AtLeastOnce, Delivery!Spec

-----------------------------------------------------------------------------
(***************************************************************************)
(* Without a failing disk and an end of the process nothing is lost: what  *)
(* a database holds for its owner only changes by what is set or removed.  *)
(***************************************************************************)
HeldIn(s) == Apply(s.updates, Keys(s.rows))

SameHeld(d, e) ==
    /\ e \in [Channel -> Store]
    /\ \A c \in Channel : HeldIn(e[c]) = HeldIn(d[c])

LEMMA FlushesHeld ==
    ASSUME diskOK, NEW s \in Store, NEW t \in Flushes(s)
    PROVE  t \in Store /\ HeldIn(t) = HeldIn(s)
<1>1. t = Flush(s)
  BY DEF Flushes
<1>2. t \in Store
  BY <1>1, FlushOutcome
<1>3. QED
  BY <1>1, <1>2, FlushApplies DEF HeldIn

LEMMA AfterSetHeld ==
    ASSUME diskOK, NEW d \in [Channel -> Store], NEW c \in Channel, NEW u \in Store,
           NEW s \in AfterSet(u, c), NEW f, f = [d EXCEPT ![c] = s]
    PROVE  /\ f \in [Channel -> Store]
           /\ HeldIn(f[c]) = HeldIn(u)
           /\ \A b \in Channel : b # c => HeldIn(f[b]) = HeldIn(d[b])
<1>1. s \in Store /\ HeldIn(s) = HeldIn(u)
  BY FlushesHeld DEF AfterSet
<1>2. QED
  BY <1>1

LEMMA FlushDBHeld ==
    ASSUME diskOK, NEW d \in [Channel -> Store], NEW e \in FlushDB(d)
    PROVE  SameHeld(d, e)
<1>1. PICK f \in [Timing -> UNION {Flushes(d[c]) : c \in Timing}] :
         /\ \A c \in Timing : f[c] \in Flushes(d[c])
         /\ e = [c \in Channel |-> IF c \in Timing THEN f[c] ELSE d[c]]
  BY DEF FlushDB
<1>2. ASSUME NEW c \in Channel
      PROVE  e[c] \in Store /\ HeldIn(e[c]) = HeldIn(d[c])
  <2>1. e[c] = d[c] \/ e[c] \in Flushes(d[c])
    BY <1>1
  <2>2. QED
    BY <2>1, FlushesHeld
<1>3. e \in [Channel -> Store]
  BY <1>1, <1>2
<1>4. QED
  BY <1>2, <1>3 DEF SameHeld

(* One more write acts last. *)
LEMMA SetHeld ==
    ASSUME NEW s \in Store, NEW k \in Event
    PROVE  /\ SetEvent(s, k) \in Store /\ SetEventNil(s, k) \in Store
           /\ HeldIn(SetEvent(s, k)) = HeldIn(s) \cup {k}
           /\ HeldIn(SetEventNil(s, k)) = HeldIn(s) \ {k}
<1> DEFINE v == [key |-> k, null |-> FALSE]
           w == [key |-> k, null |-> TRUE]
<1>1. /\ SetEvent(s, k) \in Store /\ SetEventNil(s, k) \in Store
      /\ SetEvent(s, k).rows = s.rows /\ SetEventNil(s, k).rows = s.rows
      /\ SetEvent(s, k).updates = Append(s.updates, v)
      /\ SetEventNil(s, k).updates = Append(s.updates, w)
  BY SetEventType
<1>2. /\ s.updates \in Seq(Update) /\ v \in Update /\ w \in Update
      /\ v.key = k /\ ~v.null /\ w.key = k /\ w.null
  BY DEF Store, Update
<1> HIDE DEF v, w
<1>3. \A K : Apply(Append(s.updates, v), K) = Apply(s.updates, K) \cup {k}
  BY <1>2, ApplyAppend
<1>4. \A K : Apply(Append(s.updates, w), K) = Apply(s.updates, K) \ {k}
  BY <1>2, ApplyAppend
<1>5. QED
  BY <1>1, <1>3, <1>4 DEF HeldIn

Smooth == outages = 0 /\ crashes = 0

(* NothingLost, and the disk it presupposes. *)
HeldInv ==
    Smooth => diskOK /\ \A e \in Accepted : e \in HeldIn(db[ChannelOf[e]]) \cup Received

(* What a step must do to keep it. *)
LEMMA HeldStep ==
    ASSUME IInv, HeldInv, Smooth, diskOK', Received \subseteq Received',
           \A c \in Channel : HeldIn(db[c]) \ Received \subseteq HeldIn(db'[c]),
           \A e \in Accepted' \ Accepted : e \in HeldIn(db'[ChannelOf[e]])
    PROVE  HeldInv'
<1>1. \A e \in Event : ChannelOf[e] \in Channel
  BY ManagerAssumption
<1>2. Accepted \subseteq Event
  BY AcceptedType DEF IInv, Types
<1>3. QED
  BY <1>1, <1>2 DEF HeldInv

LEMMA HeldQuiet ==
    ASSUME IInv, HeldInv, Smooth, diskOK', Received \subseteq Received',
           db' = db, accepted' = accepted
    PROVE  HeldInv'
<1>1. Accepted' = Accepted
  BY DEF Accepted
<1>2. QED
  BY <1>1, HeldStep

(* An event is posted: it is set, and the caches are flushed, or not. *)
LEMMA HeldPost ==
    ASSUME IInv, HeldInv, Smooth, UNCHANGED diskOK, UNCHANGED received,
           NEW e \in Event, accepted' = Append(accepted, e),
           NEW s \in AfterSet(SetEvent(db[ChannelOf[e]], e), ChannelOf[e]),
           NEW f, f = [db EXCEPT ![ChannelOf[e]] = s],
           db' = f \/ db' \in FlushDB(f)
    PROVE  HeldInv'
<1> DEFINE c == ChannelOf[e]
<1>1. /\ db \in [Channel -> Store] /\ accepted \in Seq(Event) /\ c \in Channel /\ diskOK
  BY ManagerAssumption DEF IInv, Types, HeldInv
<1>2. /\ SetEvent(db[c], e) \in Store
      /\ HeldIn(SetEvent(db[c], e)) = HeldIn(db[c]) \cup {e}
  BY <1>1, SetHeld
<1>3. /\ f \in [Channel -> Store]
      /\ HeldIn(f[c]) = HeldIn(SetEvent(db[c], e))
      /\ \A b \in Channel : b # c => HeldIn(f[b]) = HeldIn(db[b])
  <2> DEFINE u == SetEvent(db[c], e)
  <2>1. u \in Store /\ s \in AfterSet(u, c) /\ f = [db EXCEPT ![c] = s]
    BY <1>2
  <2> HIDE DEF u, c
  <2>2. /\ f \in [Channel -> Store]
        /\ HeldIn(f[c]) = HeldIn(u)
        /\ \A b \in Channel : b # c => HeldIn(f[b]) = HeldIn(db[b])
    BY <1>1, <2>1, AfterSetHeld
  <2>3. QED
    BY <2>2 DEF u
<1>4. \A b \in Channel : HeldIn(db'[b]) = HeldIn(f[b])
  BY <1>1, <1>3, FlushDBHeld DEF SameHeld
<1>5. Accepted' = Accepted \cup {e}
  BY <1>1, AcceptOne
<1>6. \A b \in Channel : HeldIn(db[b]) \subseteq HeldIn(db'[b])
  BY <1>1, <1>2, <1>3, <1>4
<1>7. e \in HeldIn(db'[c])
  BY <1>1, <1>2, <1>3, <1>4
<1>8. Received' = Received
  BY DEF Received
<1>9. diskOK'
  BY <1>1
<1>10. QED
  BY <1>5, <1>6, <1>7, <1>8, <1>9, HeldStep

LEMMA HeldNext ==
    ASSUME IInv, HeldInv, [Next]_vars
    PROVE  HeldInv'
<1> SUFFICES ASSUME Smooth'
             PROVE  HeldInv'
  BY DEF HeldInv
<1>1. /\ db \in [Channel -> Store] /\ outages \in Nat /\ crashes \in Nat
      /\ requests \in SUBSET Request /\ received \in [Event -> 0..2]
  BY DEF IInv, Types
<1>2. ASSUME NEW e \in Event, PostEvent(e) \/ DidEnterBackground(e)
      PROVE  HeldInv'
  <2>1. /\ Smooth /\ UNCHANGED diskOK /\ UNCHANGED received /\ accepted' = Append(accepted, e)
    BY <1>2 DEF PostEvent, DidEnterBackground, Smooth, world, history
  <2>2. PICK s \in AfterSet(SetEvent(db[ChannelOf[e]], e), ChannelOf[e]) :
           \/ db' = [db EXCEPT ![ChannelOf[e]] = s]
           \/ db' \in FlushDB([db EXCEPT ![ChannelOf[e]] = s])
    <3>1. CASE PostEvent(e)
      BY <3>1 DEF PostEvent
    <3>2. CASE DidEnterBackground(e)
      BY <3>2 DEF DidEnterBackground
    <3>3. QED
      BY <1>2, <3>1, <3>2
  <2>3. QED
    BY <2>1, <2>2, HeldPost
<1>3. CASE SendAllChannelEvents \/ DidEnterBackgroundSilently
  <2>1. /\ Smooth /\ UNCHANGED diskOK /\ UNCHANGED received /\ accepted' = accepted
        /\ db' \in FlushDB(db)
    BY <1>3 DEF SendAllChannelEvents, DidEnterBackgroundSilently, Smooth, world, history
  <2>2. diskOK
    BY <2>1 DEF HeldInv
  <2>3. \A c \in Channel : HeldIn(db'[c]) = HeldIn(db[c])
    BY <1>1, <2>1, <2>2, FlushDBHeld DEF SameHeld
  <2>4. Accepted' = Accepted /\ Received' = Received
    BY <2>1 DEF Accepted, Received
  <2>5. QED
    BY <2>1, <2>2, <2>3, <2>4, HeldStep
<1>4. ASSUME NEW c \in Channel, SendEventsOfChannel(c) \/ ReturnFromSend(c)
      PROVE  HeldInv'
  <2>1. /\ Smooth /\ UNCHANGED <<db, diskOK, received, accepted>>
    BY <1>4 DEF SendEventsOfChannel, ReturnFromSend, Smooth, world, history
  <2>2. QED
    BY <2>1, HeldQuiet DEF HeldInv, Received
<1>5. ASSUME NEW r \in requests, ServerReceives(r)
      PROVE  HeldInv'
  <2>1. /\ Smooth /\ UNCHANGED <<db, diskOK, accepted>>
        /\ received' = [e \in Event |->
                          IF e \in r.events /\ received[e] < 2 THEN received[e] + 1
                          ELSE received[e]]
    BY <1>5 DEF ServerReceives, Smooth, world, history
  <2>2. \A e \in Event : received[e] > 0 => received'[e] > 0
    BY <1>1, <2>1
  <2>3. Received \subseteq Received'
    BY <2>2 DEF Received
  <2>4. QED
    BY <2>1, <2>3, HeldQuiet DEF HeldInv
<1>6. ASSUME NEW r \in requests, BadStatus(r) \/ ConnectionError(r) \/ ClearAgain(r) \/ DidSend(r)
      PROVE  HeldInv'
  <2>1. Smooth /\ UNCHANGED <<db, diskOK, received, accepted>>
    BY <1>6 DEF BadStatus, ConnectionError, ClearAgain, DidSend, Smooth, world, history
  <2>2. QED
    BY <2>1, HeldQuiet DEF HeldInv, Received
<1>7. ASSUME NEW r \in requests, NEW e \in r.events, RemoveEvent(r, e)
      PROVE  HeldInv'
  <2>1. /\ Smooth /\ UNCHANGED <<diskOK, received, accepted>> /\ r.state = "removing"
    BY <1>7 DEF RemoveEvent, Smooth, world, history
  <2>2. /\ r.channel \in Channel /\ e \in Event /\ diskOK
    BY <1>1, <2>1, RequestFields DEF HeldInv
  <2>3. PICK s \in AfterSet(SetEventNil(db[r.channel], e), r.channel) :
           db' = [db EXCEPT ![r.channel] = s]
    BY <1>7 DEF RemoveEvent
  <2>4. /\ SetEventNil(db[r.channel], e) \in Store
        /\ HeldIn(SetEventNil(db[r.channel], e)) = HeldIn(db[r.channel]) \ {e}
    BY <1>1, <2>2, SetHeld
  <2>5. /\ HeldIn(db'[r.channel]) = HeldIn(SetEventNil(db[r.channel], e))
        /\ \A b \in Channel : b # r.channel => HeldIn(db'[b]) = HeldIn(db[b])
    <3> DEFINE u == SetEventNil(db[r.channel], e)
               c == r.channel
               f == db'
    <3>1. /\ u \in Store /\ s \in AfterSet(u, c) /\ f = [db EXCEPT ![c] = s]
          /\ c \in Channel
      BY <2>2, <2>3, <2>4
    <3> HIDE DEF u, c, f
    <3>2. /\ HeldIn(f[c]) = HeldIn(u)
          /\ \A b \in Channel : b # c => HeldIn(f[b]) = HeldIn(db[b])
      BY <1>1, <2>2, <3>1, AfterSetHeld
    <3>3. QED
      BY <3>2 DEF u, c, f
  <2>6. e \in Received
    BY <2>1 DEF IInv, RequestsConsistent
  <2>7. \A b \in Channel : HeldIn(db[b]) \ Received \subseteq HeldIn(db'[b])
    BY <2>4, <2>5, <2>6
  <2>8. Accepted' = Accepted /\ Received' = Received
    BY <2>1 DEF Accepted, Received
  <2>9. QED
    BY <2>1, <2>2, <2>7, <2>8, HeldStep
<1>8. ASSUME NEW r \in requests, EventsRemoved(r)
      PROVE  HeldInv'
  <2>1. Smooth /\ UNCHANGED <<diskOK, received, accepted>>
    BY <1>8 DEF EventsRemoved, Smooth, world, history
  <2>2. r.channel \in Channel /\ diskOK
    BY <1>1, <2>1, RequestFields DEF HeldInv
  <2>3. PICK s \in Flushes(db[r.channel]) :
           \/ db' = [db EXCEPT ![r.channel] = s]
           \/ db' \in FlushDB([db EXCEPT ![r.channel] = s])
    BY <1>8 DEF EventsRemoved
  <2>4. s \in Store /\ HeldIn(s) = HeldIn(db[r.channel])
    BY <1>1, <2>2, FlushesHeld
  <2>5. /\ [db EXCEPT ![r.channel] = s] \in [Channel -> Store]
        /\ \A b \in Channel : HeldIn([db EXCEPT ![r.channel] = s][b]) = HeldIn(db[b])
    BY <1>1, <2>2, <2>4
  <2>6. \A b \in Channel : HeldIn(db'[b]) = HeldIn(db[b])
    BY <2>2, <2>3, <2>5, FlushDBHeld DEF SameHeld
  <2>7. Accepted' = Accepted /\ Received' = Received
    BY <2>1 DEF Accepted, Received
  <2>8. QED
    BY <2>1, <2>2, <2>6, <2>7, HeldStep
<1>9. CASE Crash \/ WillTerminate
  <2>1. crashes' = crashes + 1
    BY <1>9 DEF Crash, WillTerminate, NewProcess
  <2>2. QED
    BY <1>1, <2>1 DEF Smooth
<1>10. CASE DiskFails
  <2>1. outages' = outages + 1
    BY <1>10 DEF DiskFails
  <2>2. QED
    BY <1>1, <2>1 DEF Smooth
<1>11. CASE ChangeLink \/ NextDay \/ Fetched \/ DiskRecovers \/ UNCHANGED vars
  <2>1. Smooth /\ UNCHANGED <<db, received, accepted>> /\ (diskOK' = diskOK \/ diskOK')
    BY <1>11 DEF ChangeLink, NextDay, Fetched, DiskRecovers, vars, Smooth, world, history
  <2>2. diskOK
    BY <2>1 DEF HeldInv
  <2>3. diskOK'
    BY <2>1, <2>2
  <2>4. QED
    BY <2>1, <2>3, HeldQuiet DEF Received
<1>12. QED
  BY <1>2, <1>3, <1>4, <1>5, <1>6, <1>7, <1>8, <1>9, <1>10, <1>11 DEF Next, Complete

LEMMA HeldInit == Init => HeldInv
<1> SUFFICES ASSUME Init
             PROVE  diskOK /\ \A e \in Accepted : e \in HeldIn(db[ChannelOf[e]])
  BY DEF HeldInv
<1>1. PICK old \in [1..Cardinality(Legacy) -> Legacy] :
         /\ accepted = old
         /\ db = [c \in Channel |->
                    [EmptyStore EXCEPT
                       !.rows = {[id |-> i, key |-> old[i]] :
                                    i \in {j \in DOMAIN old : ChannelOf[old[j]] = c}},
                       !.nextId = Cardinality(Legacy) + 1]]
  BY DEF Init
<1>2. ASSUME NEW i \in DOMAIN old
      PROVE  old[i] \in HeldIn(db[ChannelOf[old[i]]])
  <2>1. old[i] \in Event
    BY ManagerAssumption
  <2>2. ChannelOf[old[i]] \in Channel
    BY <2>1, ManagerAssumption
  <2> DEFINE d == db[ChannelOf[old[i]]]
  <2>3. /\ d.updates = <<>>
        /\ d.rows = {[id |-> n, key |-> old[n]] :
                        n \in {j \in DOMAIN old : ChannelOf[old[j]] = ChannelOf[old[i]]}}
    BY <1>1, <2>2 DEF EmptyStore
  <2>4. [id |-> i, key |-> old[i]] \in d.rows
    BY <2>3
  <2> HIDE DEF d
  <2>5. old[i] \in Keys(d.rows)
    BY <2>4 DEF Keys
  <2>6. HeldIn(d) = Keys(d.rows)
    BY <2>3, ApplyEmpty DEF HeldIn
  <2>7. QED
    BY <2>5, <2>6 DEF d
<1>3. diskOK
  BY DEF Init
<1>4. QED
  BY <1>1, <1>2, <1>3 DEF Accepted

(***************************************************************************)
(* With a working disk and a process that lives every posted event is      *)
(* still held for a later batch or has arrived, however uploads fail,      *)
(* overlap and are retried.                                                *)
(***************************************************************************)
THEOREM LosesNothing == Spec => []NothingLost
<1>1. HeldInv => NothingLost
  BY DEF HeldInv, Smooth, NothingLost, HeldIn, Held
<1>2. HeldInv /\ IInv /\ [Next]_vars => HeldInv'
  BY HeldNext
<1>3. QED
  BY <1>1, <1>2, HeldInit, Invariance, PTL DEF Spec

-----------------------------------------------------------------------------
(***************************************************************************)
(* The flag of a channel against its requests.  A connection error clears  *)
(* the flag while its request, as "cleared" or "late", has a block to come *)
(* that clears it again: each error lets the requests outnumber the flag   *)
(* by one more.                                                            *)
(***************************************************************************)
Of(c) == {r \in requests : r.channel = c}

One(b) == IF b THEN 1 ELSE 0

Flags ==
    /\ \A c \in Channel : Cardinality(Of(c)) <= One(isUploading[c]) + connErrors
    /\ connErrors = 0 =>
          /\ \A c \in Channel : isUploading[c] <=> Of(c) # {}
          /\ \A r \in requests : r.state \notin {"cleared", "late"}

FlagInv == Types /\ IsFiniteSet(requests) /\ Flags

LEMMA OfFinite ==
    ASSUME IsFiniteSet(requests), NEW c
    PROVE  IsFiniteSet(Of(c)) /\ Cardinality(Of(c)) \in Nat
<1>1. Of(c) \in SUBSET requests
  BY DEF Of
<1>2. QED
  BY <1>1, FS_Subset, FS_CardinalityType

LEMMA FlagsKept ==
    ASSUME FlagInv, UNCHANGED <<requests, isUploading, connErrors>>
    PROVE  Flags'
BY DEF FlagInv, Flags, Of

(* Request r is left, or another one of its channel takes its place. *)
LEMMA OfWithout ==
    ASSUME FlagInv, NEW r \in requests, requests' = requests \ {r}, NEW c
    PROVE  /\ Of(c)' = IF r.channel = c THEN Of(c) \ {r} ELSE Of(c)
           /\ Cardinality(Of(c))' = Cardinality(Of(c)) - One(r.channel = c)
<1>1. Of(c)' = IF r.channel = c THEN Of(c) \ {r} ELSE Of(c)
  BY DEF Of
<1>2. IsFiniteSet(Of(c)) /\ Cardinality(Of(c)) \in Nat
  BY OfFinite DEF FlagInv
<1>3. r.channel = c => r \in Of(c)
  BY DEF Of
<1>4. Cardinality(Of(c))' = Cardinality(Of(c)')
  OBVIOUS
<1>5. CASE r.channel = c
  <2>1. Of(c)' = Of(c) \ {r} /\ One(r.channel = c) = 1
    BY <1>1, <1>5 DEF One
  <2>2. Cardinality(Of(c) \ {r}) = Cardinality(Of(c)) - 1
    BY <1>2, <1>3, <1>5, FS_RemoveElement
  <2>3. QED
    BY <1>1, <1>4, <2>1, <2>2
<1>6. CASE r.channel # c
  <2>1. Of(c)' = Of(c) /\ One(r.channel = c) = 0
    BY <1>1, <1>6 DEF One
  <2>2. Cardinality(Of(c))' = Cardinality(Of(c))
    BY <1>4, <2>1
  <2>3. Cardinality(Of(c)) = Cardinality(Of(c)) - 0
    BY <1>2
  <2>4. QED
    BY <1>1, <2>1, <2>2, <2>3
<1>7. QED
  BY <1>5, <1>6

LEMMA OfReplaced ==
    ASSUME FlagInv, NEW r \in requests, NEW q, q.channel = r.channel,
           requests' = (requests \ {r}) \cup {q}, NEW c
    PROVE  /\ Of(c)' # {} <=> Of(c) # {}
           /\ Cardinality(Of(c))' <= Cardinality(Of(c))
           /\ Cardinality(Of(c))' \in Nat /\ Cardinality(Of(c)) \in Nat
<1>1. IsFiniteSet(Of(c)) /\ Cardinality(Of(c)) \in Nat
  BY OfFinite DEF FlagInv
<1>2. Cardinality(Of(c))' = Cardinality(Of(c)')
  OBVIOUS
<1>3. CASE r.channel # c
  <2>1. Of(c)' = Of(c)
    BY <1>3 DEF Of
  <2>2. QED
    BY <1>1, <1>2, <2>1
<1>4. CASE r.channel = c
  <2>1. r \in Of(c) /\ Of(c)' = (Of(c) \ {r}) \cup {q}
    BY <1>4 DEF Of
  <2>2. /\ IsFiniteSet(Of(c) \ {r})
        /\ Cardinality(Of(c) \ {r}) = Cardinality(Of(c)) - 1
    BY <1>1, <2>1, FS_RemoveElement
  <2>3. \/ Cardinality(Of(c)') = Cardinality(Of(c) \ {r})
        \/ Cardinality(Of(c)') = Cardinality(Of(c) \ {r}) + 1
    BY <2>1, <2>2, FS_AddElement
  <2>4. Cardinality(Of(c) \ {r}) \in Nat
    BY <2>2, FS_CardinalityType
  <2>5. QED
    BY <1>1, <1>2, <2>1, <2>2, <2>3, <2>4
<1>5. QED
  BY <1>3, <1>4

(* A request goes on. *)
LEMMA FlagsReplace ==
    ASSUME FlagInv, UNCHANGED <<isUploading, connErrors>>, NEW r \in requests,
           NEW q, q.channel = r.channel, requests' = (requests \ {r}) \cup {q},
           q.state \in {"cleared", "late"} => r.state \in {"cleared", "late"}
    PROVE  Flags'
<1>1. connErrors \in Nat /\ \A c \in Channel : isUploading[c] \in BOOLEAN
  BY DEF FlagInv, Types
<1>2. ASSUME NEW c \in Channel
      PROVE  Cardinality(Of(c))' <= One(isUploading'[c]) + connErrors'
  <2>1. Cardinality(Of(c)) <= One(isUploading[c]) + connErrors
    BY DEF FlagInv, Flags
  <2>2. /\ Cardinality(Of(c))' <= Cardinality(Of(c))
        /\ Cardinality(Of(c))' \in Nat /\ Cardinality(Of(c)) \in Nat
    BY OfReplaced
  <2>3. One(isUploading'[c]) = One(isUploading[c]) /\ One(isUploading[c]) \in Nat
    BY DEF One
  <2>4. QED
    BY <1>1, <2>1, <2>2, <2>3
<1>3. ASSUME connErrors' = 0
      PROVE  /\ \A c \in Channel : isUploading'[c] <=> Of(c)' # {}
             /\ \A p \in requests' : p.state \notin {"cleared", "late"}
  BY <1>3, OfReplaced DEF FlagInv, Flags
<1>4. QED
  BY <1>2, <1>3 DEF Flags

(* A request ends, and its channel's flag is cleared. *)
LEMMA FlagsDrop ==
    ASSUME FlagInv, UNCHANGED connErrors, NEW r \in requests,
           requests' = requests \ {r}, ClearFlag(r.channel)
    PROVE  Flags'
<1>1. /\ connErrors \in Nat /\ r.channel \in Channel
      /\ isUploading \in [Channel -> BOOLEAN]
      /\ isUploading' = [isUploading EXCEPT ![r.channel] = FALSE]
  BY RequestFields DEF FlagInv, Types, ClearFlag
<1>2. /\ isUploading'[r.channel] = FALSE
      /\ \A c \in Channel : c # r.channel => isUploading'[c] = isUploading[c]
  BY <1>1
<1>3. ASSUME NEW c \in Channel
      PROVE  /\ Cardinality(Of(c)) <= One(isUploading[c]) + connErrors
             /\ Cardinality(Of(c)) \in Nat
             /\ Cardinality(Of(c))' = Cardinality(Of(c)) - One(r.channel = c)
             /\ Of(c)' = IF r.channel = c THEN Of(c) \ {r} ELSE Of(c)
  BY OfWithout, OfFinite DEF FlagInv, Flags
<1>4. ASSUME NEW c \in Channel
      PROVE  Cardinality(Of(c))' <= One(isUploading'[c]) + connErrors'
  <2>1. CASE c = r.channel
    <3>1. One(isUploading'[c]) = 0
      BY <1>2, <2>1 DEF One
    <3>2. One(r.channel = c) = 1
      BY <2>1 DEF One
    <3>3. One(isUploading[c]) <= 1 /\ One(isUploading[c]) \in Nat
      BY DEF One
    <3> DEFINE n == Cardinality(Of(c))
               m == Cardinality(Of(c))'
               u == One(isUploading[c])
    <3>4. n <= u + connErrors /\ n \in Nat /\ m = n - 1
      BY <1>3, <3>2
    <3> HIDE DEF n, m, u
    <3>5. m <= 0 + connErrors
      <4>1. u <= 1 /\ u \in Nat
        BY <3>3 DEF u
      <4>2. QED
        BY <1>1, <3>4, <4>1
    <3>6. QED
      BY <3>1, <3>5 DEF m
  <2>2. CASE c # r.channel
    <3>1. isUploading'[c] = isUploading[c]
      BY <1>2, <2>2
    <3>2. One(r.channel = c) = 0
      BY <2>2 DEF One
    <3>3. Cardinality(Of(c))' = Cardinality(Of(c))
      BY <1>3, <3>2
    <3>4. QED
      BY <1>3, <3>1, <3>3
  <2>3. QED
    BY <2>1, <2>2
<1>5. ASSUME connErrors' = 0
      PROVE  /\ \A c \in Channel : isUploading'[c] <=> Of(c)' # {}
             /\ \A p \in requests' : p.state \notin {"cleared", "late"}
  <2>1. /\ \A c \in Channel : isUploading[c] <=> Of(c) # {}
        /\ \A p \in requests : p.state \notin {"cleared", "late"}
    BY <1>5 DEF FlagInv, Flags
  <2>2. \A c \in Channel : c # r.channel => Of(c)' = Of(c)
    BY <1>3
  <2>3. Of(r.channel)' = {}
    <3> DEFINE c == r.channel
    <3>1. Cardinality(Of(c)) <= 1
      <4>1. One(isUploading[c]) <= 1 /\ One(isUploading[c]) \in Nat
        BY DEF One
      <4>2. QED
        BY <1>1, <1>3, <1>5, <4>1
    <3>2. /\ Cardinality(Of(c))' = Cardinality(Of(c)) - 1
          /\ Cardinality(Of(c)) \in Nat /\ Of(c)' = Of(c) \ {r} /\ IsFiniteSet(Of(c))
      <4>1. One(r.channel = c) = 1
        BY DEF One
      <4>2. QED
        BY <1>1, <1>3, <4>1, OfFinite DEF FlagInv
    <3>3. /\ IsFiniteSet(Of(c)') /\ Cardinality(Of(c)') = Cardinality(Of(c))'
          /\ Cardinality(Of(c)') \in Nat
      BY <3>2, FS_RemoveElement, FS_CardinalityType
    <3>4. Cardinality(Of(c)') = 0
      BY <3>1, <3>2, <3>3
    <3>5. QED
      BY <3>3, <3>4, FS_EmptySet
  <2>4. QED
    BY <1>2, <2>1, <2>2, <2>3
<1>6. QED
  BY <1>4, <1>5 DEF Flags

(* A connection error: the request has a block left that clears the flag again. *)
LEMMA FlagsError ==
    ASSUME FlagInv, connErrors' = connErrors + 1, NEW r \in requests,
           NEW q, q.channel = r.channel, requests' = (requests \ {r}) \cup {q},
           ClearFlag(r.channel)
    PROVE  Flags'
<1>1. /\ connErrors \in Nat /\ r.channel \in Channel
      /\ isUploading \in [Channel -> BOOLEAN]
      /\ isUploading' = [isUploading EXCEPT ![r.channel] = FALSE]
  BY RequestFields DEF FlagInv, Types, ClearFlag
<1>2. ASSUME NEW c \in Channel
      PROVE  Cardinality(Of(c))' <= One(isUploading'[c]) + connErrors'
  <2>1. Cardinality(Of(c)) <= One(isUploading[c]) + connErrors
    BY DEF FlagInv, Flags
  <2>2. /\ Cardinality(Of(c))' <= Cardinality(Of(c))
        /\ Cardinality(Of(c))' \in Nat /\ Cardinality(Of(c)) \in Nat
    BY OfReplaced
  <2>3. /\ One(isUploading[c]) \in Nat /\ One(isUploading'[c]) \in Nat
        /\ One(isUploading[c]) <= One(isUploading'[c]) + 1
    BY DEF One
  <2> DEFINE n == Cardinality(Of(c))
             m == Cardinality(Of(c))'
             u == One(isUploading[c])
             v == One(isUploading'[c])
  <2>4. /\ n <= u + connErrors /\ m <= n /\ m \in Nat /\ n \in Nat
        /\ u \in Nat /\ v \in Nat /\ u <= v + 1
    BY <2>1, <2>2, <2>3
  <2> HIDE DEF n, m, u, v
  <2>5. m <= v + (connErrors + 1)
    BY <1>1, <2>4
  <2>6. QED
    BY <2>5 DEF m, v
<1>3. connErrors' # 0
  BY <1>1
<1>4. QED
  BY <1>2, <1>3 DEF Flags

(* An upload starts: only where the flag is down, and it goes up. *)
LEMMA FlagsSend ==
    ASSUME FlagInv, UNCHANGED connErrors, NEW c \in Channel, ~isUploading[c],
           isUploading' = [isUploading EXCEPT ![c] = TRUE],
           NEW q, q.channel = c, q.state = "sent", requests' = requests \cup {q}
    PROVE  Flags'
<1>1. /\ connErrors \in Nat /\ isUploading \in [Channel -> BOOLEAN]
  BY DEF FlagInv, Types
<1>2. /\ isUploading'[c]
      /\ \A b \in Channel : b # c => isUploading'[b] = isUploading[b]
  BY <1>1
<1>3. /\ Of(c)' = Of(c) \cup {q}
      /\ \A b \in Channel : b # c => Of(b)' = Of(b)
  BY DEF Of
<1>4. \A b \in Channel :
         /\ Cardinality(Of(b)) <= One(isUploading[b]) + connErrors
         /\ IsFiniteSet(Of(b)) /\ Cardinality(Of(b)) \in Nat
  BY OfFinite DEF FlagInv, Flags
<1>5. ASSUME NEW b \in Channel
      PROVE  Cardinality(Of(b))' <= One(isUploading'[b]) + connErrors'
  <2>1. Cardinality(Of(b))' = Cardinality(Of(b)')
    OBVIOUS
  <2>2. CASE b = c
    <3>1. One(isUploading[b]) = 0 /\ One(isUploading'[b]) = 1
      BY <1>2, <2>2 DEF One
    <3> DEFINE n == Cardinality(Of(b))
               m == Cardinality(Of(b)')
    <3>2. Of(b)' = Of(b) \cup {q} /\ IsFiniteSet(Of(b))
      BY <1>3, <1>4, <2>2
    <3>3. m = n \/ m = n + 1
      BY <3>2, FS_AddElement
    <3>4. n <= 0 + connErrors /\ n \in Nat
      BY <1>4, <3>1
    <3> HIDE DEF n, m
    <3>5. m <= 1 + connErrors
      BY <1>1, <3>3, <3>4
    <3>6. QED
      BY <2>1, <3>1, <3>5 DEF m
  <2>3. CASE b # c
    BY <1>2, <1>3, <1>4, <2>1, <2>3
  <2>4. QED
    BY <2>2, <2>3
<1>6. ASSUME connErrors' = 0
      PROVE  /\ \A b \in Channel : isUploading'[b] <=> Of(b)' # {}
             /\ \A p \in requests' : p.state \notin {"cleared", "late"}
  <2>1. /\ \A b \in Channel : isUploading[b] <=> Of(b) # {}
        /\ \A p \in requests : p.state \notin {"cleared", "late"}
    BY <1>6 DEF FlagInv, Flags
  <2>2. QED
    BY <1>2, <1>3, <2>1
<1>7. QED
  BY <1>5, <1>6 DEF Flags

(* Nothing is under way. *)
LEMMA FlagsFresh ==
    ASSUME requests = {}, isUploading = [c \in Channel |-> FALSE], connErrors \in Nat
    PROVE  Flags
<1>1. \A c \in Channel : Of(c) = {} /\ isUploading[c] = FALSE
  BY DEF Of
<1>2. Cardinality({}) = 0
  BY FS_EmptySet
<1>3. \A c \in Channel : Cardinality(Of(c)) <= One(isUploading[c]) + connErrors
  BY <1>1, <1>2 DEF One
<1>4. QED
  BY <1>1, <1>3 DEF Flags

LEMMA FlagsNext ==
    ASSUME FlagInv, [Next]_vars
    PROVE  Flags'
<1>1. connErrors \in Nat /\ requests \in SUBSET Request
  BY DEF FlagInv, Types
<1>2. ASSUME NEW c \in Channel, SendEventsOfChannel(c)
      PROVE  Flags'
  <2> DEFINE q == [id |-> NewId, channel |-> c, events |-> Batch(c),
                   cellular |-> WithinLimit, state |-> "sent"]
  <2>1. /\ ~isUploading[c] /\ UNCHANGED connErrors
        /\ isUploading' = [isUploading EXCEPT ![c] = TRUE]
        /\ requests' = requests \cup {q}
    BY <1>2 DEF SendEventsOfChannel, MaySend, history
  <2>2. q.channel = c /\ q.state = "sent"
    OBVIOUS
  <2> HIDE DEF q
  <2>3. QED
    BY <2>1, <2>2, FlagsSend
<1>3. ASSUME NEW r \in requests, ServerReceives(r) \/ DidSend(r)
      PROVE  Flags'
  <2>1. PICK s \in {"got", "removing"} : Become(r, s)
    BY <1>3 DEF ServerReceives, DidSend
  <2> DEFINE q == [r EXCEPT !.state = s]
  <2>2. /\ UNCHANGED <<isUploading, connErrors>>
        /\ requests' = (requests \ {r}) \cup {q}
    BY <1>3, <2>1 DEF ServerReceives, DidSend, Become, history
  <2>3. q.channel = r.channel /\ q.state = s
    BY <1>1 DEF Request
  <2> HIDE DEF q
  <2>4. QED
    BY <2>2, <2>3, FlagsReplace
<1>4. ASSUME NEW r \in requests, NEW e \in r.events, RemoveEvent(r, e)
      PROVE  Flags'
  <2> DEFINE q == [r EXCEPT !.events = @ \ {e}]
  <2>1. /\ UNCHANGED <<isUploading, connErrors>>
        /\ requests' = (requests \ {r}) \cup {q}
    BY <1>4 DEF RemoveEvent, history
  <2>2. q.channel = r.channel /\ q.state = r.state
    BY <1>1 DEF Request
  <2> HIDE DEF q
  <2>3. QED
    BY <2>1, <2>2, FlagsReplace
<1>5. ASSUME NEW r \in requests, BadStatus(r) \/ ClearAgain(r) \/ EventsRemoved(r)
      PROVE  Flags'
  <2>1. UNCHANGED connErrors /\ requests' = requests \ {r} /\ ClearFlag(r.channel)
    BY <1>5 DEF BadStatus, ClearAgain, EventsRemoved, history
  <2>2. QED
    BY <2>1, FlagsDrop
<1>6. ASSUME NEW r \in requests, ConnectionError(r)
      PROVE  Flags'
  <2>1. PICK s \in {"cleared", "late"} : Become(r, s)
    BY <1>6 DEF ConnectionError
  <2> DEFINE q == [r EXCEPT !.state = s]
  <2>2. /\ connErrors' = connErrors + 1 /\ ClearFlag(r.channel)
        /\ requests' = (requests \ {r}) \cup {q}
    BY <1>6, <2>1 DEF ConnectionError, Become
  <2>3. q.channel = r.channel
    BY <1>1 DEF Request
  <2> HIDE DEF q
  <2>4. QED
    BY <2>2, <2>3, FlagsError
<1>7. CASE Crash \/ WillTerminate
  <2>1. requests' = {} /\ isUploading' = [c \in Channel |-> FALSE] /\ connErrors' = connErrors
    BY <1>7 DEF Crash, WillTerminate, NewProcess
  <2>2. (requests = {} /\ isUploading = [c \in Channel |-> FALSE] /\ connErrors \in Nat => Flags)'
    BY FlagsFresh, PTL
  <2>3. QED
    BY <1>1, <2>1, <2>2
<1>8. CASE UNCHANGED <<requests, isUploading, connErrors>>
  BY <1>8, FlagsKept
<1>9. QED
  BY <1>2, <1>3, <1>4, <1>5, <1>6, <1>7, <1>8
  DEF Next, Complete, PostEvent, DidEnterBackground, DidEnterBackgroundSilently,
      SendAllChannelEvents, ReturnFromSend, ChangeLink, NextDay, Fetched, DiskFails,
      DiskRecovers, vars, history

LEMMA FlagsHold == Spec => []Flags
<1>1. Init => Flags
  <2>1. Init => requests = {} /\ isUploading = [c \in Channel |-> FALSE]
    BY DEF Init
  <2>2. Init => connErrors = 0
    BY DEF Init
  <2>3. 0 \in Nat
    OBVIOUS
  <2>4. QED
    BY <2>1, <2>2, <2>3, FlagsFresh
<1>2. IInv /\ Flags => FlagInv
  BY DEF IInv, FlagInv
<1>3. FlagInv /\ [Next]_vars => Flags'
  BY FlagsNext
<1>4. QED
  BY <1>1, <1>2, <1>3, Invariance, PTL DEF Spec

(***************************************************************************)
(* The flag of a channel is set exactly while an upload is under way, and  *)
(* each connection error lets at most one more upload overlap, for any     *)
(* number of channels, events and failures.                                *)
(***************************************************************************)
THEOREM FlagBoundsUploads == Spec => []UploadFlag
<1>1. FlagInv => UploadFlag
  <2> SUFFICES ASSUME FlagInv, NEW c \in Channel
               PROVE  /\ connErrors = 0 => (isUploading[c] <=> Uploads(c) # {})
                      /\ Cardinality(Uploads(c)) <= 1 + connErrors
    BY DEF UploadFlag
  <2>1. Uploads(c) \in SUBSET Of(c)
    BY DEF Uploads, Of
  <2>2. /\ IsFiniteSet(Of(c)) /\ Cardinality(Of(c)) \in Nat
        /\ Cardinality(Of(c)) <= One(isUploading[c]) + connErrors
        /\ connErrors \in Nat
    BY OfFinite DEF FlagInv, Flags, Types
  <2>3. Cardinality(Uploads(c)) <= Cardinality(Of(c)) /\ Cardinality(Uploads(c)) \in Nat
    BY <2>1, <2>2, FS_Subset, FS_CardinalityType
  <2>4. One(isUploading[c]) <= 1 /\ One(isUploading[c]) \in Nat
    BY DEF One
  <2>5. Cardinality(Uploads(c)) <= 1 + connErrors
    BY <2>2, <2>3, <2>4
  <2>6. connErrors = 0 => Uploads(c) = Of(c)
    BY DEF FlagInv, Flags, Uploads, Of
  <2>7. QED
    BY <2>5, <2>6 DEF FlagInv, Flags
<1>2. IInv /\ Flags => FlagInv
  BY DEF IInv, FlagInv
<1>3. QED
  BY <1>1, <1>2, Invariance, FlagsHold, PTL

-----------------------------------------------------------------------------
(***************************************************************************)
(* Without a failure.  A batch is read from the table while the caches are *)
(* empty, so it is what the channel holds; and what a channel holds and    *)
(* the server has is in the channel's one request, which removes it.       *)
(***************************************************************************)
Calm == netErrors = 0 /\ outages = 0 /\ crashes = 0

(* What a database holds belongs to its channel; a realtime one caches nothing. *)
InPlace(d) ==
    /\ \A c \in Channel : \A e \in HeldIn(d[c]) : ChannelOf[e] = c
    /\ \A c \in Channel \ Timing : d[c].updates = <<>>

Flushed(d) == \A c \in Channel : d[c].updates = <<>>

(* The caches are empty while channels are being sent. *)
CalmCaches ==
    /\ diskOK
    /\ InPlace(db)
    /\ sending # {} => Flushed(db)

(* Only one request is removing, and nothing is sent meanwhile. *)
CalmThread ==
    /\ Removing => sending = {}
    /\ \A r, q \in requests : r.state = "removing" /\ q.state = "removing" => r = q

CalmEvents ==
    /\ \A r \in requests : \A e \in r.events :
          /\ ChannelOf[e] = r.channel
          /\ r.state = "sent" => received[e] = 0
    /\ \A e \in Event :
          /\ received[e] <= 1
          /\ received[e] # 0 /\ e \in HeldIn(db[ChannelOf[e]]) =>
                \E r \in requests : e \in r.events

CalmInv ==
    /\ netErrors = 0 => connErrors = 0
    /\ Calm => CalmCaches /\ CalmThread /\ CalmEvents

LEMMA FlushDBCalm ==
    ASSUME diskOK, NEW d \in [Channel -> Store], InPlace(d), NEW e \in FlushDB(d)
    PROVE  InPlace(e) /\ Flushed(e) /\ \A c \in Channel : HeldIn(e[c]) = HeldIn(d[c])
<1>1. PICK f \in [Timing -> UNION {Flushes(d[c]) : c \in Timing}] :
         /\ \A c \in Timing : f[c] \in Flushes(d[c])
         /\ e = [c \in Channel |-> IF c \in Timing THEN f[c] ELSE d[c]]
  BY DEF FlushDB
<1>2. ASSUME NEW c \in Channel
      PROVE  e[c].updates = <<>>
  <2>1. CASE c \in Timing
    <3>1. e[c] = Flush(d[c])
      BY <1>1, <2>1 DEF Flushes
    <3>2. QED
      BY <3>1, FlushOutcome
  <2>2. CASE c \notin Timing
    BY <1>1, <2>2 DEF InPlace
  <2>3. QED
    BY <2>1, <2>2
<1>3. \A c \in Channel : HeldIn(e[c]) = HeldIn(d[c])
  BY FlushDBHeld DEF SameHeld
<1>4. QED
  BY <1>2, <1>3 DEF InPlace, Flushed

(* A realtime database flushes at every write. *)
LEMMA RealtimeFlushes ==
    ASSUME diskOK, NEW c \in Channel \ Timing, NEW u \in Store, NEW s \in AfterSet(u, c)
    PROVE  s.updates = <<>>
<1>1. Len(u.updates) \in Nat /\ AutoFlushCount(c) = 0
  BY DEF Store, AutoFlushCount
<1>2. s = Flush(u)
  BY <1>1 DEF AfterSet, Flushes
<1>3. QED
  BY <1>2, FlushOutcome

(* A write to the cache of c, which may flush it. *)
LEMMA WriteCalm ==
    ASSUME diskOK, NEW d \in [Channel -> Store], InPlace(d), NEW c \in Channel, NEW u \in Store,
           \A e \in HeldIn(u) : ChannelOf[e] = c,
           NEW s \in AfterSet(u, c), NEW f, f = [d EXCEPT ![c] = s]
    PROVE  /\ f \in [Channel -> Store] /\ InPlace(f)
           /\ HeldIn(f[c]) = HeldIn(u)
           /\ \A b \in Channel : b # c => HeldIn(f[b]) = HeldIn(d[b])
<1>1. /\ f \in [Channel -> Store]
      /\ HeldIn(f[c]) = HeldIn(u)
      /\ \A b \in Channel : b # c => HeldIn(f[b]) = HeldIn(d[b])
  BY AfterSetHeld
<1>2. c \notin Timing => f[c].updates = <<>>
  BY RealtimeFlushes
<1>3. \A b \in Channel : b # c => f[b] = d[b]
  OBVIOUS
<1>4. QED
  BY <1>1, <1>2, <1>3 DEF InPlace

(* An event is removed. *)
LEMMA NilCalm ==
    ASSUME diskOK, db \in [Channel -> Store], InPlace(db), NEW c \in Channel, NEW e \in Event,
           NEW s \in AfterSet(SetEventNil(db[c], e), c), db' = [db EXCEPT ![c] = s]
    PROVE  /\ db' \in [Channel -> Store] /\ InPlace(db')
           /\ HeldIn(db'[c]) = HeldIn(db[c]) \ {e}
           /\ \A b \in Channel : b # c => HeldIn(db'[b]) = HeldIn(db[b])
<1> DEFINE u == SetEventNil(db[c], e)
<1>1. u \in Store /\ HeldIn(u) = HeldIn(db[c]) \ {e}
  BY SetHeld
<1>2. \A k \in HeldIn(u) : ChannelOf[k] = c
  BY <1>1 DEF InPlace
<1>3. s \in AfterSet(u, c)
  OBVIOUS
<1> HIDE DEF u
<1> DEFINE f == db'
<1>4. f = [db EXCEPT ![c] = s]
  OBVIOUS
<1> HIDE DEF f
<1>5. /\ f \in [Channel -> Store]
      /\ HeldIn(f[c]) = HeldIn(u)
      /\ \A b \in Channel : b # c => HeldIn(f[b]) = HeldIn(db[b])
  BY <1>1, <1>3, <1>4, AfterSetHeld
<1>6. /\ c \notin Timing => f[c].updates = <<>>
      /\ \A b \in Channel : b # c => f[b] = db[b]
  BY <1>1, <1>3, <1>4, RealtimeFlushes
<1>7. InPlace(f)
  BY <1>1, <1>2, <1>5, <1>6 DEF InPlace
<1>8. QED
  BY <1>1, <1>5, <1>7 DEF f

LEMMA EventsKept ==
    ASSUME CalmEvents, requests' = requests, received' = received,
           \A e \in Event : received[e] # 0 /\ e \in HeldIn(db'[ChannelOf[e]])
                               => e \in HeldIn(db[ChannelOf[e]])
    PROVE  CalmEvents'
BY DEF CalmEvents

LEMMA ThreadKept ==
    ASSUME CalmThread, requests' = requests, ~Removing \/ sending' = sending
    PROVE  CalmThread'
BY DEF CalmThread, Removing

(* An event is posted: the server does not have it yet. *)
LEMMA CalmPost ==
    ASSUME IInv, CalmInv, Calm, Idle, UNCHANGED <<diskOK, requests, received>>,
           NEW e \in Event, e \notin Accepted,
           NEW s \in AfterSet(SetEvent(db[ChannelOf[e]], e), ChannelOf[e]),
           NEW f, f = [db EXCEPT ![ChannelOf[e]] = s],
           (db' = f /\ sending' = sending) \/ db' \in FlushDB(f)
    PROVE  CalmCaches' /\ CalmThread' /\ CalmEvents'
<1> DEFINE c == ChannelOf[e]
           u == SetEvent(db[c], e)
<1>1. /\ db \in [Channel -> Store] /\ c \in Channel /\ diskOK /\ InPlace(db)
      /\ received \in [Event -> 0..2]
  BY ManagerAssumption DEF IInv, Types, CalmInv, CalmCaches
<1>2. u \in Store /\ HeldIn(u) = HeldIn(db[c]) \cup {e}
  BY <1>1, SetHeld
<1>3. \A k \in HeldIn(u) : ChannelOf[k] = c
  BY <1>1, <1>2 DEF InPlace
<1>4. s \in AfterSet(u, c) /\ f = [db EXCEPT ![c] = s]
  OBVIOUS
<1>5. c = ChannelOf[e]
  OBVIOUS
<1> HIDE DEF c, u
<1>6. /\ f \in [Channel -> Store] /\ InPlace(f)
      /\ HeldIn(f[c]) = HeldIn(u)
      /\ \A b \in Channel : b # c => HeldIn(f[b]) = HeldIn(db[b])
  BY <1>1, <1>2, <1>3, <1>4, WriteCalm
<1>7. \A b \in Channel : HeldIn(db'[b]) = HeldIn(f[b])
  BY <1>1, <1>6, FlushDBCalm
<1>8. CalmCaches'
  <2>1. CASE db' = f /\ sending' = sending
    BY <1>1, <1>6, <2>1 DEF CalmCaches, Idle
  <2>2. CASE db' \in FlushDB(f)
    <3>1. InPlace(db') /\ Flushed(db')
      BY <1>1, <1>6, <2>2, FlushDBCalm
    <3>2. QED
      BY <1>1, <3>1 DEF CalmCaches
  <2>3. QED
    BY <2>1, <2>2
<1>9. CalmThread'
  <2>1. ~Removing /\ CalmThread
    BY DEF Idle, Removing, CalmInv
  <2>2. QED
    BY <2>1, ThreadKept
<1>10. CalmEvents'
  <2>1. received[e] = 0
    BY <1>1 DEF IInv, Consistent, Received
  <2>2. \A k \in Event : ChannelOf[k] \in Channel
    BY ManagerAssumption
  <2>3. \A k \in Event : received[k] # 0 /\ k \in HeldIn(db'[ChannelOf[k]])
                            => k \in HeldIn(db[ChannelOf[k]])
    BY <1>2, <1>6, <1>7, <2>1, <2>2
  <2>4. CalmEvents
    BY DEF CalmInv
  <2>5. QED
    BY <2>3, <2>4, EventsKept
<1>11. QED
  BY <1>8, <1>9, <1>10

(* The caches are flushed. *)
LEMMA CalmFlush ==
    ASSUME IInv, CalmInv, Calm, Idle, UNCHANGED <<diskOK, requests, received>>,
           db' \in FlushDB(db)
    PROVE  CalmCaches' /\ CalmThread' /\ CalmEvents'
<1>1. /\ db \in [Channel -> Store] /\ diskOK /\ InPlace(db) /\ CalmThread /\ CalmEvents
  BY DEF IInv, Types, CalmInv, CalmCaches
<1>2. InPlace(db') /\ Flushed(db') /\ \A c \in Channel : HeldIn(db'[c]) = HeldIn(db[c])
  BY <1>1, FlushDBCalm
<1>3. \A e \in Event : ChannelOf[e] \in Channel
  BY ManagerAssumption
<1>4. CalmEvents'
  BY <1>1, <1>2, <1>3, EventsKept
<1>5. ~Removing
  BY DEF Idle, Removing
<1>6. CalmThread'
  BY <1>1, <1>5, ThreadKept
<1>7. QED
  BY <1>1, <1>2, <1>4, <1>6 DEF CalmCaches

(* With no connection error a channel has one request at most. *)
LEMMA OneRequest ==
    ASSUME FlagInv, connErrors = 0, NEW r \in requests, NEW q \in requests,
           r.channel = q.channel, r.channel \in Channel
    PROVE  r = q
<1> SUFFICES ASSUME r # q
             PROVE  FALSE
  OBVIOUS
<1> DEFINE S == Of(r.channel)
<1>1. IsFiniteSet(S) /\ Cardinality(S) \in Nat
  BY OfFinite DEF FlagInv
<1>2. Cardinality(S) <= 1
  <2>1. Cardinality(S) <= One(isUploading[r.channel]) + 0
    BY DEF FlagInv, Flags
  <2>2. One(isUploading[r.channel]) = 0 \/ One(isUploading[r.channel]) = 1
    BY DEF One
  <2>3. QED
    BY <1>1, <2>1, <2>2
<1>3. r \in S /\ q \in S
  BY DEF Of
<1> HIDE DEF S
<1>4. /\ IsFiniteSet(S \ {r}) /\ Cardinality(S \ {r}) = Cardinality(S) - 1
  BY <1>1, <1>3, FS_RemoveElement
<1>5. Cardinality(S \ {r}) = 0
  <2>1. Cardinality(S \ {r}) \in Nat
    BY <1>4, FS_CardinalityType
  <2>2. QED
    BY <1>1, <1>2, <1>4, <2>1
<1>6. S \ {r} = {}
  BY <1>4, <1>5, FS_EmptySet
<1>7. QED
  BY <1>3, <1>6

(* A batch is of events that wait, and no request of the channel has them. *)
LEMMA CalmSend ==
    ASSUME IInv, FlagInv, CalmInv, Calm, NEW c \in Channel, SendEventsOfChannel(c)
    PROVE  CalmCaches' /\ CalmThread' /\ CalmEvents'
<1> DEFINE q == [id |-> NewId, channel |-> c, events |-> Batch(c),
                 cellular |-> WithinLimit, state |-> "sent"]
<1>1. /\ CalmCaches /\ CalmThread /\ CalmEvents /\ connErrors = 0
      /\ db \in [Channel -> Store] /\ received \in [Event -> 0..2]
  BY DEF CalmInv, Calm, IInv, Types
<1>2. /\ ~Removing /\ c \in sending /\ ~isUploading[c] /\ sending' = sending \ {c}
      /\ requests' = requests \cup {q}
      /\ UNCHANGED <<db, diskOK, received>>
  BY DEF SendEventsOfChannel, MaySend, world
<1>3. q.channel = c /\ q.events = Batch(c) /\ q.state = "sent"
  OBVIOUS
<1> HIDE DEF q
<1>4. Of(c) = {}
  BY <1>1, <1>2 DEF FlagInv, Flags
<1>5. Batch(c) \subseteq HeldIn(db[c]) \cap Event
  <2>1. GetEvents(db[c].rows, PolicyMask) \subseteq Keys(db[c].rows)
    BY DEF GetEvents, Keys, Candidates
  <2>2. db[c].updates = <<>>
    BY <1>1, <1>2 DEF CalmCaches, Flushed
  <2>3. HeldIn(db[c]) = Keys(db[c].rows)
    BY <2>2, ApplyEmpty DEF HeldIn
  <2>4. Batch(c) \subseteq Event
    <3>1. Batch(c) \subseteq Stored
      BY BatchStored
    <3>2. Stored \subseteq Event
      BY AcceptedType DEF IInv, Consistent, Stored, Types
    <3>3. QED
      BY <3>1, <3>2
  <2>5. QED
    BY <2>1, <2>3, <2>4 DEF Batch
<1>6. ASSUME NEW e \in Batch(c)
      PROVE  ChannelOf[e] = c /\ received[e] = 0
  <2>1. e \in Event /\ e \in HeldIn(db[c]) /\ ChannelOf[e] = c
    BY <1>1, <1>5 DEF CalmCaches, InPlace
  <2>2. \A r \in requests : e \notin r.events
    BY <1>1, <1>4, <2>1 DEF CalmEvents, Of
  <2>3. QED
    BY <1>1, <2>1, <2>2 DEF CalmEvents
<1>7. CalmCaches'
  BY <1>1, <1>2 DEF CalmCaches
<1>8. CalmThread'
  BY <1>1, <1>2, <1>3 DEF CalmThread, Removing
<1>9. CalmEvents'
  BY <1>1, <1>2, <1>3, <1>6 DEF CalmEvents
<1>10. QED
  BY <1>7, <1>8, <1>9

(* The answer is of the channel's one request. *)
LEMMA CalmReceive ==
    ASSUME IInv, FlagInv, CalmInv, Calm, NEW r \in requests, ServerReceives(r)
    PROVE  CalmCaches' /\ CalmThread' /\ CalmEvents'
<1> DEFINE q == [r EXCEPT !.state = "got"]
<1>1. /\ CalmCaches /\ CalmThread /\ CalmEvents /\ connErrors = 0
      /\ received \in [Event -> 0..2] /\ requests \in SUBSET Request
  BY DEF CalmInv, Calm, IInv, Types
<1>2. /\ r.state = "sent" /\ requests' = (requests \ {r}) \cup {q}
      /\ received' = [e \in Event |->
                        IF e \in r.events /\ received[e] < 2 THEN received[e] + 1
                        ELSE received[e]]
      /\ UNCHANGED <<db, diskOK, sending>>
  BY DEF ServerReceives, Become, world
<1>3. /\ q.channel = r.channel /\ q.events = r.events /\ q.state = "got"
      /\ r.channel \in Channel /\ r.events \in SUBSET Event
  BY <1>1 DEF Request
<1> HIDE DEF q
<1>4. /\ \A e \in r.events : received'[e] = 1
      /\ \A e \in Event \ r.events : received'[e] = received[e]
  BY <1>1, <1>2, <1>3 DEF CalmEvents
<1>5. CalmCaches'
  BY <1>1, <1>2 DEF CalmCaches
<1>6. CalmThread'
  BY <1>1, <1>2, <1>3 DEF CalmThread, Removing
<1>7. ASSUME NEW p \in requests', NEW e \in p.events
      PROVE  /\ ChannelOf[e] = p.channel
             /\ p.state = "sent" => received'[e] = 0
  <2>1. CASE p = q
    BY <1>1, <1>3, <2>1 DEF CalmEvents
  <2>2. CASE p \in requests /\ p # r
    <3>1. ChannelOf[e] = p.channel /\ (p.state = "sent" => received[e] = 0)
      BY <1>1, <2>2 DEF CalmEvents
    <3>2. e \notin r.events
      <4>1. e \in r.events => p.channel = r.channel
        BY <1>1, <3>1 DEF CalmEvents
      <4>2. p.channel = r.channel => p = r
        BY <1>1, <1>3, <2>2, OneRequest
      <4>3. QED
        BY <2>2, <4>1, <4>2
    <3>3. e \in Event
      BY <1>1, <2>2, RequestFields
    <3>4. QED
      BY <1>4, <3>1, <3>2, <3>3
  <2>3. QED
    BY <1>2, <2>1, <2>2
<1>8. ASSUME NEW e \in Event
      PROVE  /\ received'[e] <= 1
             /\ received'[e] # 0 /\ e \in HeldIn(db'[ChannelOf[e]]) =>
                   \E p \in requests' : e \in p.events
  <2>1. CASE e \in r.events
    <3>1. received'[e] = 1
      BY <1>4, <2>1
    <3>2. q \in requests' /\ e \in q.events
      BY <1>2, <1>3, <2>1
    <3>3. QED
      BY <3>1, <3>2
  <2>2. CASE e \notin r.events
    <3>1. received'[e] = received[e] /\ received[e] <= 1
      BY <1>1, <1>4, <2>2 DEF CalmEvents
    <3>2. received[e] # 0 /\ e \in HeldIn(db[ChannelOf[e]]) => \E p \in requests : e \in p.events
      BY <1>1 DEF CalmEvents
    <3>3. \A p \in requests : e \in p.events => p \in requests'
      BY <1>2, <2>2
    <3>4. QED
      BY <1>2, <3>1, <3>2, <3>3
  <2>3. QED
    BY <2>1, <2>2
<1>9. CalmEvents'
  BY <1>7, <1>8 DEF CalmEvents
<1>10. QED
  BY <1>5, <1>6, <1>9

(* The removal begins. *)
LEMMA CalmDidSend ==
    ASSUME IInv, CalmInv, Calm, NEW r \in requests, DidSend(r)
    PROVE  CalmCaches' /\ CalmThread' /\ CalmEvents'
<1> DEFINE q == [r EXCEPT !.state = "removing"]
<1>1. /\ CalmCaches /\ CalmThread /\ CalmEvents /\ requests \in SUBSET Request
  BY DEF CalmInv, IInv, Types
<1>2. /\ Idle /\ requests' = (requests \ {r}) \cup {q}
      /\ UNCHANGED <<db, diskOK, sending, received>>
  BY DEF DidSend, Become, world
<1>3. /\ q.channel = r.channel /\ q.events = r.events /\ q.state = "removing"
  BY <1>1 DEF Request
<1> HIDE DEF q
<1>4. CalmCaches'
  BY <1>1, <1>2 DEF CalmCaches
<1>5. CalmThread'
  BY <1>1, <1>2 DEF CalmThread, Idle
<1>6. CalmEvents'
  <2>1. \A p \in requests' : \E o \in requests :
           /\ p.channel = o.channel /\ p.events = o.events
           /\ p.state = "sent" => o.state = "sent"
    BY <1>2, <1>3
  <2>2. \A o \in requests : \E p \in requests' : p.events = o.events
    BY <1>2, <1>3
  <2>3. QED
    BY <1>1, <1>2, <2>1, <2>2 DEF CalmEvents
<1>7. QED
  BY <1>4, <1>5, <1>6

LEMMA CalmRemove ==
    ASSUME IInv, CalmInv, Calm, NEW r \in requests, NEW e \in r.events, RemoveEvent(r, e)
    PROVE  CalmCaches' /\ CalmThread' /\ CalmEvents'
<1> DEFINE q == [r EXCEPT !.events = @ \ {e}]
<1>1. /\ CalmCaches /\ CalmThread /\ CalmEvents /\ requests \in SUBSET Request
      /\ db \in [Channel -> Store] /\ diskOK /\ InPlace(db)
  BY DEF CalmInv, IInv, Types, CalmCaches
<1>2. /\ r.state = "removing" /\ requests' = (requests \ {r}) \cup {q}
      /\ UNCHANGED <<diskOK, sending, received>>
  BY DEF RemoveEvent, world
<1>3. /\ q.channel = r.channel /\ q.events = r.events \ {e} /\ q.state = "removing"
      /\ r.channel \in Channel /\ e \in Event
  BY <1>1, <1>2 DEF Request
<1> HIDE DEF q
<1>4. PICK s \in AfterSet(SetEventNil(db[r.channel], e), r.channel) :
         db' = [db EXCEPT ![r.channel] = s]
  BY DEF RemoveEvent
<1>5. /\ db' \in [Channel -> Store] /\ InPlace(db')
      /\ HeldIn(db'[r.channel]) = HeldIn(db[r.channel]) \ {e}
      /\ \A b \in Channel : b # r.channel => HeldIn(db'[b]) = HeldIn(db[b])
  BY <1>1, <1>3, <1>4, NilCalm
<1>6. sending = {}
  BY <1>1, <1>2 DEF CalmThread, Removing
<1>7. ChannelOf[e] = r.channel
  BY <1>1 DEF CalmEvents
<1>8. CalmCaches'
  BY <1>1, <1>2, <1>5, <1>6 DEF CalmCaches
<1>9. CalmThread'
  <2>1. \A p \in requests' : p.state = "removing" => p = q
    BY <1>1, <1>2 DEF CalmThread
  <2>2. QED
    BY <1>2, <1>6, <2>1 DEF CalmThread
<1>10. ASSUME NEW p \in requests', NEW k \in p.events
       PROVE  ChannelOf[k] = p.channel /\ (p.state = "sent" => received'[k] = 0)
  BY <1>1, <1>2, <1>3 DEF CalmEvents
<1>11. ASSUME NEW k \in Event
       PROVE  /\ received'[k] <= 1
              /\ received'[k] # 0 /\ k \in HeldIn(db'[ChannelOf[k]]) =>
                    \E p \in requests' : k \in p.events
  <2>1. ChannelOf[k] \in Channel
    BY ManagerAssumption
  <2>2. k \in HeldIn(db'[ChannelOf[k]]) => k # e /\ k \in HeldIn(db[ChannelOf[k]])
    BY <1>5, <1>7, <2>1
  <2>3. k # e => \A o \in requests : k \in o.events => \E p \in requests' : k \in p.events
    BY <1>2, <1>3
  <2>4. QED
    BY <1>1, <1>2, <2>2, <2>3 DEF CalmEvents
<1>12. CalmEvents'
  BY <1>10, <1>11 DEF CalmEvents
<1>13. QED
  BY <1>8, <1>9, <1>12

(* The request ends: it has nothing left to remove. *)
LEMMA CalmRemoved ==
    ASSUME IInv, CalmInv, Calm, NEW r \in requests, EventsRemoved(r)
    PROVE  CalmCaches' /\ CalmThread' /\ CalmEvents'
<1> DEFINE c == r.channel
<1>1. /\ CalmCaches /\ CalmThread /\ CalmEvents /\ requests \in SUBSET Request
      /\ db \in [Channel -> Store] /\ diskOK /\ InPlace(db)
  BY DEF CalmInv, IInv, Types, CalmCaches
<1>2. /\ r.state = "removing" /\ r.events = {} /\ requests' = requests \ {r}
      /\ UNCHANGED <<diskOK, received>> /\ c \in Channel
  BY <1>1, RequestFields DEF EventsRemoved, world
<1>3. PICK s \in Flushes(db[c]) :
         \/ db' = [db EXCEPT ![c] = s] /\ sending' = sending
         \/ db' \in FlushDB([db EXCEPT ![c] = s])
  BY DEF EventsRemoved
<1> DEFINE f == [db EXCEPT ![c] = s]
<1>4. /\ s \in Store /\ HeldIn(s) = HeldIn(db[c]) /\ s.updates = <<>>
  <2>1. s = Flush(db[c])
    BY <1>1 DEF Flushes
  <2>2. s.updates = <<>>
    BY <1>1, <1>2, <2>1, FlushOutcome
  <2>3. QED
    BY <1>1, <1>2, <2>2, FlushesHeld
<1>5. /\ f \in [Channel -> Store]
      /\ \A b \in Channel : HeldIn(f[b]) = HeldIn(db[b])
      /\ f[c] = s /\ \A b \in Channel : b # c => f[b] = db[b]
  BY <1>1, <1>2, <1>4
<1>6. (db' = f /\ sending' = sending) \/ db' \in FlushDB(f)
  BY <1>3
<1>7. sending = {}
  BY <1>1, <1>2 DEF CalmThread, Removing
<1> HIDE DEF c, f
<1>8. InPlace(f)
  BY <1>1, <1>4, <1>5 DEF InPlace
<1>9. /\ \A b \in Channel : HeldIn(db'[b]) = HeldIn(db[b])
      /\ InPlace(db') /\ (sending' # {} => Flushed(db'))
  <2>1. CASE db' = f /\ sending' = sending
    BY <1>5, <1>7, <1>8, <2>1
  <2>2. CASE db' \in FlushDB(f)
    BY <1>1, <1>5, <1>8, <2>2, FlushDBCalm
  <2>3. QED
    BY <1>6, <2>1, <2>2
<1>10. CalmCaches'
  BY <1>1, <1>2, <1>9 DEF CalmCaches
<1>11. CalmThread'
  <2>1. ~Removing'
    BY <1>1, <1>2 DEF CalmThread, Removing
  <2>2. QED
    BY <1>1, <1>2, <2>1 DEF CalmThread
<1>12. CalmEvents'
  <2>1. \A e \in Event : ChannelOf[e] \in Channel
    BY ManagerAssumption
  <2>2. \A e : \A o \in requests : e \in o.events => o \in requests'
    BY <1>2
  <2>3. requests' \subseteq requests
    BY <1>2
  <2>4. QED
    BY <1>1, <1>2, <1>9, <2>1, <2>2, <2>3 DEF CalmEvents
<1>13. QED
  BY <1>10, <1>11, <1>12

LEMMA CalmNext ==
    ASSUME IInv, FlagInv, CalmInv, [Next]_vars
    PROVE  CalmInv'
<1>1. /\ netErrors \in Nat /\ outages \in Nat /\ crashes \in Nat /\ connErrors \in Nat
      /\ requests \in SUBSET Request
  BY DEF IInv, Types
<1>2. /\ netErrors' \in Nat
      /\ netErrors' = 0 => netErrors = 0
      /\ netErrors' = 0 => connErrors' = connErrors
      /\ Calm' => Calm
  <2>1. ASSUME NEW r \in requests, BadStatus(r)
        PROVE  netErrors' # 0 /\ netErrors' \in Nat
    BY <1>1, <2>1 DEF BadStatus
  <2>2. ASSUME NEW r \in requests, ConnectionError(r)
        PROVE  netErrors' # 0 /\ netErrors' \in Nat
    BY <1>1, <2>2 DEF ConnectionError
  <2>3. CASE Crash \/ WillTerminate
    <3>1. crashes' = crashes + 1 /\ UNCHANGED <<netErrors, connErrors>>
      BY <2>3 DEF Crash, WillTerminate, NewProcess
    <3>2. QED
      BY <1>1, <3>1 DEF Calm
  <2>4. CASE DiskFails
    <3>1. outages' = outages + 1 /\ UNCHANGED <<netErrors, connErrors>>
      BY <2>4 DEF DiskFails
    <3>2. QED
      BY <1>1, <3>1 DEF Calm
  <2>5. CASE UNCHANGED history
    BY <1>1, <2>5 DEF history, Calm
  <2>6. QED
    BY <2>1, <2>2, <2>3, <2>4, <2>5
    DEF Next, Complete, PostEvent, DidEnterBackground, DidEnterBackgroundSilently,
        SendAllChannelEvents, SendEventsOfChannel, ReturnFromSend, ServerReceives, ClearAgain,
        DidSend, RemoveEvent, EventsRemoved, ChangeLink, NextDay, Fetched, DiskRecovers,
        vars, Calm
<1>3. netErrors' = 0 => connErrors' = 0
  BY <1>2 DEF CalmInv
<1> SUFFICES ASSUME Calm'
             PROVE  CalmCaches' /\ CalmThread' /\ CalmEvents'
  BY <1>3 DEF CalmInv
<1>4. Calm /\ CalmCaches /\ CalmThread /\ CalmEvents
  BY <1>2 DEF CalmInv
<1>5. ASSUME NEW e \in Event, PostEvent(e)
      PROVE  CalmCaches' /\ CalmThread' /\ CalmEvents'
  <2>1. /\ Idle /\ e \notin Accepted /\ UNCHANGED <<diskOK, requests, received>>
    BY <1>5 DEF PostEvent, world
  <2>2. PICK s \in AfterSet(SetEvent(db[ChannelOf[e]], e), ChannelOf[e]) :
           \/ db' = [db EXCEPT ![ChannelOf[e]] = s] /\ sending' = sending
           \/ db' \in FlushDB([db EXCEPT ![ChannelOf[e]] = s])
    BY <1>5 DEF PostEvent
  <2>3. QED
    BY <1>4, <2>1, <2>2, CalmPost
<1>6. ASSUME NEW e \in Event, DidEnterBackground(e)
      PROVE  CalmCaches' /\ CalmThread' /\ CalmEvents'
  <2>1. /\ Idle /\ e \notin Accepted /\ UNCHANGED <<diskOK, requests, received>>
    BY <1>6 DEF DidEnterBackground, world
  <2>2. PICK s \in AfterSet(SetEvent(db[ChannelOf[e]], e), ChannelOf[e]) :
           db' \in FlushDB([db EXCEPT ![ChannelOf[e]] = s])
    BY <1>6 DEF DidEnterBackground
  <2>3. QED
    BY <1>4, <2>1, <2>2, CalmPost
<1>7. CASE SendAllChannelEvents \/ DidEnterBackgroundSilently
  <2>1. Idle /\ UNCHANGED <<diskOK, requests, received>> /\ db' \in FlushDB(db)
    BY <1>7 DEF SendAllChannelEvents, DidEnterBackgroundSilently, world
  <2>2. QED
    BY <1>4, <2>1, CalmFlush
<1>8. ASSUME NEW c \in Channel, SendEventsOfChannel(c)
      PROVE  CalmCaches' /\ CalmThread' /\ CalmEvents'
  BY <1>4, <1>8, CalmSend
<1>9. ASSUME NEW c \in Channel, ReturnFromSend(c)
      PROVE  CalmCaches' /\ CalmThread' /\ CalmEvents'
  <2>1. /\ ~Removing /\ sending' = sending \ {c} /\ UNCHANGED <<db, diskOK, requests, received>>
    BY <1>9 DEF ReturnFromSend, world
  <2>2. CalmCaches'
    BY <1>4, <2>1 DEF CalmCaches
  <2>3. QED
    BY <1>4, <2>1, <2>2, ThreadKept, EventsKept
<1>10. ASSUME NEW r \in requests, Complete(r)
       PROVE  CalmCaches' /\ CalmThread' /\ CalmEvents'
  <2>1. CASE ServerReceives(r)
    BY <1>4, <2>1, CalmReceive
  <2>2. CASE BadStatus(r) \/ ConnectionError(r)
    <3>1. netErrors' = netErrors + 1
      BY <2>2 DEF BadStatus, ConnectionError
    <3>2. netErrors' = 0
      BY DEF Calm
    <3>3. QED
      BY <1>1, <3>1, <3>2
  <2>3. CASE ClearAgain(r)
    <3>1. r.state = "cleared"
      BY <2>3 DEF ClearAgain
    <3>2. connErrors = 0
      BY <1>4 DEF CalmInv, Calm
    <3>3. QED
      BY <3>1, <3>2 DEF FlagInv, Flags
  <2>4. CASE DidSend(r)
    BY <1>4, <2>4, CalmDidSend
  <2>5. ASSUME NEW e \in r.events, RemoveEvent(r, e)
        PROVE  CalmCaches' /\ CalmThread' /\ CalmEvents'
    BY <1>4, <2>5, CalmRemove
  <2>6. CASE EventsRemoved(r)
    BY <1>4, <2>6, CalmRemoved
  <2>7. QED
    BY <1>10, <2>1, <2>2, <2>3, <2>4, <2>5, <2>6 DEF Complete
<1>11. CASE Crash \/ WillTerminate
  <2>1. crashes' = crashes + 1 /\ crashes' = 0
    BY <1>11 DEF Crash, WillTerminate, NewProcess, Calm
  <2>2. QED
    BY <1>1, <2>1
<1>12. CASE DiskFails
  <2>1. outages' = outages + 1 /\ outages' = 0
    BY <1>12 DEF DiskFails, Calm
  <2>2. QED
    BY <1>1, <2>1
<1>13. CASE ChangeLink \/ NextDay \/ Fetched \/ DiskRecovers \/ UNCHANGED vars
  <2>1. /\ UNCHANGED <<db, sending, requests, received>>
        /\ diskOK' = diskOK \/ diskOK'
    BY <1>13 DEF ChangeLink, NextDay, Fetched, DiskRecovers, vars, world
  <2>2. CalmCaches'
    BY <1>4, <2>1 DEF CalmCaches
  <2>3. QED
    BY <1>4, <2>1, <2>2, ThreadKept, EventsKept
<1>14. QED
  BY <1>5, <1>6, <1>7, <1>8, <1>9, <1>10, <1>11, <1>12, <1>13 DEF Next

LEMMA CalmInit == Init => CalmInv
<1> SUFFICES ASSUME Init
             PROVE  CalmInv
  OBVIOUS
<1>1. PICK old \in [1..Cardinality(Legacy) -> Legacy] :
         db = [c \in Channel |->
                 [EmptyStore EXCEPT
                    !.rows = {[id |-> i, key |-> old[i]] :
                                 i \in {j \in DOMAIN old : ChannelOf[old[j]] = c}},
                    !.nextId = Cardinality(Legacy) + 1]]
  BY DEF Init
<1>2. ASSUME NEW c \in Channel
      PROVE  db[c].updates = <<>> /\ \A e \in HeldIn(db[c]) : ChannelOf[e] = c
  <2>1. /\ db[c].updates = <<>>
        /\ db[c].rows = {[id |-> i, key |-> old[i]] :
                           i \in {j \in DOMAIN old : ChannelOf[old[j]] = c}}
    BY <1>1 DEF EmptyStore
  <2>2. HeldIn(db[c]) = Keys(db[c].rows)
    BY <2>1, ApplyEmpty DEF HeldIn
  <2>3. QED
    BY <2>1, <2>2 DEF Keys
<1>3. diskOK /\ requests = {} /\ sending = {} /\ received = [e \in Event |-> 0]
  BY DEF Init
<1>4. connErrors = 0
  BY DEF Init
<1>5. CalmCaches
  BY <1>2, <1>3 DEF CalmCaches, InPlace
<1>6. CalmThread
  BY <1>3 DEF CalmThread, Removing
<1>7. CalmEvents
  BY <1>3 DEF CalmEvents
<1>8. QED
  BY <1>4, <1>5, <1>6, <1>7 DEF CalmInv

(***************************************************************************)
(* With no failure the server gets every event at most once, for any       *)
(* number of channels, events and batches.                                 *)
(***************************************************************************)
THEOREM CalmIsOnce == Spec => []AtMostOnceWhenCalm
<1>1. CalmInv => AtMostOnceWhenCalm
  BY DEF CalmInv, Calm, CalmEvents, AtMostOnceWhenCalm
<1>2. IInv /\ Flags => FlagInv
  BY DEF IInv, FlagInv
<1>3. CalmInv /\ IInv /\ FlagInv /\ [Next]_vars => CalmInv'
  BY CalmNext
<1>4. QED
  BY <1>1, <1>2, <1>3, CalmInit, Invariance, FlagsHold, PTL DEF Spec

-----------------------------------------------------------------------------
(***************************************************************************)
(* The order of delivery.  What a database may still send, Kept, only      *)
(* grows by new events, each table and its cache are in the order of the   *)
(* posts, and an event that waits is with whatever was sent after it.      *)
(***************************************************************************)
Kept(s) == Keys(s.rows) \cup Sets(s.updates)

Home(c) == {e \in Event : ChannelOf[e] = c}

Tidy(acc, s) == OrderedRows(acc, s) /\ OrderedUpdates(acc, s.rows, s.updates)

(* F overtakes no event of the order acc that the databases d keep. *)
Waits(acc, d, R, F) ==
    \A i, j \in DOMAIN acc :
        /\ i < j
        /\ ChannelOf[acc[i]] = ChannelOf[acc[j]] /\ Policy[acc[i]] = Policy[acc[j]]
        /\ acc[i] \notin Legacy \cup HeldBack
        /\ acc[i] \in Kept(d[ChannelOf[acc[i]]])
        /\ acc[j] \in F
        => acc[i] \in R \cup F

DatabasesOrdered(acc, d) ==
    \A c \in Channel : Tidy(acc, d[c]) /\ Kept(d[c]) \subseteq Home(c)

OrderInv ==
    /\ OnceEach(accepted)
    /\ DatabasesOrdered(accepted, db)
    /\ Waits(accepted, db, Received, Received)
    /\ \A r \in requests : Waits(accepted, db, Received, r.events)

(* The databases e are those of d after flushes: in order, with nothing new. *)
Settles(acc, d, e) ==
    /\ e \in [Channel -> Store]
    /\ DatabasesOrdered(acc, e)
    /\ \A c \in Channel : Kept(e[c]) \subseteq Kept(d[c])

LEMMA FlushesTidy ==
    ASSUME NEW acc, DOMAIN acc \subseteq Nat, NEW s \in Store, Tidy(acc, s),
           NEW t, t = Flush(s) \/ t \in FailedFlushes(s)
    PROVE  t \in Store /\ Tidy(acc, t) /\ Kept(t) \subseteq Kept(s)
<1>1. /\ t \in Store
      /\ t.updates = <<>>
      /\ Keys(t.rows) \subseteq Keys(s.rows) \cup Sets(s.updates)
  BY FlushOutcome
<1>2. OrderedRows(acc, t)
  BY OrderKeptByFlush DEF Tidy
<1>3. QED
  BY <1>1, <1>2, OrderOfNothing, EmptyCache DEF Tidy, Kept

(* One database is written to, u, and flushed, s, or not. *)
LEMMA OneSettles ==
    ASSUME NEW acc, DOMAIN acc \subseteq Nat,
           NEW d \in [Channel -> Store], DatabasesOrdered(acc, d),
           NEW c \in Channel, NEW s, s = d[c] \/ s = Flush(d[c]) \/ s \in FailedFlushes(d[c])
    PROVE  Settles(acc, d, [d EXCEPT ![c] = s])
<1>1. d[c] \in Store /\ Tidy(acc, d[c]) /\ Kept(d[c]) \subseteq Home(c)
  BY DEF DatabasesOrdered
<1>2. s \in Store /\ Tidy(acc, s) /\ Kept(s) \subseteq Kept(d[c])
  BY <1>1, FlushesTidy
<1> DEFINE e == [d EXCEPT ![c] = s]
<1>3. e \in [Channel -> Store] /\ e[c] = s /\ \A b \in Channel : b # c => e[b] = d[b]
  BY <1>2
<1> HIDE DEF e
<1>4. Settles(acc, d, e)
  BY <1>1, <1>2, <1>3 DEF Settles, DatabasesOrdered
<1>5. QED
  BY <1>4 DEF e

LEMMA FlushDBSettles ==
    ASSUME NEW acc, DOMAIN acc \subseteq Nat,
           NEW d \in [Channel -> Store], DatabasesOrdered(acc, d), NEW e \in FlushDB(d)
    PROVE  Settles(acc, d, e)
<1>1. PICK f \in [Timing -> UNION {Flushes(d[c]) : c \in Timing}] :
         /\ \A c \in Timing : f[c] \in Flushes(d[c])
         /\ e = [c \in Channel |-> IF c \in Timing THEN f[c] ELSE d[c]]
  BY DEF FlushDB
<1>2. ASSUME NEW c \in Channel
      PROVE  /\ e[c] \in Store
             /\ Tidy(acc, e[c]) /\ Kept(e[c]) \subseteq Home(c)
             /\ Kept(e[c]) \subseteq Kept(d[c])
  <2>1. e[c] = d[c] \/ e[c] = Flush(d[c]) \/ e[c] \in FailedFlushes(d[c])
    BY <1>1 DEF Flushes
  <2>2. d[c] \in Store /\ Tidy(acc, d[c]) /\ Kept(d[c]) \subseteq Home(c)
    BY DEF DatabasesOrdered
  <2>3. QED
    BY <2>1, <2>2, FlushesTidy
<1>3. e \in [Channel -> Store]
  BY <1>1, <1>2
<1>4. QED
  BY <1>2, <1>3 DEF Settles, DatabasesOrdered

LEMMA SettlesTransitive ==
    ASSUME NEW acc, NEW d, NEW e, NEW f, Settles(acc, d, e), Settles(acc, e, f)
    PROVE  Settles(acc, d, f)
<1>1. \A c \in Channel : Kept(f[c]) \subseteq Kept(d[c])
  BY DEF Settles
<1>2. QED
  BY <1>1 DEF Settles

(* One database may be flushed, and then all the timing ones. *)
LEMMA FlushesSettle ==
    ASSUME NEW acc, DOMAIN acc \subseteq Nat,
           NEW d \in [Channel -> Store], DatabasesOrdered(acc, d),
           NEW c \in Channel, NEW s, s = d[c] \/ s \in Flushes(d[c]),
           NEW e, e = [d EXCEPT ![c] = s] \/ e \in FlushDB([d EXCEPT ![c] = s])
    PROVE  Settles(acc, d, e)
<1> DEFINE f == [d EXCEPT ![c] = s]
<1>1. s = d[c] \/ s = Flush(d[c]) \/ s \in FailedFlushes(d[c])
  BY DEF Flushes
<1>2. Settles(acc, d, f)
  BY <1>1, OneSettles
<1>3. e = f \/ e \in FlushDB(f)
  OBVIOUS
<1> HIDE DEF f
<1>4. f \in [Channel -> Store] /\ DatabasesOrdered(acc, f)
  BY <1>2 DEF Settles
<1>5. CASE e = f
  BY <1>2, <1>5
<1>6. CASE e \in FlushDB(f)
  <2>1. Settles(acc, f, e)
    BY <1>4, <1>6, FlushDBSettles
  <2>2. QED
    BY <1>2, <2>1, SettlesTransitive
<1>7. QED
  BY <1>3, <1>5, <1>6

(* Less to wait, more received, and part of what was sent. *)
LEMMA WaitsKept ==
    ASSUME NEW acc, \A i \in DOMAIN acc : acc[i] \in Event,
           NEW d, NEW e, \A c \in Channel : Kept(e[c]) \subseteq Kept(d[c]),
           NEW R, NEW S, R \subseteq S,
           NEW F, NEW G, G \subseteq F, F \ G \subseteq S,
           Waits(acc, d, R, F)
    PROVE  Waits(acc, e, S, G)
<1>1. \A i \in DOMAIN acc : ChannelOf[acc[i]] \in Channel
  BY ManagerAssumption
<1>2. QED
  BY <1>1 DEF Waits

(* An event posted last is behind everything. *)
LEMMA WaitsPost ==
    ASSUME NEW acc \in Seq(Event), NEW k \in Event, \A i \in DOMAIN acc : acc[i] # k,
           NEW d, NEW e, \A c \in Channel : Kept(e[c]) \subseteq Kept(d[c]) \cup {k},
           NEW R, NEW F, k \notin F,
           Waits(acc, d, R, F)
    PROVE  Waits(Append(acc, k), e, R, F)
<1> DEFINE a == Append(acc, k)
           n == Len(acc)
<1>1. /\ n \in Nat
      /\ DOMAIN acc = 1..n
      /\ DOMAIN a = 1..(n + 1)
      /\ a[n + 1] = k
      /\ \A i \in 1..n : a[i] = acc[i] /\ acc[i] \in Event
  OBVIOUS
<1> HIDE DEF a, n
<1>2. \A i \in DOMAIN acc : ChannelOf[acc[i]] \in Channel
  BY <1>1, ManagerAssumption
<1>3. ASSUME NEW i \in DOMAIN a, NEW j \in DOMAIN a, i < j, a[j] \in F
      PROVE  i \in DOMAIN acc /\ j \in DOMAIN acc /\ a[i] = acc[i] /\ a[j] = acc[j]
  BY <1>1, <1>3
<1>4. Waits(a, e, R, F)
  BY <1>2, <1>3 DEF Waits
<1>5. QED
  BY <1>4 DEF a

(* A batch is a prefix of its table, and what is in the cache is behind it. *)
LEMMA WaitsBatch ==
    ASSUME IInv, OrderInv, NEW c \in Channel
    PROVE  Waits(accepted, db, Received, Batch(c))
<1>1. /\ db[c] \in Store /\ db[c].rows \in SUBSET Row
      /\ Tidy(accepted, db[c]) /\ Kept(db[c]) \subseteq Home(c)
  BY DEF IInv, Types, OrderInv, DatabasesOrdered, Store
<1> DEFINE rows == db[c].rows
           u == db[c].updates
           mask == PolicyMask
<1>2. DOMAIN accepted \subseteq Nat
  BY DEF IInv, Types
<1>3. SUFFICES ASSUME NEW i \in DOMAIN accepted, NEW j \in DOMAIN accepted,
                      i < j,
                      ChannelOf[accepted[i]] = ChannelOf[accepted[j]],
                      Policy[accepted[i]] = Policy[accepted[j]],
                      accepted[i] \notin Legacy \cup HeldBack,
                      accepted[i] \in Kept(db[ChannelOf[accepted[i]]]),
                      accepted[j] \in Batch(c)
               PROVE  accepted[i] \in Batch(c)
  BY DEF Waits
<1>4. accepted[j] \in GetEvents(rows, mask)
  BY <1>3 DEF Batch
<1> HIDE DEF rows, u, mask
<1>5. rows \in SUBSET Row /\ OrderedRows(accepted, db[c]) /\ OrderedUpdates(accepted, rows, u)
  BY <1>1 DEF Tidy, rows, u
<1>6. PICK r \in rows :
         /\ r.key = accepted[j]
         /\ \A q \in rows : q.id <= r.id /\ Policy[q.key] = Policy[accepted[j]]
                                => q.key \in GetEvents(rows, mask)
  BY <1>4, <1>5, BatchIsPrefix
<1>7. accepted[i] \in Kept(db[c])
  <2>1. accepted[j] \in Kept(db[c])
    BY <1>6 DEF Kept, Keys, rows
  <2>2. ChannelOf[accepted[j]] = c
    BY <1>1, <2>1 DEF Home
  <2>3. QED
    BY <1>3, <2>2
<1>8. CASE accepted[i] \in Sets(u)
  <2>1. PICK m \in DOMAIN u : ~u[m].null /\ u[m].key = accepted[i]
    BY <1>8 DEF Sets, KeysAt
  <2>2. j < i
    BY <1>5, <1>6, <2>1 DEF OrderedUpdates
  <2>3. QED
    BY <1>2, <1>3, <2>2
<1>9. CASE accepted[i] \in Keys(rows)
  <2>1. PICK q \in rows : q.key = accepted[i]
    BY <1>9 DEF Keys
  <2>2. q.id < r.id
    BY <1>3, <1>5, <1>6, <2>1 DEF OrderedRows, rows
  <2>3. q.id <= r.id
    BY <1>5, <2>2 DEF Row
  <2>4. accepted[i] \in GetEvents(rows, mask)
    BY <1>3, <1>6, <2>1, <2>3
  <2>5. QED
    BY <1>3, <2>4 DEF Batch, rows, mask
<1>10. QED
  BY <1>7, <1>8, <1>9 DEF Kept, rows, u

(* What a step that posts nothing and delivers nothing must do. *)
LEMMA OrderStep ==
    ASSUME IInv, OrderInv, UNCHANGED <<accepted, received>>,
           Settles(accepted, db, db'),
           \A q \in requests' :
              \/ Waits(accepted, db, Received, q.events)
              \/ \E r \in requests : q.events \subseteq r.events /\ r.events \ q.events \subseteq Received
    PROVE  OrderInv'
<1>1. /\ \A i \in DOMAIN accepted : accepted[i] \in Event
      /\ \A c \in Channel : Kept(db'[c]) \subseteq Kept(db[c])
      /\ DatabasesOrdered(accepted, db')
      /\ Received' = Received
  BY DEF IInv, Types, Settles, Received
<1>2. Waits(accepted, db', Received, Received)
  BY <1>1, WaitsKept DEF OrderInv
<1>3. ASSUME NEW q \in requests'
      PROVE  Waits(accepted, db', Received, q.events)
  <2>1. PICK F : /\ Waits(accepted, db, Received, F)
                 /\ q.events \subseteq F /\ F \ q.events \subseteq Received
    BY <1>3 DEF OrderInv
  <2>2. QED
    BY <1>1, <2>1, WaitsKept
<1>4. QED
  BY <1>1, <1>2, <1>3 DEF OrderInv

(* The databases do not change. *)
LEMMA OrderQuiet ==
    ASSUME IInv, OrderInv, UNCHANGED <<db, accepted, received>>,
           \A q \in requests' :
              \/ Waits(accepted, db, Received, q.events)
              \/ \E r \in requests : q.events = r.events
    PROVE  OrderInv'
<1>1. Settles(accepted, db, db')
  BY DEF IInv, Types, OrderInv, Settles
<1>2. QED
  BY <1>1, OrderStep

(* A new event goes last into the cache of its channel, which may be flushed. *)
LEMMA OrderPost ==
    ASSUME IInv, OrderInv, NEW e \in Event, e \notin Accepted,
           accepted' = Append(accepted, e), UNCHANGED <<received, requests>>,
           NEW s \in AfterSet(SetEvent(db[ChannelOf[e]], e), ChannelOf[e]),
           NEW f, f = [db EXCEPT ![ChannelOf[e]] = s],
           db' = f \/ db' \in FlushDB(f)
    PROVE  OrderInv'
<1> DEFINE c == ChannelOf[e]
           d == AfterPost(db, c, e)
           acc == Append(accepted, e)
<1>1. /\ db \in [Channel -> Store] /\ accepted \in Seq(Event) /\ c \in Channel
      /\ Consistent(db, Accepted, Received) /\ RequestsConsistent
      /\ \A i \in DOMAIN accepted : accepted[i] # e
  BY ManagerAssumption DEF IInv, Types, Accepted
<1>2. /\ d \in [Channel -> Store]
      /\ d[c] = SetEvent(db[c], e)
      /\ \A b \in Channel : b # c => d[b] = db[b]
      /\ f = [d EXCEPT ![c] = s]
  BY <1>1, SetEventType DEF AfterPost
<1> HIDE DEF d
<1>3. /\ DOMAIN acc \subseteq Nat /\ acc \in Seq(Event)
      /\ Received \subseteq Accepted /\ e \notin Received
      /\ \A r \in requests : e \notin r.events
  <2>1. Received \subseteq Accepted /\ Stored \subseteq Accepted
    BY <1>1 DEF Consistent, Stored
  <2>2. \A r \in requests : r.events \subseteq Stored \cup Received
    BY <1>1 DEF RequestsConsistent
  <2>3. acc \in Seq(Event)
    BY <1>1
  <2>4. QED
    BY <2>1, <2>2, <2>3
<1>4. OnceEach(acc) /\ \A b \in Channel : Tidy(acc, d[b]) /\ Kept(d[b]) \subseteq Home(b)
                                          /\ Kept(d[b]) \subseteq Kept(db[b]) \cup {e}
  <2>1. ASSUME NEW b \in Channel
        PROVE  /\ OnceEach(acc)
               /\ OrderedRows(acc, db[b])
               /\ OrderedUpdates(acc, db[b].rows, SetEvent(db[b], e).updates)
    <3>1. db[b] \in Store /\ Tidy(accepted, db[b]) /\ OnceEach(accepted)
      BY <1>1 DEF OrderInv, DatabasesOrdered
    <3>2. QED
      BY <1>1, <3>1, OrderKeptByAccept DEF Tidy
  <2>2. ASSUME NEW b \in Channel, b # c
        PROVE  Tidy(acc, d[b]) /\ Kept(d[b]) = Kept(db[b])
    <3>1. db[b] \in Store /\ d[b] = db[b]
      BY <1>1, <1>2, <2>2
    <3>2. OrderedUpdates(acc, db[b].rows, db[b].updates)
      BY <2>1, <3>1, OrderBeforeSet
    <3>3. QED
      BY <2>1, <3>1, <3>2 DEF Tidy
  <2>3. Tidy(acc, d[c]) /\ Kept(d[c]) = Kept(db[c]) \cup {e}
    <3>1. /\ SetEvent(db[c], e) \in Store
          /\ SetEvent(db[c], e).rows = db[c].rows
          /\ Sets(SetEvent(db[c], e).updates) = Sets(db[c].updates) \cup {e}
      BY <1>1, SetEventType, SetEventKeys
    <3>2. SetEvent(db[c], e).nextId = db[c].nextId
      BY <1>1 DEF SetEvent, Store
    <3>3. OrderedRows(acc, SetEvent(db[c], e))
      BY <1>1, <2>1, <3>1, <3>2 DEF OrderedRows
    <3>4. OrderedUpdates(acc, db[c].rows, SetEvent(db[c], e).updates)
      BY <1>1, <2>1
    <3>5. QED
      BY <1>2, <3>1, <3>3, <3>4 DEF Tidy, Kept
  <2>4. e \in Home(c) /\ \A b \in Channel : Kept(db[b]) \subseteq Home(b)
    BY <1>1 DEF Home, OrderInv, DatabasesOrdered
  <2>5. OnceEach(acc)
    BY <1>1, <2>1
  <2> HIDE DEF c, acc
  <2>6. QED
    BY <2>2, <2>3, <2>4, <2>5
<1>5. Settles(acc, d, db')
  <2>1. s = d[c] \/ s \in Flushes(d[c])
    BY <1>2 DEF AfterSet
  <2>2. DatabasesOrdered(acc, d)
    BY <1>4 DEF DatabasesOrdered
  <2>3. db' = [d EXCEPT ![c] = s] \/ db' \in FlushDB([d EXCEPT ![c] = s])
    BY <1>2
  <2> HIDE DEF acc, c
  <2>4. QED
    BY <1>1, <1>2, <1>3, <2>1, <2>2, <2>3, FlushesSettle
<1>6. \A b \in Channel : Kept(db'[b]) \subseteq Kept(db[b]) \cup {e}
  <2>1. \A b \in Channel : Kept(db'[b]) \subseteq Kept(d[b])
    BY <1>5 DEF Settles
  <2>2. QED
    BY <1>4, <2>1
<1>7. Received' = Received
  BY DEF Received
<1>8. ASSUME NEW F, e \notin F, Waits(accepted, db, Received, F)
      PROVE  Waits(acc, db', Received, F)
  BY <1>1, <1>6, <1>8, WaitsPost
<1>9. /\ Waits(acc, db', Received, Received)
      /\ \A r \in requests : Waits(acc, db', Received, r.events)
  BY <1>3, <1>8 DEF OrderInv
<1>10. DatabasesOrdered(acc, db')
  BY <1>5 DEF Settles
<1>11. QED
  BY <1>4, <1>7, <1>9, <1>10 DEF OrderInv

(* The server has the events of one more request, or has them once more. *)
LEMMA OrderReceive ==
    ASSUME IInv, OrderInv, NEW r \in requests, ServerReceives(r)
    PROVE  OrderInv'
<1>1. /\ \A i \in DOMAIN accepted : accepted[i] \in Event
      /\ DatabasesOrdered(accepted, db) /\ OnceEach(accepted)
      /\ requests \in SUBSET Request /\ r \in Request /\ r.events \subseteq Event
      /\ received \in [Event -> 0..2]
      /\ Waits(accepted, db, Received, Received)
      /\ Waits(accepted, db, Received, r.events)
  <2>1. /\ accepted \in Seq(Event) /\ requests \in SUBSET Request
        /\ received \in [Event -> 0..2]
    BY DEF IInv, Types
  <2>2. r \in Request /\ r.events \subseteq Event
    BY <2>1, RequestFields
  <2>3. QED
    BY <2>1, <2>2 DEF OrderInv
<1>2. /\ db' = db /\ accepted' = accepted
      /\ requests' = (requests \ {r}) \cup {[r EXCEPT !.state = "got"]}
      /\ received' = [e \in Event |-> IF e \in r.events /\ received[e] < 2
                                      THEN received[e] + 1 ELSE received[e]]
  BY DEF ServerReceives, Become
<1>3. Received' = Received \cup r.events
  BY <1>1, <1>2 DEF Received
<1>4. [r EXCEPT !.state = "got"].events = r.events
  BY <1>1, RequestFields
<1>5. Waits(accepted, db, Received', Received')
  BY <1>1, <1>3 DEF Waits
<1>6. ASSUME NEW q \in requests'
      PROVE  Waits(accepted, db, Received', q.events)
  <2>1. PICK p \in requests : q.events = p.events
    BY <1>2, <1>4, <1>6
  <2>2. Waits(accepted, db, Received, p.events)
    BY DEF OrderInv
  <2>3. QED
    BY <1>1, <1>3, <2>1, <2>2, WaitsKept
<1>7. QED
  BY <1>1, <1>2, <1>5, <1>6 DEF OrderInv

(* A removal is cached, and may be flushed. *)
LEMMA OrderRemove ==
    ASSUME IInv, OrderInv, NEW r \in requests, NEW e \in r.events, RemoveEvent(r, e)
    PROVE  OrderInv'
<1> DEFINE c == r.channel
           d == AfterRemove(db, c, e)
           q == [r EXCEPT !.events = @ \ {e}]
<1>1. /\ db \in [Channel -> Store] /\ accepted \in Seq(Event)
      /\ r \in Request /\ c \in Channel /\ e \in Event /\ e \in Received
      /\ q.events = r.events \ {e}
      /\ DatabasesOrdered(accepted, db)
  <2>1. /\ db \in [Channel -> Store] /\ accepted \in Seq(Event)
        /\ r \in Request /\ RequestsConsistent /\ r.state = "removing"
        /\ DatabasesOrdered(accepted, db)
    BY DEF IInv, Types, RemoveEvent, OrderInv
  <2>2. r.events \subseteq Received
    BY <2>1 DEF RequestsConsistent
  <2>3. q.events = r.events \ {e} /\ c \in Channel /\ r.events \subseteq Event
    BY <2>1 DEF Request
  <2>4. QED
    BY <2>1, <2>2, <2>3
<1>2. PICK s \in AfterSet(SetEventNil(db[c], e), c) : db' = [db EXCEPT ![c] = s]
  BY DEF RemoveEvent
<1>3. requests' = (requests \ {r}) \cup {q} /\ UNCHANGED <<accepted, received>>
  BY DEF RemoveEvent
<1> HIDE DEF q
<1>4. /\ d \in [Channel -> Store]
      /\ d[c] = SetEventNil(db[c], e)
      /\ \A b \in Channel : b # c => d[b] = db[b]
      /\ db' = [d EXCEPT ![c] = s]
  BY <1>1, <1>2, SetEventType DEF AfterRemove
<1> HIDE DEF d
<1>5. DatabasesOrdered(accepted, d) /\ \A b \in Channel : Kept(d[b]) = Kept(db[b])
  <2>1. /\ SetEventNil(db[c], e).rows = db[c].rows
        /\ SetEventNil(db[c], e).nextId = db[c].nextId
        /\ Sets(SetEventNil(db[c], e).updates) = Sets(db[c].updates)
        /\ OrderedUpdates(accepted, db[c].rows, SetEventNil(db[c], e).updates)
    <3>1. db[c] \in Store /\ OrderedUpdates(accepted, db[c].rows, db[c].updates)
      BY <1>1 DEF DatabasesOrdered, Tidy
    <3>2. SetEventNil(db[c], e).nextId = db[c].nextId
      BY <3>1 DEF SetEventNil, Store
    <3>3. QED
      BY <1>1, <3>1, <3>2, SetEventType, SetEventKeys, OrderKeptByNil
  <2>2. OrderedRows(accepted, db[c])
    BY <1>1 DEF DatabasesOrdered, Tidy
  <2>3. Tidy(accepted, d[c]) /\ Kept(d[c]) = Kept(db[c])
    BY <1>4, <2>1, <2>2 DEF Tidy, Kept, OrderedRows
  <2>4. \A b \in Channel : Tidy(accepted, db[b]) /\ Kept(db[b]) \subseteq Home(b)
    BY <1>1 DEF DatabasesOrdered
  <2> HIDE DEF c
  <2>5. \A b \in Channel : Tidy(accepted, d[b]) /\ Kept(d[b]) = Kept(db[b])
    BY <1>4, <2>3, <2>4
  <2>6. QED
    BY <2>4, <2>5 DEF DatabasesOrdered
<1>6. Settles(accepted, db, db')
  <2>1. s = d[c] \/ s \in Flushes(d[c])
    BY <1>2, <1>4 DEF AfterSet
  <2>2. DOMAIN accepted \subseteq Nat
    BY <1>1
  <2>3. Settles(accepted, d, db')
    BY <1>1, <1>4, <1>5, <2>1, <2>2, FlushesSettle
  <2>4. QED
    BY <1>5, <2>3 DEF Settles
<1>7. \A p \in requests' :
         \/ Waits(accepted, db, Received, p.events)
         \/ \E x \in requests : p.events \subseteq x.events /\ x.events \ p.events \subseteq Received
  BY <1>1, <1>3 DEF OrderInv
<1>8. QED
  BY <1>3, <1>6, <1>7, OrderStep

(* The process ends, with the databases as d, and another one starts. *)
LEMMA OrderNewProcess ==
    ASSUME IInv, OrderInv, NEW d, Settles(accepted, db, d), NewProcess(d)
    PROVE  OrderInv'
<1>1. PICK old : db' = Reopened(d, old)
  BY DEF NewProcess
<1>2. requests' = {} /\ UNCHANGED <<accepted, received>>
  BY DEF NewProcess
<1>3. Settles(accepted, d, db')
  <2> DEFINE new(c) == [Drained(d[c]) EXCEPT !.rows = {r \in @ : r.id > old[c]}]
  <2>1. d \in [Channel -> Store] /\ DatabasesOrdered(accepted, d)
    BY DEF Settles
  <2>2. ASSUME NEW c \in Channel
        PROVE  /\ new(c) \in Store
               /\ new(c).updates = <<>>
               /\ new(c).rows \subseteq d[c].rows
               /\ new(c).nextId = d[c].nextId
    <3>1. /\ Drained(d[c]) \in Store
          /\ Drained(d[c]).updates = <<>>
          /\ Drained(d[c]).rows = d[c].rows
          /\ Drained(d[c]).nextId = d[c].nextId
      BY <2>1, DrainedType
    <3>2. QED
      BY <3>1 DEF Store
  <2>3. db' = [c \in Channel |-> new(c)]
    BY <1>1 DEF Reopened
  <2> HIDE DEF new
  <2>4. db' \in [Channel -> Store] /\ \A c \in Channel : db'[c] = new(c)
    BY <2>2, <2>3
  <2>5. ASSUME NEW c \in Channel
        PROVE  Tidy(accepted, db'[c]) /\ Kept(db'[c]) \subseteq Kept(d[c])
    <3>1. d[c] \in Store /\ OrderedRows(accepted, d[c])
      BY <2>1 DEF DatabasesOrdered, Tidy
    <3>2. OrderedRows(accepted, db'[c])
      BY <2>2, <2>4, <3>1, OrderKeptBySubset
    <3>3. OrderedUpdates(accepted, db'[c].rows, db'[c].updates)
      BY <2>2, <2>4, OrderOfNothing
    <3>4. Kept(db'[c]) \subseteq Kept(d[c])
      BY <2>2, <2>4, EmptyCache DEF Kept, Keys
    <3>5. QED
      BY <3>2, <3>3, <3>4 DEF Tidy
  <2>6. QED
    BY <2>1, <2>4, <2>5 DEF Settles, DatabasesOrdered
<1>4. Settles(accepted, db, db')
  BY <1>3, SettlesTransitive
<1>5. QED
  BY <1>2, <1>4, OrderStep

LEMMA OrderNext ==
    ASSUME IInv, OrderInv, [Next]_vars
    PROVE  OrderInv'
<1>1. /\ db \in [Channel -> Store] /\ accepted \in Seq(Event) /\ DOMAIN accepted \subseteq Nat
      /\ requests \in SUBSET Request /\ DatabasesOrdered(accepted, db)
  BY DEF IInv, Types, OrderInv
<1>2. ASSUME NEW e \in Event, PostEvent(e) \/ DidEnterBackground(e)
      PROVE  OrderInv'
  <2>1. /\ e \notin Accepted /\ accepted' = Append(accepted, e) /\ UNCHANGED <<received, requests>>
    BY <1>2 DEF PostEvent, DidEnterBackground
  <2>2. PICK s \in AfterSet(SetEvent(db[ChannelOf[e]], e), ChannelOf[e]) :
           \/ db' = [db EXCEPT ![ChannelOf[e]] = s]
           \/ db' \in FlushDB([db EXCEPT ![ChannelOf[e]] = s])
    <3>1. CASE PostEvent(e)
      BY <3>1 DEF PostEvent
    <3>2. CASE DidEnterBackground(e)
      BY <3>2 DEF DidEnterBackground
    <3>3. QED
      BY <1>2, <3>1, <3>2
  <2>3. QED
    BY <2>1, <2>2, OrderPost
<1>3. CASE SendAllChannelEvents \/ DidEnterBackgroundSilently
  <2>1. UNCHANGED <<accepted, received, requests>> /\ db' \in FlushDB(db)
    BY <1>3 DEF SendAllChannelEvents, DidEnterBackgroundSilently
  <2>2. Settles(accepted, db, db')
    BY <1>1, <2>1, FlushDBSettles
  <2>3. QED
    BY <2>1, <2>2, OrderStep
<1>4. ASSUME NEW c \in Channel, SendEventsOfChannel(c)
      PROVE  OrderInv'
  <2> DEFINE q == [id |-> NewId, channel |-> c, events |-> Batch(c),
                   cellular |-> WithinLimit, state |-> "sent"]
  <2>1. UNCHANGED <<db, accepted, received>> /\ requests' = requests \cup {q}
    BY <1>4 DEF SendEventsOfChannel
  <2>2. q.events = Batch(c)
    OBVIOUS
  <2>3. Waits(accepted, db, Received, Batch(c))
    BY WaitsBatch
  <2> HIDE DEF q
  <2>4. QED
    BY <2>1, <2>2, <2>3, OrderQuiet
<1>5. ASSUME NEW r \in requests, BadStatus(r) \/ ConnectionError(r) \/ ClearAgain(r) \/ DidSend(r)
      PROVE  OrderInv'
  <2>1. UNCHANGED <<db, accepted, received>>
    BY <1>5 DEF BadStatus, ConnectionError, ClearAgain, DidSend
  <2>2. \/ requests' = requests \ {r}
        \/ \E s \in {"cleared", "late", "removing"} : Become(r, s)
    BY <1>5 DEF BadStatus, ConnectionError, ClearAgain, DidSend
  <2>3. \A s \in {"cleared", "late", "removing"} : [r EXCEPT !.state = s].events = r.events
    BY <1>1, RequestFields
  <2>4. \A q \in requests' : \E p \in requests : q.events = p.events
    BY <2>2, <2>3 DEF Become
  <2>5. QED
    BY <2>1, <2>4, OrderQuiet
<1>6. ASSUME NEW r \in requests, EventsRemoved(r)
      PROVE  OrderInv'
  <2>1. UNCHANGED <<accepted, received>> /\ requests' = requests \ {r} /\ r.channel \in Channel
    BY <1>1, <1>6, RequestFields DEF EventsRemoved
  <2>2. PICK s \in Flushes(db[r.channel]) :
           \/ db' = [db EXCEPT ![r.channel] = s]
           \/ db' \in FlushDB([db EXCEPT ![r.channel] = s])
    BY <1>6 DEF EventsRemoved
  <2>3. Settles(accepted, db, db')
    BY <1>1, <2>1, <2>2, FlushesSettle
  <2>4. QED
    BY <2>1, <2>3, OrderStep
<1>7. CASE Crash \/ WillTerminate
  <2>1. Settles(accepted, db, db)
    BY <1>1 DEF Settles
  <2>2. CASE NewProcess(db)
    BY <2>1, <2>2, OrderNewProcess
  <2>3. ASSUME NEW c \in Channel, NEW s \in FailedFlushes(db[c]),
               NewProcess([db EXCEPT ![c] = s])
        PROVE  OrderInv'
    <3>1. Settles(accepted, db, [db EXCEPT ![c] = s])
      BY <1>1, <2>3, OneSettles
    <3>2. QED
      BY <2>3, <3>1, OrderNewProcess
  <2>4. QED
    BY <1>7, <2>2, <2>3 DEF Crash, WillTerminate
<1>8. CASE ChangeLink \/ NextDay \/ Fetched \/ DiskFails \/ DiskRecovers \/ UNCHANGED vars
  <2>1. UNCHANGED <<db, accepted, received, requests>>
    BY <1>8 DEF ChangeLink, NextDay, Fetched, DiskFails, DiskRecovers, vars
  <2>2. QED
    BY <2>1, OrderQuiet
<1>9. ASSUME NEW c \in Channel, ReturnFromSend(c)
      PROVE  OrderInv'
  <2>1. UNCHANGED <<db, accepted, received, requests>>
    BY <1>9 DEF ReturnFromSend
  <2>2. QED
    BY <2>1, OrderQuiet
<1>10. QED
  BY <1>2, <1>3, <1>4, <1>5, <1>6, <1>7, <1>8, <1>9, OrderReceive, OrderRemove DEF Next, Complete

LEMMA OrderInit == Init => OrderInv
<1> SUFFICES ASSUME Init
             PROVE  OrderInv
  OBVIOUS
<1> DEFINE n == Cardinality(Legacy)
<1>1. PICK old \in [1..n -> Legacy] :
         /\ \A i, j \in DOMAIN old : old[i] = old[j] => i = j
         /\ accepted = old
         /\ db = [c \in Channel |->
                    [EmptyStore EXCEPT
                       !.rows = {[id |-> i, key |-> old[i]] :
                                    i \in {j \in DOMAIN old : ChannelOf[old[j]] = c}},
                       !.nextId = n + 1]]
  BY DEF Init
<1>2. n \in Nat /\ \A i \in 1..n : old[i] \in Event
  BY <1>1, ManagerAssumption, FS_CardinalityType
<1> HIDE DEF n
<1>3. ASSUME NEW c \in Channel
      PROVE  /\ db[c].updates = <<>> /\ db[c].nextId = n + 1
             /\ \A r \in db[c].rows :
                   r.id \in 1..n /\ r.key = old[r.id] /\ ChannelOf[old[r.id]] = c
  <2>1. /\ db[c].updates = <<>> /\ db[c].nextId = n + 1
        /\ db[c].rows = {[id |-> i, key |-> old[i]] :
                            i \in {j \in DOMAIN old : ChannelOf[old[j]] = c}}
    BY <1>1 DEF EmptyStore
  <2>2. ASSUME NEW r \in db[c].rows
        PROVE  r.id \in 1..n /\ r.key = old[r.id] /\ ChannelOf[old[r.id]] = c
    <3>1. PICK i \in DOMAIN old : /\ r = [id |-> i, key |-> old[i]]
                                  /\ ChannelOf[old[i]] = c
      BY <2>1
    <3>2. r.id = i /\ r.key = old[i]
      BY <3>1
    <3>3. QED
      BY <1>1, <3>1, <3>2
  <2>3. QED
    BY <2>1, <2>2
<1>4. ASSUME NEW c \in Channel
      PROVE  Tidy(accepted, db[c]) /\ Kept(db[c]) \subseteq Home(c)
  <2>1. OrderedRows(accepted, db[c])
    <3>1. DOMAIN accepted = 1..n /\ accepted = old
      BY <1>1
    <3>2. \A r \in db[c].rows : r.id < db[c].nextId
      BY <1>2, <1>3
    <3>3. \A r \in db[c].rows : \E i \in DOMAIN accepted : accepted[i] = r.key
      BY <1>3, <3>1
    <3>4. \A i, j \in 1..n : old[i] = old[j] => i = j
      BY <1>1
    <3>5. \A q \in db[c].rows, i \in DOMAIN accepted : accepted[i] = q.key => i = q.id
      <4>1. \A q \in db[c].rows : q.id \in 1..n /\ q.key = old[q.id]
        BY <1>3
      <4>2. QED
        BY <3>1, <3>4, <4>1
    <3>6. QED
      BY <3>2, <3>3, <3>5 DEF OrderedRows
  <2>2. Keys(db[c].rows) \subseteq Home(c)
    BY <1>2, <1>3 DEF Keys, Home
  <2>3. QED
    BY <1>3, <2>1, <2>2, OrderOfNothing, EmptyCache DEF Tidy, Kept
<1>5. Received = {} /\ requests = {} /\ OnceEach(accepted)
  <2>1. received = [e \in Event |-> 0] /\ requests = {}
    BY DEF Init
  <2>2. Received = {}
    BY <2>1 DEF Received
  <2>3. QED
    BY <1>1, <2>1, <2>2 DEF OnceEach
<1>6. QED
  BY <1>4, <1>5 DEF OrderInv, DatabasesOrdered, Waits

(***************************************************************************)
(* An event that waits in a database is not overtaken by a later one of    *)
(* its channel and policy, however uploads fail and overlap, writes fail   *)
(* and the process ends.                                                   *)
(***************************************************************************)
THEOREM KeepsOrder == Spec => []InOrder
<1>1. OrderInv => InOrder
  <2> SUFFICES ASSUME OrderInv
               PROVE  InOrder
    OBVIOUS
  <2>1. \A c : Held(c) \subseteq Kept(db[c])
    <3>1. \A u : KeysAt(u, InsertArray(u)) \subseteq Sets(u)
      BY ArraysFromCache
    <3>2. QED
      BY <3>1 DEF Held, Apply, Kept
  <2>2. Waits(accepted, db, Received, Received)
    BY DEF OrderInv
  <2>3. QED
    BY <2>1, <2>2 DEF InOrder, Waits
<1>2. OrderInv /\ IInv /\ [Next]_vars => OrderInv'
  BY OrderNext
<1>3. QED
  BY <1>1, <1>2, OrderInit, Invariance, PTL DEF Spec

-----------------------------------------------------------------------------
(***************************************************************************)
(* The cellular budget.  An upload whose bytes will be counted started     *)
(* while the count was below the limit, a channel has one at a time, and   *)
(* each is at most as large as the largest batch.                          *)
(***************************************************************************)
MaxSize == Max({OutSize[S] : S \in Batches})

BoundedSizes == \E n \in Nat : \A S \in Batches : OutSize[S] <= n

LEMMA MaxSizeIsMax ==
    ASSUME BoundedSizes
    PROVE  MaxSize \in Nat /\ \A S \in Batches : OutSize[S] <= MaxSize
<1> DEFINE T == {OutSize[S] : S \in Batches}
<1>1. T \in SUBSET Nat
  BY ManagerAssumption DEF Batches
<1>2. {} \in Batches
  BY FS_EmptySet, StoreAssumption DEF Batches
<1>3. PICK n \in Nat : \A x \in T : x <= n
  BY DEF BoundedSizes
<1>4. T # {}
  BY <1>2
<1>5. \A S \in Batches : OutSize[S] \in T
  OBVIOUS
<1>6. MaxSize = Max(T)
  BY DEF MaxSize
<1> HIDE DEF T
<1>7. \E x \in T : \A y \in T : y <= x
  BY <1>1, <1>3, <1>4, GreatestNatural
<1>8. \E x \in T : \A y \in T : x >= y
  BY <1>1, <1>7
<1>9. MaxSize \in T /\ \A y \in T : MaxSize >= y
  BY <1>6, <1>8 DEF Max
<1>10. QED
  BY <1>1, <1>5, <1>9

(* The request of channel c that will be counted when it is answered. *)
Counted(r) == r.cellular /\ r.state \in {"sent", "got"}

Counting == {c \in Channel : \E r \in requests : r.channel = c /\ Counted(r)}

BudgetInv ==
    /\ \A r \in requests : Counted(r) => r.events \in Batches
    /\ connErrors = 0 =>
          /\ Counting # {} => CellularLimit > 0
          /\ \/ uploadEventSize = 0
             \/ uploadEventSize + Cardinality(Counting) * MaxSize
                   < CellularLimit + Cardinality(Channel) * MaxSize

(* What the steps of the budget presuppose. *)
Presumed == IsFiniteSet(Channel) /\ BoundedSizes /\ IInv /\ OrderInv /\ Flags

LEMMA BatchIsBatch ==
    ASSUME IInv, OrderInv, NEW c \in Channel
    PROVE  Batch(c) \in Batches
<1>1. /\ db[c] \in Store /\ DOMAIN accepted \subseteq Nat
      /\ OrderedRows(accepted, db[c])
  BY DEF IInv, Types, OrderInv, DatabasesOrdered, Tidy
<1> DEFINE rows == db[c].rows
           B == GetEvents(rows, PolicyMask)
<1>2. /\ IsFiniteSet(rows) /\ rows \in SUBSET Row
      /\ db[c].nextId \in Nat /\ \A r \in rows : r.id < db[c].nextId
  <2>1. IsFiniteSet(rows)
    BY <1>1, OrderedRowsFinite
  <2>2. QED
    BY <1>1, <2>1 DEF Store, OrderedRows
<1>3. IsFiniteSet(B) /\ Cardinality(B) <= MaxBatch
  <2> HIDE DEF rows
  <2>1. QED
    BY <1>2, BatchFits
<1>4. Batch(c) \in SUBSET B
  BY DEF Batch
<1>5. B \subseteq Event
  BY <1>2 DEF GetEvents, Keys, Candidates, Row
<1> HIDE DEF B
<1>6. /\ Cardinality(Batch(c)) <= Cardinality(B) /\ Cardinality(B) \in Nat
      /\ Cardinality(Batch(c)) \in Nat /\ MaxBatch \in Nat
  BY <1>3, <1>4, FS_Subset, FS_CardinalityType, StoreAssumption
<1>7. QED
  BY <1>3, <1>4, <1>5, <1>6 DEF Batches

LEMMA CountingFinite ==
    ASSUME IsFiniteSet(Channel), NEW P \in SUBSET Channel
    PROVE  /\ IsFiniteSet(P) /\ Cardinality(P) \in Nat
           /\ Cardinality(Channel) \in Nat /\ Cardinality(P) <= Cardinality(Channel)
BY FS_Subset, FS_CardinalityType

LEMMA Product ==
    ASSUME NEW m \in Nat, NEW i \in Nat, NEW j \in Nat, i <= j
    PROVE  i * m \in Nat /\ j * m \in Nat /\ i * m <= j * m /\ (j + 1) * m = j * m + m
OBVIOUS

(* No upload becomes a counted one, and none of them has been counted. *)
LEMMA BudgetKept ==
    ASSUME Presumed, BudgetInv,
           \A q \in requests' : Counted(q) =>
              \E r \in requests : Counted(r) /\ q.channel = r.channel /\ q.events = r.events,
           uploadEventSize' \in {0, uploadEventSize},
           connErrors' = connErrors
    PROVE  BudgetInv'
<1>1. /\ connErrors \in Nat /\ uploadEventSize \in Nat
      /\ MaxSize \in Nat /\ CellularLimit \in Nat
  BY MaxSizeIsMax, ManagerAssumption DEF Presumed, IInv, Types
<1>2. \A q \in requests' : Counted(q) => q.events \in Batches
  BY DEF BudgetInv
<1>3. Counting' \in SUBSET Counting /\ Counting \in SUBSET Channel
  BY DEF Counting
<1>4. (\A q \in requests : Counted(q) => q.events \in Batches)'
  BY <1>2 DEF Counted, Batches
<1>5. CASE connErrors = 0
  <2> DEFINE i == Cardinality(Counting')
             j == Cardinality(Counting)
             n == Cardinality(Channel)
  <2>1. i \in Nat /\ j \in Nat /\ n \in Nat /\ i <= j
    <3>1. IsFiniteSet(Counting) /\ j \in Nat /\ n \in Nat
      BY <1>3, CountingFinite DEF Presumed
    <3>2. QED
      BY <1>3, <3>1, FS_Subset, FS_CardinalityType
  <2>2. Counting' # {} => CellularLimit > 0
    BY <1>3, <1>5 DEF BudgetInv
  <2>3. uploadEventSize = 0 \/ uploadEventSize + j * MaxSize < CellularLimit + n * MaxSize
    BY <1>5 DEF BudgetInv
  <2> HIDE DEF i, j, n
  <2> DEFINE im == i * MaxSize
             jm == j * MaxSize
             nm == n * MaxSize
  <2>4. im \in Nat /\ jm \in Nat /\ nm \in Nat /\ im <= jm
    BY <1>1, <2>1, Product
  <2>5. uploadEventSize = 0 \/ uploadEventSize + jm < CellularLimit + nm
    BY <2>3
  <2> HIDE DEF im, jm, nm
  <2>6. uploadEventSize' = 0 \/ uploadEventSize' + im < CellularLimit + nm
    <3>1. CASE uploadEventSize' = 0
      BY <3>1
    <3>2. CASE uploadEventSize' = uploadEventSize
      BY <1>1, <2>4, <2>5, <3>2
    <3>3. QED
      BY <3>1, <3>2
  <2>7. QED
    BY <1>4, <2>2, <2>6 DEF BudgetInv, im, nm, i, n, MaxSize, Batches
<1>6. CASE connErrors # 0
  BY <1>4, <1>6 DEF BudgetInv
<1>7. QED
  BY <1>5, <1>6

(* The upload of a batch of c starts, below the limit if it is counted. *)
LEMMA BudgetSend ==
    ASSUME Presumed, BudgetInv, NEW c \in Channel, SendEventsOfChannel(c)
    PROVE  BudgetInv'
<1> DEFINE q == [id |-> NewId, channel |-> c, events |-> Batch(c),
                 cellular |-> WithinLimit, state |-> "sent"]
<1>1. /\ requests' = requests \cup {q}
      /\ uploadEventSize' = uploadEventSize /\ connErrors' = connErrors
      /\ q.channel = c /\ q.events = Batch(c) /\ q.cellular = WithinLimit
  BY DEF SendEventsOfChannel, history
<1> HIDE DEF q
<1>2. /\ connErrors \in Nat /\ uploadEventSize \in Nat
      /\ MaxSize \in Nat /\ CellularLimit \in Nat
  BY MaxSizeIsMax, ManagerAssumption DEF Presumed, IInv, Types
<1>3. CASE ~Counted(q)
  <2>1. \A p \in requests' : Counted(p) =>
           \E r \in requests : Counted(r) /\ p.channel = r.channel /\ p.events = r.events
    BY <1>1, <1>3
  <2>2. QED
    BY <1>1, <2>1, BudgetKept
<1>4. CASE Counted(q)
  <2>1. WithinLimit
    BY <1>1, <1>4 DEF Counted
  <2>2. uploadEventSize < CellularLimit /\ CellularLimit > 0
    BY <1>2, <2>1 DEF WithinLimit
  <2>3. (\A r \in requests : Counted(r) => r.events \in Batches)'
    <3>1. Batch(c) \in Batches
      BY BatchIsBatch DEF Presumed
    <3>2. \A p \in requests' : Counted(p) => p.events \in Batches
      BY <1>1, <3>1 DEF BudgetInv
    <3>3. QED
      BY <3>2 DEF Counted, Batches
  <2> DEFINE i == Cardinality(Counting')
             n == Cardinality(Channel)
  <2>4. i \in Nat /\ n \in Nat /\ i <= n
    <3>1. Counting' \in SUBSET Channel
      BY DEF Counting
    <3>2. QED
      BY <3>1, CountingFinite DEF Presumed
  <2> HIDE DEF i, n
  <2> DEFINE im == i * MaxSize
             nm == n * MaxSize
  <2>5. im \in Nat /\ nm \in Nat /\ im <= nm
    BY <1>2, <2>4, Product
  <2> HIDE DEF im, nm
  <2>6. uploadEventSize' + im < CellularLimit + nm
    BY <1>1, <1>2, <2>2, <2>5
  <2>7. QED
    BY <2>2, <2>3, <2>6 DEF BudgetInv, im, nm, i, n, MaxSize, Batches
<1>5. QED
  BY <1>3, <1>4

(* The bytes of an answered upload are counted; it was its channel's only one. *)
LEMMA BudgetDidSend ==
    ASSUME Presumed, BudgetInv, NEW r \in requests, DidSend(r)
    PROVE  BudgetInv'
<1> DEFINE q == [r EXCEPT !.state = "removing"]
<1>1. /\ r \in Request /\ r.channel \in Channel
      /\ connErrors \in Nat /\ uploadEventSize \in Nat
      /\ MaxSize \in Nat /\ CellularLimit \in Nat
      /\ \A S \in Batches : OutSize[S] <= MaxSize /\ OutSize[S] \in Nat
  <2>1. r \in Request /\ connErrors \in Nat /\ uploadEventSize \in Nat
    BY DEF Presumed, IInv, Types
  <2>2. BoundedSizes
    BY DEF Presumed
  <2>3. \A S \in Batches : OutSize[S] \in Nat
    BY ManagerAssumption DEF Batches
  <2>4. QED
    BY <2>1, <2>2, <2>3, RequestFields, MaxSizeIsMax, ManagerAssumption
<1>2. /\ requests' = (requests \ {r}) \cup {q}
      /\ uploadEventSize' = uploadEventSize + (IF r.cellular THEN OutSize[r.events] ELSE 0)
      /\ connErrors' = connErrors
      /\ r.state \in {"got", "late"}
  BY DEF DidSend, Become, history
<1>3. ~Counted(q) /\ q.channel = r.channel
  BY <1>1, RequestFields DEF Counted, Request
<1> HIDE DEF q
<1>4. \A p \in requests' : Counted(p) => p \in requests /\ p # r
  BY <1>2, <1>3
<1>5. CASE ~r.cellular
  BY <1>1, <1>2, <1>4, <1>5, BudgetKept
<1>6. CASE r.cellular /\ connErrors # 0
  <2>1. (\A p \in requests : Counted(p) => p.events \in Batches)'
    BY <1>4 DEF BudgetInv, Counted, Batches
  <2>2. QED
    BY <1>2, <1>6, <2>1 DEF BudgetInv
<1>7. CASE r.cellular /\ connErrors = 0
  <2>1. Counted(r) /\ r.channel \in Counting
    <3>1. r.state # "late"
      BY <1>7 DEF Presumed, Flags
    <3>2. QED
      BY <1>1, <1>2, <1>7, <3>1 DEF Counted, Counting
  <2>2. (\A p \in requests : Counted(p) => p.events \in Batches)'
    BY <1>4 DEF BudgetInv, Counted, Batches
  <2>3. \A p \in requests : p.channel = r.channel => p = r
    <3> DEFINE R == Of(r.channel)
    <3>1. IsFiniteSet(R) /\ Cardinality(R) \in Nat
      BY OfFinite DEF Presumed, IInv
    <3>2. Cardinality(R) <= 1
      BY <1>1, <1>7, <3>1 DEF Presumed, Flags, One
    <3>3. r \in R
      BY DEF Of
    <3>4. ASSUME NEW p \in R, p # r
          PROVE  FALSE
      <4> HIDE DEF R
      <4>1. /\ IsFiniteSet(R \ {r}) /\ Cardinality(R \ {r}) = Cardinality(R) - 1
        BY <3>1, <3>3, FS_RemoveElement
      <4>2. Cardinality(R \ {r}) = 0
        BY <3>1, <3>2, <4>1, FS_CardinalityType
      <4>3. R \ {r} = {}
        BY <4>1, <4>2, FS_EmptySet
      <4>4. QED
        BY <3>4, <4>3
    <3>5. QED
      BY <3>4 DEF Of
  <2>4. Counting' \subseteq Counting \ {r.channel}
    <3>1. ASSUME NEW p \in requests', Counted(p)
          PROVE  p \in requests /\ p.channel # r.channel
      BY <1>4, <2>3, <3>1
    <3>2. Counting' = {c \in Channel : \E p \in requests' : p.channel = c /\ Counted(p)}
      BY DEF Counting, Counted
    <3>3. QED
      BY <3>1, <3>2 DEF Counting
  <2> DEFINE i == Cardinality(Counting')
             j == Cardinality(Counting)
             n == Cardinality(Channel)
             k == Cardinality(Counting \ {r.channel})
  <2>5. i \in Nat /\ j \in Nat /\ n \in Nat /\ k \in Nat /\ i <= k /\ k + 1 = j /\ j <= n
    <3>1. Counting \in SUBSET Channel
      BY DEF Counting
    <3>2. IsFiniteSet(Counting) /\ j \in Nat /\ n \in Nat /\ j <= n
      BY <3>1, CountingFinite DEF Presumed
    <3>3. IsFiniteSet(Counting \ {r.channel}) /\ k = j - 1
      BY <2>1, <3>2, FS_RemoveElement
    <3>4. k \in Nat
      BY <3>3, FS_CardinalityType
    <3>5. i \in Nat /\ i <= k
      BY <2>4, <3>3, FS_Subset, FS_CardinalityType
    <3>6. QED
      BY <3>2, <3>3, <3>4, <3>5
  <2>6. /\ CellularLimit > 0
        /\ uploadEventSize = 0 \/ uploadEventSize + j * MaxSize < CellularLimit + n * MaxSize
    BY <1>7, <2>1 DEF BudgetInv
  <2>7. /\ OutSize[r.events] <= MaxSize /\ OutSize[r.events] \in Nat
        /\ uploadEventSize' = uploadEventSize + OutSize[r.events]
    BY <1>1, <1>2, <1>7, <2>1 DEF BudgetInv
  <2> HIDE DEF i, j, n, k
  <2> DEFINE im == i * MaxSize
             jm == j * MaxSize
             km == k * MaxSize
             nm == n * MaxSize
             size == OutSize[r.events]
  <2>8. im \in Nat /\ jm \in Nat /\ nm \in Nat /\ im <= km /\ jm = km + MaxSize /\ jm <= nm
        /\ km \in Nat
    BY <1>1, <2>5, Product
  <2>9. uploadEventSize = 0 \/ uploadEventSize + jm < CellularLimit + nm
    BY <2>6
  <2>10. size <= MaxSize /\ size \in Nat /\ uploadEventSize' = uploadEventSize + size
    BY <2>7
  <2> HIDE DEF im, jm, km, nm, size
  <2>11. uploadEventSize' + im < CellularLimit + nm
    BY <1>1, <2>6, <2>8, <2>9, <2>10
  <2>12. QED
    BY <2>2, <2>6, <2>11 DEF BudgetInv, im, nm, i, n, MaxSize, Batches
<1>8. QED
  BY <1>5, <1>6, <1>7

LEMMA BudgetNext ==
    ASSUME Presumed, BudgetInv, [Next]_vars
    PROVE  BudgetInv'
<1>1. requests \in SUBSET Request
  BY DEF Presumed, IInv, Types
<1>2. ASSUME NEW r \in requests, ServerReceives(r)
      PROVE  BudgetInv'
  <2> DEFINE q == [r EXCEPT !.state = "got"]
  <2>1. /\ requests' = (requests \ {r}) \cup {q} /\ r.state = "sent"
        /\ UNCHANGED <<uploadEventSize, connErrors>>
    BY <1>2 DEF ServerReceives, Become, history
  <2>2. q.channel = r.channel /\ q.events = r.events /\ q.cellular = r.cellular
    BY <1>1 DEF Request
  <2> HIDE DEF q
  <2>3. Counted(q) => Counted(r)
    BY <2>1, <2>2 DEF Counted
  <2>4. QED
    BY <2>1, <2>2, <2>3, BudgetKept
<1>3. ASSUME NEW r \in requests, ConnectionError(r)
      PROVE  BudgetInv'
  <2>1. PICK s \in {"cleared", "late"} : Become(r, s)
    BY <1>3 DEF ConnectionError
  <2>2. [r EXCEPT !.state = s].state = s
    BY <1>1, RequestFields
  <2>3. \A q \in requests' : Counted(q) => q \in requests
    BY <2>1, <2>2 DEF Become, Counted
  <2>4. connErrors' # 0
    <3>1. connErrors' = connErrors + 1 /\ connErrors \in Nat
      BY <1>3 DEF ConnectionError, Presumed, IInv, Types
    <3>2. QED
      BY <3>1
  <2>5. (\A r_1 \in requests : Counted(r_1) => r_1.events \in Batches)'
    BY <2>3 DEF BudgetInv, Counted, Batches
  <2>6. QED
    BY <2>4, <2>5 DEF BudgetInv
<1>4. ASSUME NEW r \in requests, BadStatus(r) \/ ClearAgain(r) \/ EventsRemoved(r)
      PROVE  BudgetInv'
  <2>1. requests' \subseteq requests /\ UNCHANGED <<uploadEventSize, connErrors>>
    BY <1>4 DEF BadStatus, ClearAgain, EventsRemoved, history
  <2>2. QED
    BY <2>1, BudgetKept
<1>5. ASSUME NEW r \in requests, NEW e \in r.events, RemoveEvent(r, e)
      PROVE  BudgetInv'
  <2> DEFINE q == [r EXCEPT !.events = @ \ {e}]
  <2>1. /\ requests' = (requests \ {r}) \cup {q} /\ r.state = "removing"
        /\ UNCHANGED <<uploadEventSize, connErrors>>
    BY <1>5 DEF RemoveEvent, history
  <2>2. q.state = r.state
    BY <1>1 DEF Request
  <2> HIDE DEF q
  <2>3. ~Counted(q)
    BY <2>1, <2>2 DEF Counted
  <2>4. QED
    BY <2>1, <2>3, BudgetKept
<1>6. CASE Crash \/ WillTerminate
  <2>1. requests' = {} /\ UNCHANGED <<uploadEventSize, connErrors>>
    BY <1>6 DEF Crash, WillTerminate, NewProcess
  <2>2. QED
    BY <2>1, BudgetKept
<1>7. CASE NextDay
  <2>1. requests' = requests /\ uploadEventSize' = 0 /\ connErrors' = connErrors
    BY <1>7 DEF NextDay, history
  <2>2. QED
    BY <2>1, BudgetKept
<1>8. CASE UNCHANGED <<requests, uploadEventSize, connErrors>>
  BY <1>8, BudgetKept
<1>9. QED
  BY <1>2, <1>3, <1>4, <1>5, <1>6, <1>7, <1>8, BudgetSend, BudgetDidSend
  DEF Next, Complete, PostEvent, DidEnterBackground, DidEnterBackgroundSilently,
      SendAllChannelEvents, ReturnFromSend, ChangeLink, Fetched, DiskFails,
      DiskRecovers, vars, history

LEMMA BudgetInit == Init => BudgetInv
BY DEF Init, BudgetInv, Counting

(***************************************************************************)
(* Without a connection error the bytes counted on a cellular link         *)
(* overshoot the limit by less than one batch per channel, for any number  *)
(* of channels and events, provided the requests of a batch are bounded.   *)
(***************************************************************************)
THEOREM StaysInBudget ==
    ASSUME IsFiniteSet(Channel), BoundedSizes
    PROVE  Spec => []CellularBudget
<1>1. Presumed /\ BudgetInv => CellularBudget
  <2> SUFFICES ASSUME Presumed, BudgetInv, connErrors = 0, uploadEventSize # 0
               PROVE  uploadEventSize < CellularLimit + Cardinality(Channel) * MaxSize
    BY DEF CellularBudget, MaxSize
  <2> DEFINE i == Cardinality(Counting)
             n == Cardinality(Channel)
  <2>1. i \in Nat /\ n \in Nat /\ i <= n
    <3>1. Counting \in SUBSET Channel
      BY DEF Counting
    <3>2. QED
      BY <3>1, CountingFinite DEF Presumed
  <2>2. MaxSize \in Nat /\ uploadEventSize \in Nat /\ CellularLimit \in Nat
    BY MaxSizeIsMax, ManagerAssumption DEF Presumed, IInv, Types
  <2>3. uploadEventSize + i * MaxSize < CellularLimit + n * MaxSize
    BY DEF BudgetInv
  <2> HIDE DEF i, n
  <2>4. i * MaxSize \in Nat /\ n * MaxSize \in Nat
    BY <2>1, <2>2, Product
  <2> DEFINE im == i * MaxSize
             nm == n * MaxSize
  <2>5. im \in Nat /\ nm \in Nat /\ uploadEventSize + im < CellularLimit + nm
    BY <2>3, <2>4
  <2> HIDE DEF im, nm
  <2>6. uploadEventSize < CellularLimit + nm
    BY <2>2, <2>5
  <2>7. QED
    BY <2>6 DEF nm, n
<1>2. Presumed /\ BudgetInv /\ [Next]_vars => BudgetInv'
  BY BudgetNext
<1>3. IInv /\ OrderInv /\ Flags => Presumed
  BY DEF Presumed
<1>4. IInv /\ OrderInv /\ [Next]_vars => OrderInv'
  BY OrderNext
<1>5. QED
  BY <1>1, <1>2, <1>3, <1>4, BudgetInit, OrderInit, Invariance, FlagsHold, PTL DEF Spec

-----------------------------------------------------------------------------
(***************************************************************************)
(* What makes an upload of use: the oldest event that may go is in it.     *)
(* This needs room, in a batch, for one event beside what a 3.x SDK left.  *)
(***************************************************************************)
RoomForOne ==
    /\ Cardinality(Legacy) < MaxBatch
    /\ \E m \in Nat : /\ \A e \in Event : Length[e] <= m
                      /\ (Cardinality(Legacy) + 1) * m < LimitSize

OldestGoes ==
    \A c \in Channel : \A r \in Candidates(db[c].rows, PolicyMask) :
        /\ r.key \notin Legacy
        /\ fetching => r.key \notin HeldBack
        /\ \A q \in Candidates(db[c].rows, PolicyMask) : q.id < r.id => q.key \in Legacy
        => r.key \in Batch(c)

(* Rows of left-over events before r, and r: one more than they at most. *)
LEMMA FewBefore ==
    ASSUME NEW C \in SUBSET Row, IsFiniteSet(C), OneRowEach(C), NEW r \in C,
           \A q \in C : q.id < r.id => q.key \in Legacy
    PROVE  Cardinality(UpTo(C, r)) <= Cardinality(Legacy) + 1
<1> DEFINE U == UpTo(C, r)
           V == U \ {r}
           key == [q \in V |-> q.key]
<1>1. U \in SUBSET C /\ r \in U /\ IsFiniteSet(U)
  BY FS_Subset DEF UpTo, Row
<1>2. \A q \in V : q.key \in Legacy
  <2> SUFFICES ASSUME NEW q \in V
               PROVE  q.key \in Legacy
    OBVIOUS
  <2>1. q \in C /\ q # r /\ q.id <= r.id
    BY DEF UpTo
  <2>2. q.id # r.id
    BY <2>1 DEF OneRowEach
  <2>3. q.id < r.id
    BY <2>1, <2>2 DEF Row
  <2>4. QED
    BY <2>1, <2>3
<1>3. \A p, q \in V : p.key = q.key => p = q
  BY <1>1 DEF OneRowEach
<1> HIDE DEF U
<1>4. key \in Injection(V, Legacy)
  <2> HIDE DEF V
  <2>1. QED
    BY <1>2, <1>3 DEF Injection, IsInjective
<1>5. Cardinality(V) <= Cardinality(Legacy)
  <2> HIDE DEF key
  <2>1. QED
    BY <1>4, FS_Injection, ManagerAssumption
<1>6. Cardinality(U) \in Nat /\ Cardinality(V) = Cardinality(U) - 1 /\ Cardinality(V) \in Nat
  BY <1>1, OneLess
<1>7. Cardinality(Legacy) \in Nat
  BY FS_CardinalityType, ManagerAssumption
<1>8. Cardinality(U) <= Cardinality(Legacy) + 1
  BY <1>5, <1>6, <1>7
<1>9. QED
  BY <1>8 DEF U

(***************************************************************************)
(* Whenever a channel is sent, whatever is held back, the link lets        *)
(* through and old SDKs have left: the oldest event that may go does go,   *)
(* for any channels, events and failures (sendEventsOfChannel_unsafe:).    *)
(***************************************************************************)
THEOREM OldestIsNext ==
    ASSUME RoomForOne
    PROVE  Spec => []OldestGoes
<1>1. IInv /\ OrderInv => OldestGoes
  <2> SUFFICES ASSUME IInv, OrderInv, NEW c \in Channel,
                      NEW r \in Candidates(db[c].rows, PolicyMask),
                      r.key \notin Legacy, fetching => r.key \notin HeldBack,
                      \A q \in Candidates(db[c].rows, PolicyMask) : q.id < r.id => q.key \in Legacy
               PROVE  r.key \in Batch(c)
    BY DEF OldestGoes
  <2> DEFINE C == Candidates(db[c].rows, PolicyMask)
             n == Cardinality(Legacy) + 1
  <2>1. /\ db[c] \in Store /\ DOMAIN accepted \subseteq Nat
        /\ OrderedRows(accepted, db[c])
    BY DEF IInv, Types, OrderInv, DatabasesOrdered, Tidy
  <2>2. IsFiniteSet(db[c].rows) /\ OneRowEach(db[c].rows)
    BY <2>1, OrderedRowsFinite, OrderedRowsDistinct
  <2>3. C \in SUBSET db[c].rows /\ C \in SUBSET Row
    BY <2>1 DEF Candidates, Store
  <2>4. IsFiniteSet(C) /\ OneRowEach(C)
    BY <2>2, <2>3, FS_Subset DEF OneRowEach
  <2>5. PICK m \in Nat : (\A e \in Event : Length[e] <= m) /\ n * m < LimitSize
    BY DEF RoomForOne
  <2>6. n \in Nat /\ n <= MaxBatch
    BY FS_CardinalityType, ManagerAssumption, StoreAssumption DEF RoomForOne
  <2>7. GetEvents(db[c].rows, PolicyMask) = Keys(Taken(C))
    BY BatchIsTaken
  <2>8. r \in C /\ \A q \in C : q.id < r.id => q.key \in Legacy
    OBVIOUS
  <2> HIDE DEF C
  <2>9. Cardinality(UpTo(C, r)) <= n
    BY <2>3, <2>4, <2>8, FewBefore
  <2> HIDE DEF n
  <2>10. r \in Taken(C)
    BY <2>3, <2>4, <2>5, <2>6, <2>8, <2>9, ShortPrefixTaken
  <2>11. r.key \in GetEvents(db[c].rows, PolicyMask)
    BY <2>7, <2>10 DEF Keys
  <2>12. QED
    BY <2>11 DEF Batch
<1>2. OrderInv /\ IInv /\ [Next]_vars => OrderInv'
  BY OrderNext
<1>3. QED
  BY <1>1, <1>2, OrderInit, Invariance, PTL DEF Spec

-----------------------------------------------------------------------------
(***************************************************************************)
(* Why a waiting row comes up at last: what is ahead of it only shrinks.   *)
(***************************************************************************)
(* What t has and s has not was numbered after all of s. *)
Behind(s, t) ==
    /\ s.nextId <= t.nextId
    /\ \A r \in t.rows : r \in s.rows \/ s.nextId <= r.id

AllBehind(d, e) == e \in [Channel -> Store] /\ \A c \in Channel : Behind(d[c], e[c])

LEMMA BehindTransitive ==
    ASSUME NEW s \in Store, NEW t \in Store, NEW u \in Store, Behind(s, t), Behind(t, u)
    PROVE  Behind(s, u)
<1>1. s.nextId \in Nat /\ t.nextId \in Nat /\ u.nextId \in Nat /\ \A r \in u.rows : r.id \in Nat
  BY DEF Store, Row
<1>2. QED
  BY <1>1 DEF Behind

LEMMA AllBehindTransitive ==
    ASSUME NEW d \in [Channel -> Store], NEW e, NEW f, AllBehind(d, e), AllBehind(e, f)
    PROVE  AllBehind(d, f)
<1>1. ASSUME NEW c \in Channel
      PROVE  Behind(d[c], f[c])
  <2>1. /\ d[c] \in Store /\ e[c] \in Store /\ f[c] \in Store
        /\ Behind(d[c], e[c]) /\ Behind(e[c], f[c])
    BY DEF AllBehind
  <2>2. QED
    BY <2>1, BehindTransitive
<1>2. QED
  BY <1>1 DEF AllBehind

(* Rows that are deleted, and numbers that stay. *)
LEMMA BehindOfFewer ==
    ASSUME NEW s \in Store, NEW t, t.rows \subseteq s.rows, t.nextId = s.nextId
    PROVE  Behind(s, t)
BY DEF Behind, Store

LEMMA BehindOfWrite ==
    ASSUME NEW s \in Store, NEW u \in Seq(Update), NEW K, NEW I \in SUBSET InsertArray(u)
    PROVE  Behind(s, Write(s, u, K, I))
<1> DEFINE t == Write(s, u, K, I)
<1>1. I \in SUBSET Nat /\ IsFiniteSet(I)
  <2>1. IsFiniteSet(I) /\ I \subseteq DOMAIN u
    BY InsertArrayFinite, FS_Subset
  <2>2. QED
    BY <2>1
<1>2. Cardinality(I) \in Nat /\ \A i \in I : Cardinality({j \in I : j < i}) \in Nat
  BY <1>1, InsertRanks
<1>3. /\ t.nextId = s.nextId + Cardinality(I)
      /\ t.rows = DeleteEvents(s.rows, K) \cup NewRows(u, I, s.nextId)
      /\ s.nextId \in Nat
  BY DEF Write, Store
<1>4. ASSUME NEW r \in NewRows(u, I, s.nextId)
      PROVE  s.nextId <= r.id
  <2>1. PICK i \in I : r = [id |-> s.nextId + Cardinality({j \in I : j < i}), key |-> u[i].key]
    BY DEF NewRows
  <2>2. r.id = s.nextId + Cardinality({j \in I : j < i})
    BY <2>1
  <2>3. QED
    BY <1>2, <1>3, <2>2
<1>5. s.nextId <= t.nextId
  BY <1>2, <1>3
<1>6. QED
  BY <1>3, <1>4, <1>5 DEF Behind, DeleteEvents

LEMMA BehindOfFlush ==
    ASSUME NEW s \in Store, NEW t, t = s \/ t = Flush(s) \/ t \in FailedFlushes(s)
    PROVE  t \in Store /\ Behind(s, t)
<1> DEFINE u == s.updates
           d == Drained(s)
<1>1. u \in Seq(Update) /\ d \in Store /\ d.rows = s.rows /\ d.nextId = s.nextId
  BY DrainedType DEF Store
<1>2. CASE t = s
  BY <1>2, BehindOfFewer
<1>3. CASE t = Flush(s) \/ t \in FailedFlushes(s)
  <2>1. t \in Store
    BY <1>3, FlushOutcome
  <2>2. PICK I \in SUBSET InsertArray(u) : \E K : t = Write(d, u, K, I)
    <3>1. \A I \in PartialInserts(u) : I \in SUBSET InsertArray(u)
      BY DEF PartialInserts
    <3>2. CASE t = Flush(s)
      BY <3>2 DEF Flush
    <3>3. CASE \E K \in PartialDeletes(u) : t = Write(d, u, K, {})
      BY <3>3
    <3>4. CASE \E I \in PartialInserts(u) : t = Write(d, u, RemoveArray(u), I)
      BY <3>1, <3>4
    <3>5. QED
      BY <1>3, <3>2, <3>3, <3>4 DEF FailedFlushes
  <2> HIDE DEF u, d
  <2>3. Behind(d, t)
    BY <1>1, <2>2, BehindOfWrite
  <2>4. QED
    BY <1>1, <2>1, <2>3 DEF Behind
<1>4. QED
  BY <1>2, <1>3

LEMMA OneBehind ==
    ASSUME NEW d \in [Channel -> Store], NEW c \in Channel, NEW s,
           s = d[c] \/ s = Flush(d[c]) \/ s \in FailedFlushes(d[c])
    PROVE  AllBehind(d, [d EXCEPT ![c] = s])
<1> DEFINE e == [d EXCEPT ![c] = s]
<1>1. s \in Store /\ Behind(d[c], s)
  BY BehindOfFlush
<1>2. e \in [Channel -> Store] /\ e[c] = s /\ \A b \in Channel : b # c => e[b] = d[b]
  BY <1>1
<1>3. \A b \in Channel : Behind(d[b], d[b])
  BY BehindOfFlush
<1> HIDE DEF e
<1>4. AllBehind(d, e)
  BY <1>1, <1>2, <1>3 DEF AllBehind
<1>5. QED
  BY <1>4 DEF e

LEMMA FlushDBBehind ==
    ASSUME NEW d \in [Channel -> Store], NEW e \in FlushDB(d)
    PROVE  AllBehind(d, e)
<1>1. PICK f \in [Timing -> UNION {Flushes(d[c]) : c \in Timing}] :
         /\ \A c \in Timing : f[c] \in Flushes(d[c])
         /\ e = [c \in Channel |-> IF c \in Timing THEN f[c] ELSE d[c]]
  BY DEF FlushDB
<1>2. ASSUME NEW c \in Channel
      PROVE  e[c] \in Store /\ Behind(d[c], e[c])
  <2>1. e[c] = d[c] \/ e[c] = Flush(d[c]) \/ e[c] \in FailedFlushes(d[c])
    BY <1>1 DEF Flushes
  <2>2. QED
    BY <2>1, BehindOfFlush
<1>3. e \in [Channel -> Store]
  BY <1>1, <1>2
<1>4. QED
  BY <1>2, <1>3 DEF AllBehind

(* One database is written to, or not, then perhaps flushed, and then all of them. *)
LEMMA FlushesBehind ==
    ASSUME NEW d \in [Channel -> Store], NEW c \in Channel,
           NEW w \in Store, w.rows = d[c].rows, w.nextId = d[c].nextId,
           NEW s, s = w \/ s \in Flushes(w),
           NEW e, e = [d EXCEPT ![c] = s] \/ e \in FlushDB([d EXCEPT ![c] = s])
    PROVE  AllBehind(d, e)
<1> DEFINE x == [d EXCEPT ![c] = w]
           f == [d EXCEPT ![c] = s]
<1>1. x \in [Channel -> Store] /\ x[c] = w /\ f = [x EXCEPT ![c] = s]
  OBVIOUS
<1>2. AllBehind(d, x)
  <2>1. \A b \in Channel : x[b].rows = d[b].rows /\ x[b].nextId = d[b].nextId /\ d[b] \in Store
    OBVIOUS
  <2> HIDE DEF x
  <2>2. \A b \in Channel : Behind(d[b], x[b])
    BY <2>1, BehindOfFewer
  <2>3. QED
    BY <1>1, <2>2 DEF AllBehind
<1>3. s = w \/ s = Flush(w) \/ s \in FailedFlushes(w)
  BY DEF Flushes
<1>4. e = f \/ e \in FlushDB(f)
  OBVIOUS
<1> HIDE DEF x, f
<1>5. AllBehind(x, f)
  BY <1>1, <1>3, OneBehind
<1>6. AllBehind(d, f)
  BY <1>2, <1>5, AllBehindTransitive
<1>7. CASE e = f
  BY <1>6, <1>7
<1>8. CASE e \in FlushDB(f)
  <2>1. AllBehind(f, e)
    BY <1>6, <1>8, FlushDBBehind DEF AllBehind
  <2>2. QED
    BY <1>6, <2>1, AllBehindTransitive
<1>9. QED
  BY <1>4, <1>7, <1>8

LEMMA ReopenedBehind ==
    ASSUME NEW d \in [Channel -> Store], NEW old
    PROVE  AllBehind(d, Reopened(d, old))
<1> DEFINE new(c) == [Drained(d[c]) EXCEPT !.rows = {r \in @ : r.id > old[c]}]
<1>1. ASSUME NEW c \in Channel
      PROVE  /\ new(c) \in Store
             /\ new(c).rows \subseteq d[c].rows
             /\ new(c).nextId = d[c].nextId
  <2>1. /\ Drained(d[c]) \in Store
        /\ Drained(d[c]).rows = d[c].rows
        /\ Drained(d[c]).nextId = d[c].nextId
    BY DrainedType
  <2>2. QED
    BY <2>1 DEF Store
<1>2. Reopened(d, old) = [c \in Channel |-> new(c)]
  BY DEF Reopened
<1> HIDE DEF new
<1>3. \A c \in Channel : Behind(d[c], new(c))
  BY <1>1, BehindOfFewer
<1>4. QED
  BY <1>1, <1>2, <1>3 DEF AllBehind

(* A step of the manager. *)
LEMMA StepBehind ==
    ASSUME Types, [Next]_vars
    PROVE  AllBehind(db, db')
<1>1. /\ db \in [Channel -> Store]
      /\ \A c \in Channel : db[c] \in Store
      /\ requests \in SUBSET Request
  BY DEF Types
<1>2. ASSUME NEW e \in Event, PostEvent(e) \/ DidEnterBackground(e)
      PROVE  AllBehind(db, db')
  <2> DEFINE c == ChannelOf[e]
             w == SetEvent(db[c], e)
  <2>1. PICK s \in AfterSet(w, c) :
           db' = [db EXCEPT ![c] = s] \/ db' \in FlushDB([db EXCEPT ![c] = s])
    <3>1. CASE PostEvent(e)
      BY <3>1 DEF PostEvent
    <3>2. CASE DidEnterBackground(e)
      BY <3>2 DEF DidEnterBackground
    <3>3. QED
      BY <1>2, <3>1, <3>2
  <2>2. c \in Channel
    BY ManagerAssumption
  <2>3. w \in Store /\ w.rows = db[c].rows /\ w.nextId = db[c].nextId
    BY <1>1, <2>2, SetEventType DEF SetEvent, Store
  <2>4. s = w \/ s \in Flushes(w)
    BY <2>1 DEF AfterSet
  <2> HIDE DEF c, w
  <2>5. QED
    BY <1>1, <2>1, <2>2, <2>3, <2>4, FlushesBehind
<1>3. CASE SendAllChannelEvents \/ DidEnterBackgroundSilently
  <2>1. db' \in FlushDB(db)
    BY <1>3 DEF SendAllChannelEvents, DidEnterBackgroundSilently
  <2>2. QED
    BY <1>1, <2>1, FlushDBBehind
<1>4. ASSUME NEW r \in requests, NEW e \in r.events, RemoveEvent(r, e)
      PROVE  AllBehind(db, db')
  <2> DEFINE c == r.channel
             w == SetEventNil(db[c], e)
  <2>1. PICK s \in AfterSet(w, c) : db' = [db EXCEPT ![c] = s]
    BY <1>4 DEF RemoveEvent
  <2>2. c \in Channel /\ e \in Event
    BY <1>1, <1>4 DEF Request
  <2>3. w \in Store /\ w.rows = db[c].rows /\ w.nextId = db[c].nextId
    BY <1>1, <2>2, SetEventType DEF SetEventNil, Store
  <2>4. s = w \/ s \in Flushes(w)
    BY <2>1 DEF AfterSet
  <2> HIDE DEF c, w
  <2>5. QED
    BY <1>1, <2>1, <2>2, <2>3, <2>4, FlushesBehind
<1>5. ASSUME NEW r \in requests, EventsRemoved(r)
      PROVE  AllBehind(db, db')
  <2> DEFINE c == r.channel
  <2>1. PICK s \in Flushes(db[c]) :
           db' = [db EXCEPT ![c] = s] \/ db' \in FlushDB([db EXCEPT ![c] = s])
    BY <1>5 DEF EventsRemoved
  <2>2. c \in Channel
    BY <1>1, <1>5 DEF Request
  <2> HIDE DEF c
  <2>3. db[c] \in Store
    BY <1>1, <2>2
  <2>4. QED
    BY <1>1, <2>1, <2>2, <2>3, FlushesBehind
<1>6. ASSUME NEW d, AllBehind(db, d), NewProcess(d)
      PROVE  AllBehind(db, db')
  <2>1. PICK old : db' = Reopened(d, old)
    BY <1>6 DEF NewProcess
  <2>2. AllBehind(d, db')
    BY <1>6, <2>1, ReopenedBehind DEF AllBehind
  <2>3. QED
    BY <1>1, <1>6, <2>2, AllBehindTransitive
<1>7. CASE Crash \/ WillTerminate
  <2>1. CASE NewProcess(db)
    <3>1. AllBehind(db, db)
      BY <1>1, BehindOfFlush DEF AllBehind
    <3>2. QED
      BY <1>6, <2>1, <3>1
  <2>2. ASSUME NEW c \in Channel, NEW s \in FailedFlushes(db[c]),
               NewProcess([db EXCEPT ![c] = s])
        PROVE  AllBehind(db, db')
    <3>1. AllBehind(db, [db EXCEPT ![c] = s])
      BY <1>1, OneBehind
    <3>2. QED
      BY <1>6, <2>2, <3>1
  <2>3. QED
    BY <1>7, <2>1, <2>2 DEF Crash, WillTerminate
<1>8. CASE db' = db
  BY <1>1, <1>8, BehindOfFlush DEF AllBehind
<1>9. QED
  BY <1>2, <1>3, <1>4, <1>5, <1>7, <1>8
  DEF Next, Complete, SendEventsOfChannel, ReturnFromSend, ServerReceives, BadStatus,
      ConnectionError, ClearAgain, DidSend, ChangeLink, NextDay, Fetched, DiskFails,
      DiskRecovers, vars

(* No step puts a row ahead of one that stays in its table. *)
NobodyGetsAhead ==
    \A c \in Channel : \A r \in db[c].rows \cap db'[c].rows :
        UpTo(db'[c].rows, r) \subseteq UpTo(db[c].rows, r)

(***************************************************************************)
(* Whatever is written, fails, expires or ends, what is ahead of a row     *)
(* only shrinks: with OldestIsNext, a waiting event comes nearer with      *)
(* every upload that succeeds and never falls back (GrowingEventDatabase,  *)
(* flush), for any channels, events and failures.                          *)
(***************************************************************************)
THEOREM QueueOnlyShrinks == Spec => [][NobodyGetsAhead]_vars
<1>1. IInv /\ OrderInv /\ [Next]_vars => [NobodyGetsAhead]_vars
  <2> SUFFICES ASSUME IInv, OrderInv, [Next]_vars,
                      NEW c \in Channel, NEW r \in db[c].rows, NEW q \in db'[c].rows, q.id <= r.id
               PROVE  q \in db[c].rows
    BY DEF NobodyGetsAhead, UpTo
  <2>1. Behind(db[c], db'[c]) /\ db'[c] \in Store
    BY StepBehind DEF IInv, AllBehind
  <2>2. r.id < db[c].nextId /\ db[c] \in Store
    BY DEF IInv, Types, OrderInv, DatabasesOrdered, Tidy, OrderedRows
  <2>3. r.id \in Nat /\ q.id \in Nat /\ db[c].nextId \in Nat
    BY <2>1, <2>2 DEF Store, Row
  <2>4. ~ (db[c].nextId <= q.id)
    BY <2>2, <2>3
  <2>5. QED
    BY <2>1, <2>4 DEF Behind
<1>2. OrderInv /\ IInv /\ [Next]_vars => OrderInv'
  BY OrderNext
<1>3. QED
  BY <1>1, <1>2, OrderInit, Invariance, PTL DEF Spec

=============================================================================
