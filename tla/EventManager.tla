----------------------------- MODULE EventManager -----------------------------
(***************************************************************************)
(* GrowingEventManager: events are written to the databases of their       *)
(* channels, read back in batches, uploaded, and deleted when the server   *)
(* has answered.                                                           *)
(*                                                                         *)
(* All of it runs in blocks on one thread, the GrowingThread.  Whoever     *)
(* queues a block does not wait for it, so a queued block is an action     *)
(* that is enabled while the thread is idle.  A block that loops is        *)
(* several steps: "sending" holds the channels it has yet to send, a       *)
(* request in state "removing" the events it has yet to delete.            *)
(*                                                                         *)
(* The network, the disk and the operating system are the environment.     *)
(***************************************************************************)
EXTENDS EventStore

CONSTANTS
    Channel,        \* the GrowingEventChannels
    Timing,         \* those whose database caches its writes (isRealtimeEvent NO)
    ChannelOf,      \* ChannelOf[e]: the channel of e's event type
    CacheLimit,     \* kGrowingMaxDBCacheSize, the autoFlushCount of Timing
    Legacy,         \* autotrack events a 3.x SDK left in the tables: never sent
    HeldBack,       \* ACTIVATE events: not sent while ASA / CAID data is fetched
    OutSize,        \* OutSize[S]: the bytes of the request that carries the events S
    CellularLimit,  \* uploadLimitOfCellular
    Links,          \* the reachability statuses the network may report
    MaxNetErrors,   \* bound: failed requests
    MaxOutages,     \* bound: periods in which database writes may fail
    MaxCrashes      \* bound: ends of the process

Link == {"NotReachable", "WiFi", "WWAN", "Undetermined"}

ASSUME ManagerAssumption ==
    /\ Timing \subseteq Channel
    /\ ChannelOf \in [Event -> Channel]
    /\ CacheLimit \in Nat \ {0}
    /\ Legacy \subseteq Event /\ IsFiniteSet(Legacy)
    /\ HeldBack \subseteq Event
    /\ OutSize \in [SUBSET Event -> Nat]
    /\ CellularLimit \in Nat
    /\ Links \subseteq Link
    /\ MaxNetErrors \in Nat /\ MaxOutages \in Nat /\ MaxCrashes \in Nat

VARIABLES
    db,               \* the database of each channel
    isUploading,      \* the flag of each channel
    sending,          \* the channels the running block has yet to send
    requests,         \* the uploads whose completion has not run to its end
    uploadEventSize,  \* the cellular bytes counted today
    link,             \* what currentStatus returns
    fetching,         \* ASA / CAID data is being fetched
    diskOK,           \* FALSE while a database write may fail
    received,         \* how often the server got each event (2 stands for more)
    accepted,         \* history: the events in the order they were posted
    netErrors,        \* history: failed requests
    connErrors,       \* history: those that failed without a usable response
    outages,          \* history: periods of failing writes
    crashes           \* history: ends of the process

history == <<netErrors, connErrors, outages, crashes>>
world   == <<link, fetching, diskOK>>
vars == <<db, isUploading, sending, requests, uploadEventSize, world,
          received, accepted, history>>

Request == [id       : Nat,
            channel  : Channel,
            events   : SUBSET Event,
            cellular : BOOLEAN,
            state    : {"sent", "got", "cleared", "late", "removing"}]

(* The part of TypeOK the invariants of EventManagerProofs rest on. *)
Types ==
    /\ db \in [Channel -> Store]
    /\ isUploading \in [Channel -> BOOLEAN]
    /\ sending \in SUBSET Channel
    /\ requests \in SUBSET Request
    /\ uploadEventSize \in Nat
    /\ link \in Link
    /\ fetching \in BOOLEAN
    /\ diskOK \in BOOLEAN
    /\ received \in [Event -> 0..2]
    /\ accepted \in Seq(Event)
    /\ netErrors \in Nat /\ connErrors \in Nat
    /\ outages \in Nat /\ crashes \in Nat

AutoFlushCount(c) == IF c \in Timing THEN CacheLimit ELSE 0

CachesBelowCount ==
    \A c \in Channel : db[c].updates = <<>> \/ Len(db[c].updates) < AutoFlushCount(c)

(***************************************************************************)
(* The types of the variables, and the bound every write keeps on the      *)
(* caches: a realtime database caches nothing from one block to the next,  *)
(* a timing one fewer than autoFlushCount writes.                          *)
(***************************************************************************)
TypeOK == Types /\ CachesBelowCount

Init ==
    /\ \E old \in [1..Cardinality(Legacy) -> Legacy] :
          /\ \A i, j \in DOMAIN old : old[i] = old[j] => i = j
          /\ accepted = old
          /\ db = [c \in Channel |->
                      [EmptyStore EXCEPT
                         !.rows = {[id |-> i, key |-> old[i]] :
                                      i \in {j \in DOMAIN old : ChannelOf[old[j]] = c}},
                         !.nextId = Cardinality(Legacy) + 1]]
    /\ isUploading = [c \in Channel |-> FALSE]
    /\ sending = {}
    /\ requests = {}
    /\ uploadEventSize = 0
    /\ link \in Links
    /\ fetching = (HeldBack # {})
    /\ diskOK = TRUE
    /\ received = [e \in Event |-> 0]
    /\ netErrors = 0 /\ connErrors = 0 /\ outages = 0 /\ crashes = 0

-----------------------------------------------------------------------------
(* The databases *)

Accepted == {accepted[i] : i \in DOMAIN accepted}
StoredIn(d) == UNION {Keys(d[c].rows) : c \in Channel}
Stored   == StoredIn(db)
Received == {e \in Event : received[e] > 0}

(* Where a flush of s may leave it. *)
Flushes(s) == IF diskOK THEN {Flush(s)} ELSE {Flush(s)} \cup FailedFlushes(s)

(* Mutant of AfterSet: a timing database is only flushed by flushDB. *)
AfterSetUncounted(s, c) == IF c \in Timing THEN {s} ELSE Flushes(s)

(* setEvent:forKey: on the database of c, whose cache then is that of s. *)
AfterSet(s, c) == IF Len(s.updates) >= AutoFlushCount(c) THEN Flushes(s) ELSE {s}

(* flushDB: the timing databases. *)
FlushDB(d) ==
    {[c \in Channel |-> IF c \in Timing THEN f[c] ELSE d[c]] :
        f \in {g \in [Timing -> UNION {Flushes(d[c]) : c \in Timing}] :
                  \A c \in Timing : g[c] \in Flushes(d[c])}}

-----------------------------------------------------------------------------
(* The blocks of the GrowingThread *)

Idle == sending = {} /\ \A r \in requests : r.state # "removing"

(* postEventBuilder: stores the event; a send follows an instant one. *)
PostEvent(e) ==
    LET c == ChannelOf[e]
    IN  /\ Idle
        /\ e \notin Accepted
        /\ accepted' = Append(accepted, e)
        /\ \E s \in AfterSet(SetEvent(db[c], e), c) :
              LET d == [db EXCEPT ![c] = s]
              IN  IF "Instant" \in Policy[e]
                  THEN db' \in FlushDB(d) /\ sending' = {c}
                  ELSE db' = d /\ UNCHANGED sending
        /\ UNCHANGED <<isUploading, requests, uploadEventSize, world, received, history>>

(* The timer, and flushEvents: every channel is sent, after a flush. *)
SendAllChannelEvents ==
    /\ Idle
    /\ db' \in FlushDB(db)
    /\ sending' = Channel
    /\ UNCHANGED <<isUploading, requests, uploadEventSize, world, received, accepted, history>>

(* applicationDidEnterBackground: the APP_CLOSED event e, then flushDB. *)
DidEnterBackground(e) ==
    LET c == ChannelOf[e]
    IN  /\ Idle
        /\ e \notin Accepted
        /\ c \in Timing /\ "Instant" \notin Policy[e]
        /\ accepted' = Append(accepted, e)
        /\ \E s \in AfterSet(SetEvent(db[c], e), c) : db' \in FlushDB([db EXCEPT ![c] = s])
        /\ UNCHANGED <<isUploading, sending, requests, uploadEventSize, world, received, history>>

(* The same while APP_CLOSED is filtered or data collection is disabled. *)
DidEnterBackgroundSilently ==
    /\ Idle
    /\ db' \in FlushDB(db)
    /\ UNCHANGED <<isUploading, sending, requests, uploadEventSize, world, received, accepted, history>>

(* Mutant of WithinLimit: off by one. *)
WithinLimitOrAt == link = "WWAN" /\ uploadEventSize <= CellularLimit

(* The policies the network lets through, and whether their bytes are counted. *)
WithinLimit == link = "WWAN" /\ uploadEventSize < CellularLimit

PolicyMask ==
    IF link # "WWAN" THEN PolicyBit
    ELSE IF WithinLimit THEN {"Instant", "MobileData"}
    ELSE {"Instant"}

(* Mutant of Batch: the events held back are never let go. *)
BatchForEverHeldBack(c) == GetEvents(db[c].rows, PolicyMask) \ (Legacy \cup HeldBack)

(***************************************************************************)
(* The events sendEventsOfChannel_unsafe: would send: a batch, without     *)
(* what a 3.x SDK left in it and what the interceptors hold back.          *)
(***************************************************************************)
Batch(c) ==
    GetEvents(db[c].rows, PolicyMask) \ (Legacy \cup (IF fetching THEN HeldBack ELSE {}))

(* Mutant of MaySend: the flag is not looked at. *)
MaySendAnyTime(c) == link # "NotReachable" /\ Batch(c) # {}

MaySend(c) == ~isUploading[c] /\ link # "NotReachable" /\ Batch(c) # {}

NewId == CHOOSE i \in 1..(Cardinality(requests) + 1) : \A r \in requests : r.id # i

Removing == \E r \in requests : r.state = "removing"

SendEventsOfChannel(c) ==
    /\ ~Removing
    /\ c \in sending
    /\ MaySend(c)
    /\ sending' = sending \ {c}
    /\ isUploading' = [isUploading EXCEPT ![c] = TRUE]
    /\ requests' = requests \cup
          {[id |-> NewId, channel |-> c, events |-> Batch(c),
            cellular |-> WithinLimit, state |-> "sent"]}
    /\ UNCHANGED <<db, uploadEventSize, world, received, accepted, history>>

ReturnFromSend(c) ==
    /\ ~Removing
    /\ c \in sending
    /\ ~MaySend(c)
    /\ sending' = sending \ {c}
    /\ UNCHANGED <<db, isUploading, requests, uploadEventSize, world, received, accepted, history>>

-----------------------------------------------------------------------------
(* Completions of a request *)

Become(r, s) == requests' = (requests \ {r}) \cup {[r EXCEPT !.state = s]}

(* Mutant of ClearFlag: it stays set. *)
KeepFlag(c) == UNCHANGED isUploading

ClearFlag(c) == isUploading' = [isUploading EXCEPT ![c] = FALSE]

(* The server has stored the events and answers. *)
ServerReceives(r) ==
    /\ r.state = "sent"
    /\ received' = [e \in Event |->
                       IF e \in r.events /\ received[e] < 2 THEN received[e] + 1 ELSE received[e]]
    /\ Become(r, "got")
    /\ UNCHANGED <<db, isUploading, sending, uploadEventSize, world, accepted, history>>

(* Mutant of BadStatus: the events are deleted as if they had arrived. *)
BadStatusDeletes(r) ==
    /\ Idle
    /\ r.state \in {"sent", "got"}
    /\ netErrors < MaxNetErrors
    /\ netErrors' = netErrors + 1
    /\ Become(r, "removing")
    /\ UNCHANGED <<db, isUploading, sending, uploadEventSize, world, received, accepted,
                   connErrors, outages, crashes>>

(* A status other than 2xx, of a server that has the events or has not. *)
BadStatus(r) ==
    /\ Idle
    /\ r.state \in {"sent", "got"}
    /\ netErrors < MaxNetErrors
    /\ netErrors' = netErrors + 1
    /\ requests' = requests \ {r}
    /\ ClearFlag(r.channel)
    /\ UNCHANGED <<db, sending, uploadEventSize, world, received, accepted, connErrors, outages, crashes>>

(***************************************************************************)
(* The session reports an error.  The completion queues two blocks: this   *)
(* one, which clears the flag, and, since it does not return, that of the  *)
(* status, 0 without a response: "cleared" clears the flag again.  A       *)
(* response with a 2xx status may come with the error: "late".             *)
(***************************************************************************)
ConnectionError(r) ==
    /\ Idle
    /\ r.state \in {"sent", "got"}
    /\ netErrors < MaxNetErrors
    /\ netErrors' = netErrors + 1
    /\ connErrors' = connErrors + 1
    /\ \/ Become(r, "cleared")
       \/ r.state = "got" /\ Become(r, "late")
    /\ ClearFlag(r.channel)
    /\ UNCHANGED <<db, sending, uploadEventSize, world, received, accepted, outages, crashes>>

ClearAgain(r) ==
    /\ Idle
    /\ r.state = "cleared"
    /\ requests' = requests \ {r}
    /\ ClearFlag(r.channel)
    /\ UNCHANGED <<db, sending, uploadEventSize, world, received, accepted, history>>

(* Mutant of DidSend: the events are deleted before there is an answer. *)
DidSendUnanswered(r) ==
    /\ Idle
    /\ r.state \in {"sent", "got", "late"}
    /\ uploadEventSize' = uploadEventSize + (IF r.cellular THEN OutSize[r.events] ELSE 0)
    /\ Become(r, "removing")
    /\ UNCHANGED <<db, isUploading, sending, world, received, accepted, history>>

(* A 2xx status: the bytes are counted, the events are deleted one by one. *)
DidSend(r) ==
    /\ Idle
    /\ r.state \in {"got", "late"}
    /\ uploadEventSize' = uploadEventSize + (IF r.cellular THEN OutSize[r.events] ELSE 0)
    /\ Become(r, "removing")
    /\ UNCHANGED <<db, isUploading, sending, world, received, accepted, history>>

RemoveEvent(r, e) ==
    /\ r.state = "removing"
    /\ e \in r.events
    /\ \E s \in AfterSet(SetEventNil(db[r.channel], e), r.channel) :
          db' = [db EXCEPT ![r.channel] = s]
    /\ requests' = (requests \ {r}) \cup {[r EXCEPT !.events = @ \ {e}]}
    /\ UNCHANGED <<isUploading, sending, uploadEventSize, world, received, accepted, history>>

(* countOfEvents flushes first; a full batch left over is sent at once. *)
EventsRemoved(r) ==
    /\ r.state = "removing"
    /\ r.events = {}
    /\ requests' = requests \ {r}
    /\ ClearFlag(r.channel)
    /\ \E s \in Flushes(db[r.channel]) :
          LET d == [db EXCEPT ![r.channel] = s]
          IN  IF Cardinality(s.rows) >= MaxBatch
              THEN db' \in FlushDB(d) /\ sending' = {r.channel}
              ELSE db' = d /\ UNCHANGED sending
    /\ UNCHANGED <<uploadEventSize, world, received, accepted, history>>

-----------------------------------------------------------------------------
(* The end of the process and the start of the next *)

(* What is left when the tables are opened again: rows up to old[c] expired. *)
Reopened(d, old) ==
    [c \in Channel |->
        [Drained(d[c]) EXCEPT !.rows = {r \in @ : r.id > old[c]}]]

NewProcess(d) ==
    /\ crashes < MaxCrashes
    /\ crashes' = crashes + 1
    /\ \E old \in [Channel -> {0} \cup {r.id : r \in UNION {d[c].rows : c \in Channel}}] :
          db' = Reopened(d, old)
    /\ isUploading' = [c \in Channel |-> FALSE]
    /\ sending' = {}
    /\ requests' = {}
    /\ fetching' = (HeldBack # {})
    /\ diskOK' = TRUE
    /\ UNCHANGED <<uploadEventSize, link, received, accepted, netErrors, connErrors, outages>>

(* A crash may come between the writes of a flush. *)
Crash ==
    \/ NewProcess(db)
    \/ \E c \in Channel : \E s \in FailedFlushes(db[c]) : NewProcess([db EXCEPT ![c] = s])

(* applicationWillTerminate: an empty block that waits for the queued ones. *)
WillTerminate == Idle /\ NewProcess(db)

-----------------------------------------------------------------------------
(* The environment *)

ChangeLink ==
    /\ \E l \in Links \ {link} : link' = l
    /\ UNCHANGED <<db, isUploading, sending, requests, uploadEventSize, fetching, diskOK,
                   received, accepted, history>>

NextDay ==
    /\ uploadEventSize > 0
    /\ uploadEventSize' = 0
    /\ UNCHANGED <<db, isUploading, sending, requests, world, received, accepted, history>>

(* ASA / CAID data has arrived or timed out. *)
Fetched ==
    /\ fetching
    /\ fetching' = FALSE
    /\ UNCHANGED <<db, isUploading, sending, requests, uploadEventSize, link, diskOK,
                   received, accepted, history>>

DiskFails ==
    /\ diskOK
    /\ outages < MaxOutages
    /\ diskOK' = FALSE
    /\ outages' = outages + 1
    /\ UNCHANGED <<db, isUploading, sending, requests, uploadEventSize, link, fetching,
                   received, accepted, netErrors, connErrors, crashes>>

DiskRecovers ==
    /\ ~diskOK
    /\ diskOK' = TRUE
    /\ UNCHANGED <<db, isUploading, sending, requests, uploadEventSize, link, fetching,
                   received, accepted, history>>

-----------------------------------------------------------------------------

Complete(r) ==
    \/ ServerReceives(r)
    \/ BadStatus(r)
    \/ ConnectionError(r)
    \/ ClearAgain(r)
    \/ DidSend(r)
    \/ \E e \in r.events : RemoveEvent(r, e)
    \/ EventsRemoved(r)

Next ==
    \/ \E e \in Event : PostEvent(e) \/ DidEnterBackground(e)
    \/ DidEnterBackgroundSilently
    \/ SendAllChannelEvents
    \/ \E c \in Channel : SendEventsOfChannel(c) \/ ReturnFromSend(c)
    \/ \E r \in requests : Complete(r)
    \/ Crash
    \/ WillTerminate
    \/ ChangeLink
    \/ NextDay
    \/ Fetched
    \/ DiskFails
    \/ DiskRecovers

Spec == Init /\ [][Next]_vars

(***************************************************************************)
(* The timer repeats and the thread runs what it has begun.  Its run loop  *)
(* serves its queue in order, so a queued completion is not overtaken for  *)
(* ever by other blocks (strong fairness).  Requests, disk outages and ASA *)
(* / CAID fetches come to an end: they have timeouts.                      *)
(***************************************************************************)
Fairness ==
    /\ WF_vars(SendAllChannelEvents)
    /\ \A c \in Channel :
          /\ WF_vars(SendEventsOfChannel(c) \/ ReturnFromSend(c))
          /\ WF_vars(\E r \in requests : r.channel = c /\ ServerReceives(r))
          /\ SF_vars(\E r \in requests : r.channel = c /\ (DidSend(r) \/ ClearAgain(r)))
    /\ WF_vars(\E r \in requests : EventsRemoved(r) \/ \E e \in r.events : RemoveEvent(r, e))
    /\ WF_vars(DiskRecovers)
    /\ WF_vars(Fetched)

FairSpec == Spec /\ Fairness

-----------------------------------------------------------------------------
(* Correctness *)

(***************************************************************************)
(* The databases d against the events A the app has posted and the events  *)
(* R the server has: a cached event is nowhere else yet, and a removal is  *)
(* of an event the server has.                                             *)
(***************************************************************************)
Consistent(d, A, R) ==
    /\ R \subseteq A
    /\ StoredIn(d) \subseteq A
    /\ \A c \in Channel :
          /\ Sets(d[c].updates) \subseteq A \ (R \cup StoredIn(d))
          /\ Removes(d[c].updates) \subseteq R
          /\ \A b \in Channel \ {c} : Sets(d[b].updates) \cap Sets(d[c].updates) = {}

RequestsConsistent ==
    \A r \in requests :
        /\ r.events \subseteq Stored \cup Received
        /\ r.state \in {"got", "late", "removing"} => r.events \subseteq Received

(* The inductive invariant of EventManagerProofs. *)
IInv ==
    /\ Types
    /\ IsFiniteSet(requests)
    /\ Consistent(db, Accepted, Received)
    /\ RequestsConsistent

(***************************************************************************)
(* An event that is in a table leaves it only when the server has it or it *)
(* has expired, nothing reaches the server that was not in a table, and an *)
(* event the server has is not stored again: whatever fails, whenever the  *)
(* process ends (GrowingEventManager, sendEventsOfChannel_unsafe:).        *)
(***************************************************************************)
Delivery == INSTANCE EventDelivery
              WITH recorded <- Accepted, durable <- Stored, received <- Received,
                   restarts <- crashes

AtLeastOnce == Delivery!Spec

(* The events the owner of a database would read back. *)
Held(c) == Apply(db[c].updates, Keys(db[c].rows))

(***************************************************************************)
(* With a working disk and a process that lives, no posted event is lost,  *)
(* however uploads fail and overlap.                                       *)
(***************************************************************************)
NothingLost ==
    outages = 0 /\ crashes = 0 =>
        \A e \in Accepted : e \in Held(ChannelOf[e]) \cup Received

(***************************************************************************)
(* With no failure at all the server gets every event at most once: the    *)
(* flag keeps a second upload of the same rows from starting before the    *)
(* first has deleted them.                                                 *)
(***************************************************************************)
AtMostOnceWhenCalm ==
    netErrors = 0 /\ outages = 0 /\ crashes = 0 => \A e \in Event : received[e] <= 1

Uploads(c) == {r \in requests : r.channel = c /\ r.state # "cleared"}

(***************************************************************************)
(* isUploading says whether an upload of the channel is under way, until a *)
(* connection error clears it twice; each such error lets at most one more *)
(* upload overlap.                                                         *)
(***************************************************************************)
UploadFlag ==
    \A c \in Channel :
        /\ connErrors = 0 => (isUploading[c] <=> Uploads(c) # {})
        /\ Cardinality(Uploads(c)) <= 1 + connErrors

(***************************************************************************)
(* An event that waits is not overtaken by a later event of its channel    *)
(* and policy: batches are prefixes of the table and the table is in       *)
(* order.  Left-over and held-back events are exempt.                      *)
(***************************************************************************)
InOrder ==
    \A i, j \in DOMAIN accepted :
        LET e == accepted[i]
            f == accepted[j]
        IN  /\ i < j
            /\ ChannelOf[e] = ChannelOf[f] /\ Policy[e] = Policy[f]
            /\ e \notin Legacy \cup HeldBack
            /\ e \in Held(ChannelOf[e])
            /\ f \in Received
            => e \in Received

Batches == {S \in SUBSET Event : Cardinality(S) <= MaxBatch}

(***************************************************************************)
(* The bytes counted against the cellular limit overshoot it by less than  *)
(* one batch per channel: uploads that started below the limit.            *)
(***************************************************************************)
CellularBudget ==
    connErrors = 0 =>
        \/ uploadEventSize = 0
        \/ uploadEventSize < CellularLimit + Cardinality(Channel) * Max({OutSize[S] : S \in Batches})

(***************************************************************************)
(* With a WiFi link that stays, an event in a table reaches the server, or *)
(* the process ends first; provided the left-over rows do not fill a batch *)
(* and no row is as large as a batch.                                      *)
(***************************************************************************)
Delivered ==
    <>[](link = "WiFi") =>
        \A e \in Event \ Legacy : (e \in Stored /\ crashes = 0) ~> (e \in Received \/ crashes > 0)

=============================================================================
