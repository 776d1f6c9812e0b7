------------------------------ MODULE ABTesting ------------------------------
(***************************************************************************)
(* GrowingABTesting and its experiment storage.  fetchExperiment: serves   *)
(* the cached experiment of a layer and of the current identity, or asks   *)
(* the server; an answer is compared with the cache, reported as $exp_hit  *)
(* when it differs, saved, and handed to the app.                          *)
(*                                                                         *)
(* The app fetches from any thread; answers, and the retry they may start, *)
(* run on the main queue one after the other.  The storage changes its     *)
(* array under a lock and has a serial queue write snapshots of it; a      *)
(* caller waits, outside the lock, until its own snapshot is written.      *)
(***************************************************************************)
EXTENDS Integers, Sequences

CONSTANTS
    Caller,      \* the fetches that may be under way at once
    Layer, Identity,
    Content,     \* what an answer says of a layer: experiment, strategy and variables
    Miss,        \* the content without experiment or strategy; also that of a body
                 \* which is no JSON object, since the code of nil is 0
    None,
    Day, TTL,    \* the length of a day; abTestingRequestInterval
    Retries,     \* how often a failed request is repeated
    MaxTime, MaxFetches, MaxChanges, MaxCrashes  \* bounds of the run

ASSUME ABTestingAssumption ==
    /\ Layer # {} /\ Identity # {}
    /\ Miss \in Content
    /\ None \notin Caller
    /\ Day \in Nat \ {0} /\ TTL \in Nat /\ Retries \in Nat
    /\ MaxTime \in Nat /\ MaxFetches \in Nat /\ MaxChanges \in Nat /\ MaxCrashes \in Nat

Key == Layer \X Identity

(* A GrowingABTExperiment; its layer and its identity are its key. *)
Experiment == [content : Content, time : Nat]
NoExperiment == [content |-> Miss, time |-> -1]
Experiments == [Key -> Experiment \cup {NoExperiment}]

Step == {"idle", "find", "remove", "removing", "request", "sent", "save", "saving"}

(* A call of fetchExperiment: what its blocks hold. *)
Fetch == [at : Step, layer : Layer, identity : Identity, retries : Nat, got : Experiment,
          entry : Nat]

(* One successful answer, as the history keeps it. *)
Entry == [key : Key, got : Experiment, hit : {"none", "sent", "dropped"}, told : BOOLEAN,
          run : Nat]

VARIABLES
    memory,    \* the storage's array, by key
    file,      \* the file GrowingABTestingExperimentKey
    io,        \* the snapshots queued for GrowingABTStorageIOQueue, and who waits for each
    fetch,     \* the state of each fetch
    main,      \* the fetch whose code runs on the main thread, or None
    user,      \* the identity of the current session
    enabled,   \* dataCollectionEnabled
    service,   \* a module offers GrowingEventNetworkService, in all runs of the app or in none
    now,       \* currentTimeMillis
    log,       \* history: the successful answers, in their order
    purged,    \* history: the answers, by number, whose copy a removal deleted
               \* although it was not outdated
    fetches, changes, crashes  \* how much of each bound is used

disk   == <<memory, file, io>>
app    == <<user, enabled, service, now>>
ghosts == <<log, purged>>
counts == <<fetches, changes, crashes>>
vars   == <<disk, fetch, main, app, ghosts, counts>>

(* No call; the other fields keep any value. *)
IdleFetch ==
    [at |-> "idle", layer |-> CHOOSE l \in Layer : TRUE, identity |-> CHOOSE i \in Identity : TRUE,
     retries |-> 0, got |-> [content |-> Miss, time |-> 0], entry |-> 0]

Init ==
    /\ file = [k \in Key |-> NoExperiment] /\ memory = file /\ io = <<>>
    /\ fetch = [f \in Caller |-> IdleFetch] /\ main = None
    /\ user \in Identity /\ enabled \in BOOLEAN /\ service \in BOOLEAN /\ now = 0
    /\ log = <<>> /\ purged = {}
    /\ fetches = 0 /\ changes = 0 /\ crashes = 0

-----------------------------------------------------------------------------
(* The storage *)

DayOf(time)   == time \div Day
IsToday(time) == DayOf(time) = DayOf(now)
IsOutdated(e) == ~IsToday(e.time)
Cached(k)     == memory[k] # NoExperiment

(* Mutant of Store: the snapshot overtakes those that wait. *)
StoreOvertaking(f, k, e) ==
    /\ memory' = [memory EXCEPT ![k] = e]
    /\ io' = <<[by |-> f, snapshot |-> memory']>> \o io
    /\ UNCHANGED file

(* Under the lock: the array changes and a snapshot of it is queued. *)
Store(f, k, e) ==
    /\ memory' = [memory EXCEPT ![k] = e]
    /\ io' = Append(io, [by |-> f, snapshot |-> memory'])
    /\ UNCHANGED file

WriteFile ==
    /\ io # <<>>
    /\ file' = Head(io).snapshot
    /\ io' = Tail(io)
    /\ UNCHANGED <<memory, fetch, main, app, ghosts, counts>>

(* Mutant of Synchronized: nobody waits. *)
SynchronizedAtOnce(f) == TRUE

(* waitUntilSynchronized returns: all that f submitted is written. *)
Synchronized(f) == \A i \in DOMAIN io : io[i].by # f

-----------------------------------------------------------------------------
(* A fetch *)

At(f, step) == fetch[f].at = step
KeyOf(f)    == <<fetch[f].layer, fetch[f].identity>>

GoTo(f, step) == fetch' = [fetch EXCEPT ![f].at = step]

(* f leaves the main thread, if it is there. *)
Leaves(f) == main' = IF main = f THEN None ELSE main

(* f is over: the app's block is called, except by RequestExperiment without a service. *)
Over(f) == fetch' = [fetch EXCEPT ![f] = IdleFetch] /\ Leaves(f)

(* The public fetchExperiment:, on the main thread or on another one. *)
FetchExperiment(f) ==
    /\ At(f, "idle")
    /\ fetches < MaxFetches /\ fetches' = fetches + 1
    /\ \E l \in Layer : fetch' = [fetch EXCEPT ![f] =
                                    [IdleFetch EXCEPT !.at = "find", !.layer = l, !.retries = Retries]]
    /\ \/ UNCHANGED main
       \/ main = None /\ main' = f
    /\ UNCHANGED <<disk, app, ghosts, changes, crashes>>

(* findExperiment:identity: for the current identity, and what is made of it. *)
Find(f) ==
    LET k == <<fetch[f].layer, user>>
    IN  /\ At(f, "find")
        /\ \/ /\ Cached(k) /\ IsOutdated(memory[k])
              /\ fetch' = [fetch EXCEPT ![f].identity = user, ![f].at = "remove"]
              /\ UNCHANGED main
           \/ /\ Cached(k) /\ ~IsOutdated(memory[k]) /\ now - memory[k].time < TTL
              /\ Over(f)
           \/ /\ ~Cached(k) \/ (~IsOutdated(memory[k]) /\ now - memory[k].time >= TTL)
              /\ GoTo(f, "request")
              /\ UNCHANGED main
        /\ UNCHANGED <<disk, app, ghosts, counts>>

(* The answers for k that have been saved; at most the last one has not. *)
SavedAnswers(k) ==
    {i \in DOMAIN log :
        log[i].key = k /\ ~\E f \in Caller : At(f, "save") /\ fetch[f].entry = i}

(* removeFromDisk of what was found: whatever its key holds by now. *)
RemoveExperiment(f) ==
    LET k == KeyOf(f)
    IN  /\ At(f, "remove")
        /\ IF Cached(k)
           THEN Store(f, k, NoExperiment) /\ GoTo(f, "removing")
           ELSE UNCHANGED disk /\ GoTo(f, "request")
        /\ purged' = IF Cached(k) /\ ~IsOutdated(memory[k])
                     THEN purged \cup SavedAnswers(k)
                     ELSE purged
        /\ UNCHANGED <<main, app, log, counts>>

Removed(f) ==
    /\ At(f, "removing") /\ Synchronized(f)
    /\ GoTo(f, "request")
    /\ UNCHANGED <<disk, main, app, ghosts, counts>>

(***************************************************************************)
(* requestExperiment: of the identity that is current now.  Without data   *)
(* collection the app is told so; without a network service nobody calls   *)
(* its block.  Either way nothing is sent.                                 *)
(***************************************************************************)
RequestExperiment(f) ==
    /\ At(f, "request")
    /\ IF enabled /\ service
       THEN fetch' = [fetch EXCEPT ![f].identity = user, ![f].at = "sent"] /\ Leaves(f)
       ELSE Over(f)
    /\ UNCHANGED <<disk, app, ghosts, counts>>

(* Mutant of HttpFailure: a retry that may be retried again. *)
HttpFailureForEver(f) ==
    /\ At(f, "sent") /\ main = None
    /\ fetch' = [fetch EXCEPT ![f].at = "find"]
    /\ main' = f
    /\ UNCHANGED <<disk, app, ghosts, counts>>

(* Mutant of HttpFailure: one retry too many. *)
HttpFailureOnceMore(f) ==
    /\ At(f, "sent") /\ main = None
    /\ IF fetch[f].retries >= 0
       THEN /\ fetch' = [fetch EXCEPT ![f].at = "find", ![f].retries = @ - 1]
            /\ main' = f
       ELSE Over(f)
    /\ UNCHANGED <<disk, app, ghosts, counts>>

(* No 2xx answer came: the fetch starts again, as long as retries are left. *)
HttpFailure(f) ==
    /\ At(f, "sent") /\ main = None
    /\ IF fetch[f].retries > 0
       THEN /\ fetch' = [fetch EXCEPT ![f].at = "find", ![f].retries = @ - 1]
            /\ main' = f
       ELSE Over(f)
    /\ UNCHANGED <<disk, app, ghosts, counts>>

(* An answer whose fields have other types, or whose code is not 0. *)
Refused(f) ==
    /\ At(f, "sent") /\ main = None
    /\ Over(f)
    /\ UNCHANGED <<disk, app, ghosts, counts>>

(* Mutant of Hit: an experiment that is cached already is not reported. *)
HitIfNotCached(k, c) ==
    IF c = Miss \/ Cached(k) THEN "none" ELSE IF enabled THEN "sent" ELSE "dropped"

(* isEqual: of contents; trackExperiment: posts an event if data is collected. *)
Hit(k, c) ==
    IF c = Miss \/ (Cached(k) /\ memory[k].content = c) THEN "none"
    ELSE IF enabled THEN "sent" ELSE "dropped"

NewEntry(f, c) ==
    [key |-> KeyOf(f), got |-> [content |-> c, time |-> now], hit |-> Hit(KeyOf(f), c),
     told |-> FALSE, run |-> crashes]

(* An answer with code 0 becomes an experiment, which is compared with the cached one. *)
Answer(f, c) ==
    /\ At(f, "sent") /\ main = None
    /\ log' = Append(log, NewEntry(f, c))
    /\ fetch' = [fetch EXCEPT ![f].got = [content |-> c, time |-> now],
                             ![f].entry = Len(log) + 1, ![f].at = "save"]
    /\ main' = f
    /\ UNCHANGED <<disk, app, purged, counts>>

(* Mutant of SaveToDisk: saved for whoever is logged in. *)
SaveForCurrentUser(f) ==
    /\ At(f, "save")
    /\ Store(f, <<fetch[f].layer, user>>, fetch[f].got)
    /\ GoTo(f, "saving")
    /\ UNCHANGED <<main, app, ghosts, counts>>

SaveToDisk(f) ==
    /\ At(f, "save")
    /\ Store(f, KeyOf(f), fetch[f].got)
    /\ GoTo(f, "saving")
    /\ UNCHANGED <<main, app, ghosts, counts>>

(* The app's block gets the experiment. *)
Complete(f) ==
    /\ At(f, "saving") /\ Synchronized(f)
    /\ Over(f)
    /\ log' = [log EXCEPT ![fetch[f].entry].told = TRUE]
    /\ UNCHANGED <<disk, app, purged, counts>>

-----------------------------------------------------------------------------
(* Around the fetches *)

SetLoginUserId ==
    /\ changes < MaxChanges /\ changes' = changes + 1
    /\ \E i \in Identity \ {user} : user' = i
    /\ UNCHANGED <<disk, fetch, main, enabled, service, now, ghosts, fetches, crashes>>

SetDataCollectionEnabled ==
    /\ changes < MaxChanges /\ changes' = changes + 1
    /\ enabled' = ~enabled
    /\ UNCHANGED <<disk, fetch, main, user, service, now, ghosts, fetches, crashes>>

Tick ==
    /\ now < MaxTime /\ now' = now + 1
    /\ UNCHANGED <<disk, fetch, main, user, enabled, service, ghosts, counts>>

(* What init keeps of the file. *)
Loaded == [k \in Key |-> IF IsOutdated(file[k]) THEN NoExperiment ELSE file[k]]

(* The process ends and another starts: the storage reads its file. *)
Crash ==
    /\ crashes < MaxCrashes /\ crashes' = crashes + 1
    /\ memory' = Loaded
    /\ io' = IF Loaded = file THEN <<>> ELSE <<[by |-> None, snapshot |-> Loaded]>>
    /\ fetch' = [f \in Caller |-> IdleFetch] /\ main' = None
    /\ UNCHANGED <<file, app, ghosts, fetches, changes>>

OfFetch(f) ==
    \/ Find(f) \/ RemoveExperiment(f) \/ Removed(f) \/ RequestExperiment(f)
    \/ HttpFailure(f) \/ Refused(f)
    \/ (\E c \in Content : Answer(f, c))
    \/ SaveToDisk(f) \/ Complete(f)

Next ==
    \/ \E f \in Caller : FetchExperiment(f) \/ OfFetch(f)
    \/ WriteFile
    \/ SetLoginUserId \/ SetDataCollectionEnabled \/ Tick
    \/ Crash

Spec == Init /\ [][Next]_vars

(* A request is answered or times out (timeoutInSeconds), the queues run what they hold. *)
Fairness == WF_vars(WriteFile) /\ \A f \in Caller : WF_vars(OfFetch(f))

FairSpec == Spec /\ Fairness

-----------------------------------------------------------------------------
(* Correctness *)

(* Every part of the state keeps the values its code can give it. *)
TypeOK ==
    /\ memory \in Experiments /\ file \in Experiments
    /\ io \in Seq([by : Caller \cup {None}, snapshot : Experiments])
    /\ fetch \in [Caller -> Fetch]
    /\ main \in Caller \cup {None}
    /\ user \in Identity /\ enabled \in BOOLEAN /\ service \in BOOLEAN /\ now \in Nat
    /\ log \in Seq(Entry) /\ purged \subseteq DOMAIN log
    /\ fetches \in Nat /\ changes \in Nat /\ crashes \in Nat

(***************************************************************************)
(* The order of writing is the order of the changes in memory: whatever    *)
(* threads save and remove, once the queue is empty the file holds what    *)
(* the array holds.                                                        *)
(***************************************************************************)
FileFollowsMemory ==
    IF io = <<>> THEN file = memory ELSE io[Len(io)].snapshot = memory

(***************************************************************************)
(* An experiment is kept for the identity the server was asked for, also   *)
(* when another user logs in while the request is under way.               *)
(***************************************************************************)
OwnExperiment ==
    \A k \in Key : Cached(k) =>
        \E i \in DOMAIN log : log[i].key = k /\ log[i].got = memory[k]

(***************************************************************************)
(* What the app was told survives an end of the process for the rest of    *)
(* the day: the file holds it or a later answer.  The one exception: a     *)
(* fetch that had found an outdated experiment removed by its key what was *)
(* saved meanwhile, this answer's own fresh copy (removeFromDisk).         *)
(***************************************************************************)
ToldIsDurable ==
    \A i \in DOMAIN log : log[i].told =>
        \/ IsOutdated(log[i].got) \/ i \in purged
        \/ \E j \in i..Len(log) : log[j].key = log[i].key /\ file[log[i].key] = log[j].got

SameKey(i, j)     == log[i].key = log[j].key
SameContent(i, j) == log[i].got.content = log[j].got.content
SameDay(i, j)     == DayOf(log[i].got.time) = DayOf(log[j].got.time)

(* The process ended after entry i, before the app was told of it, and before entry j. *)
MayBeLost(i, j) == ~log[i].told /\ log[i].run # log[j].run

(***************************************************************************)
(* A user enters an experiment once a day: without another answer between  *)
(* them the event is repeated only if the process ended before the app was *)
(* told of the first, or the fresh copy of the first was removed for an    *)
(* outdated one before the second came.                                    *)
(***************************************************************************)
OneHitPerDay ==
    \A i, j \in DOMAIN log :
        /\ i < j /\ SameKey(i, j) /\ SameDay(i, j)
        /\ \A m \in i .. j : SameKey(m, j) => SameContent(m, j)
        /\ log[i].hit = "sent" /\ log[j].hit = "sent"
        => i \in purged \/ MayBeLost(i, j)

(***************************************************************************)
(* Every change of a user's experiment is reported: an answer without an   *)
(* event has the content of an earlier one, and whatever came in between   *)
(* has it too or may have been lost.                                       *)
(***************************************************************************)
ChangeIsHit ==
    \A j \in DOMAIN log :
        log[j].hit = "none" /\ log[j].got.content # Miss =>
            \E i \in 1 .. j - 1 :
                /\ SameKey(i, j) /\ SameContent(i, j)
                /\ \A m \in i .. j : SameKey(m, j) => SameContent(m, j) \/ MayBeLost(m, j)

(* Each change is reported, and reported once. *)
HitPerChange == OneHitPerDay /\ ChangeIsHit

(***************************************************************************)
(* Every fetch ends, after its one retry at the latest.  The app is told,  *)
(* unless its process ends or there is no network service to ask.          *)
(***************************************************************************)
FetchEnds == \A f \in Caller : At(f, "find") ~> At(f, "idle")

=============================================================================
