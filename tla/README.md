# A TLA+ verification of the GrowingIO iOS tracker

This directory holds TLA+ specifications of the core of
growingio-sdk-ios-autotracker, TLC configurations that check them on small
instances, and proofs, checked by TLAPS, of theorems that hold for every value
of the constants. Paths below are relative to `src/`.

## 1. The system

The SDK observes an app, turns what happens into events, stores the events in
SQLite and uploads them. Nearly all state belongs to one thread, the
*GrowingThread* (`GrowingTrackerCore/Thread/GrowingThread.m`): whoever wants to
change it hands a block to `GrowingDispatchManager dispatchInGrowingThread:`,
which runs it at once on that thread and queues it from any other.

| Component | State | Operations | Hard part | What makes it correct |
|---|---|---|---|---|
| `GrowingEventDatabase` (Database/) over `GrowingEventFMDatabase` (Services/Database/) | write cache `updateKeys`/`updateValues`; table `namedcachetable` | `setEvent:forKey:`, `flush`, `getEventsByCount:…`, `countOfEvents`, `clearAllItems`, expiry at open | a flush drains the cache, then runs two transactions, each of which may fail; crashes in between | the table keeps the posting order, a crash loses less than `autoFlushCount` events, a batch skips nothing |
| `GrowingEventManager` with `GrowingEventChannel`, `GrowingDataTraffic`, `GrowingNetworkInterfaceManager` | channels and their `isUploading`, cellular byte count, interceptors | `postEventBuilder:`, `sendAllChannelEvents`, `sendEventsOfChannel_unsafe:`, completions, `flushDB` | uploads overlap with posts, other uploads, link changes, failures and crashes | at-least-once delivery, no duplicate without a failure, order, policy and cellular limits, eventual delivery |
| `GrowingSession` with `GrowingRealTracker` and `GrowingConfigurationManager` | `sessionId`, `sentVisitAfterRefreshSessionId`, `loginUserId`/`loginUserKey`, `latestNonNullUserId`, `latestDidEnterBackgroundTime`, `dataCollectionEnabled` | lifecycle callbacks, `setLoginUserId:userKey:`, `refreshSessionId`, `generateVisit`, `setDataCollectionEnabled:` | callers on the main thread race with the GrowingThread (start of the SDK, Hybrid bridge) | one VISIT per session and before its other events, one user per session, a key that belongs to its user |
| Hybrid bridge (`Modules/Hybrid`) | injected scripts, DOM listeners | JavaScript messages: events, user ids | changes the session off the GrowingThread | as the session's |
| `GrowingEventTimer` | timers: start, accumulated duration | start, pause, resume, end; background pause and resume | call time is taken before the block runs | a duration counts the time the timer ran, in the foreground |
| Advertising (`Modules/Advertising`), ASA and CAID fetchers | activation flags, queued builders, fetch status | clipboard, activation, fetch with retries and timeouts, event interceptors | fetches race with timeouts, with the activation event and with the end of the process | one ACTIVATE per installation, delayed no longer than the timeouts |
| ABTesting (`Modules/ABTesting`) | experiments by layer and identity, their file and its write queue | fetch with one retry, cache expiry, `$exp_hit` event | several fetches at once; changes of user, midnight and the end of the process between their steps | the file follows the array, an experiment is its user's, what the app was told survives, a change is reported once a day |
| ImpressionTrack, ViewImpression | visible nodes, expose-once tokens | layout changes, page changes | bounded token FIFO | one exposure per appearance |
| Autotracker core: page manager, click and node tracking | page tree, visible pages | view controller lifecycle, control and gesture actions | order of UIKit callbacks | page precedes its clicks |
| Deep links (`Modules/Advertising`, `GrowingDeepLinkHandler`) | `deeplinkUrl`, short links that wait for a user agent or an answer, handler list | a link is opened, or passed by the app; data collection is turned on | the same code runs on the main thread and, for a link that was kept, on the GrowingThread | no link is forgotten, none is reported again and again, the app is answered once |
| WebCircle, MobileDebugger | socket state, bounded queues | socket callbacks, screenshots | stuck `onProcessing`, bounded queue | - |
| Module and service managers, start-up | registered classes; whether the channels exist | register, trigger event, `configManager` | events before `configManager` has run | the first VISIT meets its channel |
| General properties, persistence data provider, file storage, device info | dictionaries, user defaults | get, set | crash between two related writes | - |
| Network service, compression, encryption, JSON and protobuf | none | encode, send | - | - |
| APM, Flutter, UniApp, V2 adapter, screenshots, logging, menus | UI and glue | - | - | - |

Vendored code (FMDB, SocketRocket, LZ4, SwiftProtobuf, the logger), `Example/`
and generated protobuf classes are outside the scope.


How they interact, for the parts that are modelled:

```
 app, UIKit ──calls──▶ GrowingRealTracker, GrowingEventTimer, Hybrid bridge, Advertising, deep links
                              │ blocks (dispatchInGrowingThread:)
                              ▼
   GrowingSession ──generateVisit──▶ GrowingEventManager postEventBuilder:
                                          │ setEvent:forKey:, flush        ▲ batches
                                          ▼                                │
                                     GrowingEventDatabase (cache) ──▶ SQLite table
                                          │ sendEventsOfChannel_unsafe:
        interceptors (ASA, CAID) ──▶ batch ──▶ GrowingNetworkManager ──▶ server
                                                   │ completion, on the main queue
                                                   └──▶ blocks that delete and clear the flag
```

Three facts about the threads shape every module:

- `dispatchInGrowingThread:` runs the block *inline* when the caller is already
  on the GrowingThread (`GrowingDispatchManager.m`), and otherwise queues it,
  first in, first out. A block that is not entered inline cannot be interrupted
  by another one; only the end of the process can cut it.
- The completion of a request is called on the main queue
  (`Services/Network/GrowingNetworkManager.m:67`), and that of an upload hands blocks
  to the GrowingThread from there. Time-outs, attribution requests and the pasteboard
  are served on global queues; they come back as blocks, or, in the ASA and CAID
  fetchers, write shared state right there.
- The main thread runs SDK code of its own when the SDK starts and, with the
  Hybrid module, whenever a web page calls the bridge.

## 2. The modules

| Module | Models | Composes |
|---|---|---|
| `EventStore` | operators on the write cache and the table: what a flush writes, where a failing one stops, which rows a batch has | - |
| `EventDatabase` | one database with its flush in three steps, its calls, failures, ends of the process | `EventStore`; implements `WriteBehindMap` |
| `WriteBehindMap` | what the owner of a database may rely on | - |
| `EventManager` | the upload pipeline: all channels with their databases, uploads, link, cellular count, disk, ends of the process | `EventStore` once per channel; implements `EventDelivery` |
| `EventDelivery` | what the pipeline promises: stored until received or expired | - |
| `Session` | start of the tracker, session id, login user, VISIT, data collection, app_reengage, the queue of the GrowingThread and the main thread | - |
| `EventTimer` | the timers, and a watch for each of them | - |
| `Activation` | the ACTIVATE event: pasteboard, user agent, ASA and CAID fetches as interceptors, its flags, one upload | - |
| `ABTesting` | fetches of experiments, their cache, its file, the request and its retry, `$exp_hit` | - |
| `DeepLink` | links that are opened or passed by the app: `deeplinkUrl`, the two threads, short links, data collection | - |
| `MC…` | model values and data for TLC | their component |
| `…Proofs` | theorems and their proofs | their component |

`PROJECT.json` maps each definition to the lines it stands for.

### EventStore and EventDatabase

`store.updates` is the pair `updateKeys`/`updateValues` of
`GrowingEventDatabase`, `store.rows` the table, `store.nextId` SQLite's next
rowid. `setEvent:forKey:` appends and flushes at `autoFlushCount` (`AfterSet`).
`flush` walks the cache backwards, keeps the last write of each key, empties the
cache and writes a delete and an insert transaction: `FlushCache`,
`DeleteTransaction`, `InsertTransaction`, each a step, with `DeleteFails` and
`InsertFails` between them. A transaction that fails is not rolled back by its
block (nobody sets `*rollback`), so what it wrote before stays:
`PartialDeletes`, `PartialInserts`. `CrashAndOpen` may come between any two
steps and drops what has expired. `GetEvents` is the walk of
`getEventsByCount:limitSize:policy:`, which stops at the count, or before the
row with which the size would reach the limit.

Abstracted: a key stands for an event with its policy and its length. SQLite
gives a new row the greatest rowid plus one, so only the order of the ids counts.
Reads that fail, and rows whose format cannot be converted, are left out.

### EventManager

`postEventBuilder:`, `sendAllChannelEvents`, `sendEventsOfChannel_unsafe:` with
its early returns, the completion of a request on each of its paths, `flushDB` at
`applicationDidEnterBackground`, and the day that resets the cellular count are
actions. A queued block is an action that is enabled when no block is `Idle`;
blocks may so overtake each other, which is more than a FIFO queue allows. A
block that dispatches again from the GrowingThread goes on inline, as the steps
of `sending`, or, while it deletes what was sent, of a request in state
"removing". The databases are those of `EventStore`, a flush being one step here
whose failures are all of `FailedFlushes` while `diskOK` is FALSE; that the three
steps of `EventDatabase` amount to this is what the first model shows. A crash
may leave any of the same states.

The state of a request follows its completion: "sent", "got" (the server has
stored the events), then a 2xx answer (`DidSend`), another status (`BadStatus`)
or a connection error (`ConnectionError`). The last queues *two* blocks that
clear `isUploading` ("cleared"), and may come with a 2xx response, whose events
are then deleted although the flag was cleared ("late"). An answer that arrives
after the client gave up is the same as one that was lost.

Abstracted: events are model values; `received` counts to 2, which stands for
more; ids of requests only tell overlapping requests apart; Ethernet is WiFi;
the status *undetermined* sends every policy, as the code does; `Fetched` stands
for the end of the ASA and CAID fetches, which `Activation` models; Protobuf
channels are channels like the others. Left out: sends for debugging, and the
exception the code makes for watchOS without network.

### Session

`ses` holds the fields of `GrowingSession`, `log` the events as they are
written. Each thread has a `stack` of frames, one frame for each access to the
state that both threads share: `refreshSessionId` writes the id ("refresh") and
then the flag ("unsent"), an event reads user, id and key one after the other
("readUser", "readId", "readKey"). The properties are `nonatomic`, so two
threads may interleave at each of these accesses; that is the granularity of the
model. `TakeBlock` is the run loop of the GrowingThread, and "dispatchVisit" is
the test of `dispatchInGrowingThread:`, inline on the GrowingThread and queued
from the main thread. Whether `sessionInterval` has passed when the app becomes
active is open.

The tracker starts on the main thread: `StartUp` is what `initWithConfiguration:`
does after `startSession`, that is `configManager`, whose block creates the
channels on the GrowingThread (`ConfigManager`), and the first `generateVisit`.
Until `channels` is TRUE an event that is written is dropped, as a message to the
missing channel is.

Calls: `LoginUser`, `Track`, `OtherCall` (data collection, deep links),
`LifeCycle` (in the order UIKit gives them, told by `GrowingULAppLifecycle` to
its delegates in the order they registered) and `HandleJavascriptBridgeMessage`,
whose `WKScriptMessageHandler` runs on the main thread. `EarlyTrack` is a module
that posts from a thread of its own while the tracker starts. The last two are the
*races*: SDK code that runs beside the main thread's own.
Left out: the event filter, the location, length limits of ids, `firstSession`.
With `idMapping` off the keys are `None`. The session is not restarted here, so the
persistence of the login user is left out as well.

### EventTimer

`timers` is the dictionary of `GrowingEventTimer`. A call of the app reads the
clock and queues a block with that time; the blocks of the session read the clock
when they run. `watch` is not in the code: per timer it measures the time between
the app's calls outside the background (`ran`), how long the session's blocks
waited, added up over the blocks (`late`), and records the two cases the properties exempt, `cut` and `behind`.

### Activation

The block of `loadClipboard` and those that follow it run through `todo`, one
step for each write (the event, its send, its flag), so that the process can end
in between. `pending` counts tasks that are under way elsewhere: the reading and
clearing of the pasteboard, the user agent, the attempts of `GrowingAsaFetcher`
and its time-out (tested and acted upon in two steps: "armed", "due"; "running",
"answered"), the callback and the time-out of `GrowingCAIDFetcher`. `AsaWillSend`
and `CaidWillSend` are the interceptors, asked in any order, since the code keeps
them in a hash table. `flags` is `GrowingAdUtils.storeDic`, `file` its copy on
disk, whose write may fail.

Abstracted: the attribution data itself; `RetryCount` 1 stands for 3; the test
and the decrement of `retriesLeft` are one step; one queued removal of the
interceptor stands for several; the table writes succeed (they are the subject
of `EventDatabase`).

The SDK starts as Init leaves it: the block of `loadClipboard` is queued, and the main
thread goes on to queue that of `configManager` (`ConfigManager`), which creates the
channels. Until it has run (`Configured`) an event is built and dropped, which can
happen to app_defer: the pasteboard is read on a global queue, and its block may be
queued before configManager's. Nothing that passes through the main queue comes so
early, neither the user agent nor the app's own calls. `made` counts a dropped event,
as its flag does. Left out: flags of SDK versions that kept them in
`NSUserDefaults`. What a link itself leads to is the subject of `DeepLink`; here it
only starts a CAID fetch (`HandleURL`).

### ABTesting

Each member of `Caller` is a call of `fetchExperiment:completedBlock:`, taken
through `Find`, `RemoveExperiment`, `RequestExperiment`, its answer
(`HttpFailure`, `Refused`, `Answer`) and `SaveToDisk`, one
step for each access to what the calls share. `memory` is the array of
`GrowingABTExperimentStorage`; a change of it queues a snapshot for the serial
queue (`io`) under the same lock, and `Removed` and `Complete` wait, outside the
lock, until the caller's own snapshots are written. `dispatch_sync` waits for
whatever is queued, so the model may go on earlier than the code, never later.
`main` is the fetch that runs on the main thread: answers do, one after the
other; a call of the app may come from another thread. `Crash` ends the process
and starts one that drops what is outdated (`Loaded`). `log` and `purged` are
history: the successful answers, and those of them whose fresh copy was removed
in place of an outdated one. Only answers that had been saved by then are in it; what
the key is answered afterwards is not. `service` is open at the start: without a network
service `requestExperiment:` returns and never calls its block
(`GrowingABTesting.m:157`), which ends the fetch with the app untold.

Abstracted: an answer is its content; layers and identities are model values.
Left out: a write of the file that fails, a clock that goes back, entries that
older versions wrote without an identity, and the checks of `growingModInit:`.

### DeepLink

`growingHandleURL:isManual:callback:` runs on the main thread when a link is opened
(`Open`) or passed to `doDeeplinkByUrl:callback:` (the links in `Manual`), and on
GrowingThread when data collection is turned on while `deeplinkUrl` holds a link
(`ReadUrl`, `CopyUrl`, `ForgetUrl`). `at[t]` is what thread `t` is about to do, one
step for each access to what both share, `deeplinkUrl` and `dataCollectionEnabled`,
both `nonatomic`. `KeepUrl` is line 170 of `GrowingAdvertising.m`, `Track` the test of
line 173 and the choice by the kind of the link, `ClearUrl` and `Report` the branch of
a long link. A short link goes through its block (`ShortLink`), the user agent
(`UserAgentArrives`, then `PreRequest` or `NoUserAgent`) and its request (`Answered`,
`AnsweredInPart`, `RequestFails`, which run on the main thread when it is free).
`userAgent` may be known from the start, since the activation asks for it as well, and
without a network `service` the request is not sent. `dispatchInGrowingThread:` queues from the main
thread and goes on inline from the other, as in `Session`; `work` counts the blocks
and requests that wait, so they may overtake each other. `SetDataCollectionEnabled` is
the block of that call.

`opened`, `reports`, `told`, `refused` and `excused` are history.
`excused` are the links whose event is not due: collection was turned off before it,
the user agent, the service or a parameter is missing, or another link took their place in
`deeplinkUrl` while nothing else remembered them (`Excuse`).

Abstracted: a link is its kind (short, with all parameters, with some, with none, not
of GrowingIO); the delay of a web view that has not answered is open. Left out: what
`Session` models, an app_reengage that waits until the session is active; what
`Activation` models, the CAID fetch; a link without a callback, what the call
returns; the delegates that pass a url to
`GrowingDeepLinkHandler`, which asks its handlers until one answers YES. Each link is
opened once, in one process.

## 3. What the runs check

`tlc -config <cfg> <module>` runs one of them. The state counts are of distinct
states; no run takes more than a few minutes with two workers.

| Run | Module, cfg | States | Question |
|---|---|---|---|
| `event_database` | `MCEventDatabase` | 54,189 | Is a timing database, with its failing and interrupted flushes, a write-behind map that keeps the posting order, and does an end of the process lose less than `autoFlushCount` events? |
| `uploads` | `MCEventManager`, `MCUploads` | 1,227,848 | With overlapping uploads, failing requests and a changing link: is nothing lost or overtaken, nothing sent twice without a failure, is the flag right, and is the cellular limit kept? |
| `delivery` | `MCEventManager`, `MCDelivery` | 136,712 | With a failing disk, an outage and an end of the process: does an event leave the table only for the server, and does everything stored arrive, past left-over rows and held-back events? |
| `session` | `MCSession` | 2,747,623 | From the start of the tracker: one VISIT per session, before its other events; one user per session; keys that belong to their user; re-engagement in the renewed session. And when something races with the main thread: once all is at rest, does the session have its VISIT? |
| `event_timer` | `MCEventTimer` | 3,919,447 | One event per timer; none while data collection is off; a duration is the time in the foreground, up to the time the session's blocks waited |
| `activation` | `Activation`, `MCActivation` | 429,651 | With ends of the process, a file that cannot be written and a switch of data collection: ACTIVATE is never skipped, and made once |
| `activated` | `Activation`, `MCActivated` | 301,712 | With both fetches, a deep link and a failing upload: ACTIVATE is delivered, and no fetch is stuck |
| `ab_testing` | `MCABTesting` | 618,118 | Two fetches at once, midnight, a change of user or of data collection, an end of the process: does the file follow the array, does each user get its own experiment, does what the app was told survive, is each change reported once a day, and does every fetch end? |
| `deep_links` | `MCDeepLink` | 3,864,894 | Links opened and passed by the app while data collection is switched and requests fail: is none forgotten, is none kept once it was handled, is each reported twice at most, and is the app answered once? |
| `reengage` | `MCSession`, `MCReengage` | violation | finding 1 |
| `interrupted` | `MCEventTimer`, `MCInterrupted` | violation | finding 2 |
| `attribution_sent` | `Activation`, `MCSent` | violation | finding 3 |

### Bounds, and why they are enough

Every bound is a CONSTANT named in its module; none cuts a behaviour within it.

- *Databases* (`MaxCalls` 6, `MaxFaults` 2, `MaxCrashes` 1, three events,
  `AutoFlushCount` 2, `MaxBatch` 2): two full caches, so that a flush fails with
  more than one write left, and another follows it; a key that is set, removed
  and set again within one cache; a batch that ends by count, by size, and by
  the end of the table.
- *Pipeline* (three events, two channels): an instant event next to one that may
  wait, and a second channel. `uploads` has `MaxBatch` 1, so a full batch is left
  over after an upload, and one failed request, enough for the second clearing
  of the flag to let uploads overlap. `delivery` has one period in which any
  number of writes fail and one end of the process, which may lose deletions
  after the server answered, so that the restarted process sends again; a left-over
  row and a held-back ACTIVATE, which together fill a batch (`MaxBatch` 2), and an
  event behind them, which waits until the fetch has ended. One process end is
  enough for liveness, since what it speaks of begins anew after each.
- *Session* (users A and B with a key each, no user, a blank id): a change needs
  two users, a return of the first needs three calls, and a fourth interleaves
  with them. `MaxQueue` 2 holds the two blocks that an activation queues.
  A call that races costs two of the four (`MaxRaces` 1), which leaves two others
  before, in between or behind: a frame per access makes them interleave in every
  way. The properties that need `races = 0` see all four calls.
- *Timers*: `Day` 4 and `MaxTime` 5 reach a stretch that is too long; six calls
  are start, two changes of the life cycle, pause, resume and end. Timers do not
  interact, so one is enough for the durations; three blocks wait at once (`MaxQueue`
  3), two of them the session's; the invariant behind
  `OneEventPerTimer` was also checked with two (4,647,626 states) before it was
  proved for any number.
- *Activation*: one retry, one switch, one lost write, one end of the process,
  and all three contents of the pasteboard; `activated` has one deep link, which
  starts a CAID fetch while another is under way, and one failure, whose retry
  starts an ASA fetch without a time-out of its own.
- *A/B testing* (`Day` 2, `TTL` 1, `MaxTime` 2): a cached experiment is fresh, past
  its TTL, or of yesterday. Three fetches, two of them at once, are needed for one
  to remove what another has just saved and a third to report it again; one change
  of user or of data collection, and one end of the process. An
  unreadable body counts as an answer without experiment, as in the code. Layers do not interact, so one is enough.

- *Deep links*: a link of each kind, short and long ones both opened and passed; three
  of them in a behaviour, so that two compete for `deeplinkUrl` while a third is on
  its way. `MaxToggles` 4 turns collection off and on twice, so that a link that is
  still kept would be handled once more; one user agent or request fails.

Deadlock is checked in the pipeline and the activation, where the timer always
sends again. The other runs stop when their calls are used up, and switch the
check off.

### Fairness

Only the liveness properties use it.

- The upload timer repeats (`SendAllChannelEvents`), and a thread that has begun
  a block ends it: weak fairness.
- A completion is a block in the queue of GrowingThread. The model lets other
  blocks overtake it; the run loop serves its queue in order, so it cannot be
  overtaken for ever: strong fairness for `DidSend`, `ClearAgain` and the blocks
  of `Activation`.
- Requests and ASA attempts have time-outs in the code, a disk outage is assumed
  to end. The `CAIDFetchBlock` belongs to the app and need not call back; only the
  SDK's own time-out is fair.
- In `ABTesting` the write queue runs, and every fetch goes on: its request is
  answered or times out (`timeoutInSeconds`), and its blocks run in their queues.
- `EventManager!Delivered` needs a link that is WiFi from some time on, and speaks
  of a process that lives. It assumes that left-over rows of a 3.x SDK do not
  fill a batch and that no row reaches the size of a batch by itself: in both
  cases the code would stop sending the channel until these rows expire.

### Properties worth knowing before the code is changed

- `BoundedLoss` (databases): `autoFlushCount - 1` is what an end of the process
  may cost; a realtime database has count 0, which flushes at every write.
- `Refinement` (databases): only a failed write or an end of the process makes
  the owner lose something, and only something not yet written.
- `UploadFlag`: each connection error allows one more upload to overlap, because
  of the second block; `NothingLost` says that this costs duplicates at most.
- `InOrder`: within a channel and a policy nothing overtakes an event that is
  still stored, also after failed uploads and with a changing link.
- `CellularBudget`: the bytes are counted at completion, so the limit is
  overshot by less than one batch per channel.
- `VisitFirst`, `OneVisitPerSession`, `OneUserPerSession` and `KeyOfUser` hold as long
  as nothing races with the main thread (`races = 0`): with the bridge an event may
  read the user of one session and the id of the next. `AtRestVisited` is what
  remains otherwise. All of them rest on the order of `StartUp`: the block that
  creates the channels is queued before the first VISIT.
- `CountsForeground` (`NoLongerThanForeground` and `NoShorterThanForeground`) bounds a duration from
  both sides by the time the session's blocks waited, added up: each of two blocks that
  wait during the same second can shift the duration by it, so no smaller bound holds.
  The exemptions are named there.
- `FetchEnds` (`AsaFetchEnds` and `CaidFetchEnds`): the interceptors hold ACTIVATE back while a
  fetch is *Fetching*, so there must always be something that ends it; the ASA
  fetcher reaches this through retries, old time-outs and late answers.
- `FileFollowsMemory` (A/B testing): snapshots must be submitted under the lock that
  changes the array. `ToldIsDurable` needs the wait before the app's block is called.
- `HitPerChange` (`OneHitPerDay` and `ChangeIsHit`): reported once, unless the process ended before the
  app was told, or the fresh copy of that answer was removed for an outdated one
  (`purged`). Two fetches are needed for that; with one at a time there is no such
  exception (`AloneIsExact`).
- `NothingForgotten` (deep links): the main thread must keep a link *before* it tests
  `dataCollectionEnabled`. The other order loses the link when collection is turned on
  between the two.
- `HandledIsForgotten`, `HandledTwiceAtMost`: whatever handles a link also clears
  `deeplinkUrl`; the last line of the replay does so for links that end without.

## 4. What is proved

TLAPS proves the following for every value of the constants that satisfies the
module's ASSUME, so without the bounds of section 3.

| Module | Theorem | Says |
|---|---|---|
| `EventDatabaseProofs` | `TypeCorrect`, `LossIsBounded` | `TypeOK`, with the bound on the cache, and `BoundedLoss` always hold |
| | `Refines` | `EventDatabase` implements `WriteBehindMap` |
| | `RowsStayInOrder`, `BatchesAreLongest` | `RowsInOrder`, `BatchIsLongestPrefix` |
| `EventManagerProofs` | `Invariance`, `TypeCorrect` | the pipeline's inductive invariant; its types and the bound on each cache |
| | `DeliversAtLeastOnce` | `EventManager` implements `EventDelivery` |
| | `LosesNothing`, `FlagBoundsUploads`, `CalmIsOnce` | `NothingLost`, `UploadFlag`, `AtMostOnceWhenCalm` |
| | `KeepsOrder` | `InOrder` |
| | `StaysInBudget` | `CellularBudget`, for finitely many channels and batches of bounded size |
| | `OldestIsNext` | the oldest event that may go is in every batch (`OldestGoes`), if the left-over events leave room for it |
| | `QueueOnlyShrinks` | no step puts a row ahead of one that stays (`NobodyGetsAhead`) |
| `SessionProofs` | `TypeCorrect` | types, of sessions, blocks and stacks |
| | `OrderIsKept` | the session's inductive invariant |
| | `VisitComesFirst`, `VisitComesOnce` | `VisitFirst`, `OneVisitPerSession` |
| | `UserKeepsSession`, `KeyFollowsUser` | `OneUserPerSession`, `KeyOfUser` |
| | `RestIsVisited`, `ReengagesAfterReturn` | `AtRestVisited`, `ReengagesInNewSession` |
| `EventTimerProofs` | `TypeCorrect`, `DisabledHasNoTimer`, `EndsOnce` | no negative duration; no timer without data collection; one event per timer |
| | `DurationsCountForeground` | `CountsForeground` |
| `ActivationProofs` | `TypeCorrect`, `FetchesEnd` | types; `FetchEnds` |
| | `FlagFollowsEvent`, `MadeOnce` | `NeverSkipped`; `ActivatedOnce` |
| | `FetchAdvances` | the work an ASA fetch has left only decreases (`AsaAdvances`) |
| `ABTestingProofs` | `TypeCorrect`, `Follows` | types; `FileFollowsMemory` |
| | `KeptForItsOwner`, `ToldSurvives` | `OwnExperiment`, `ToldIsDurable` |
| | `ReportsChanges` | `HitPerChange` |
| | `AloneIsExact` | with one fetch at a time, both without the exception for removals (`AlwaysDurable`, `AlwaysOneHit`) |
| | `EndsApproach`, `MainWaitsForDisk` | a fetch only comes nearer to its end (`ComesNearer`); the main thread never waits for the server (`MainIsFree`) |
| `DeepLinkProofs` | `TypeCorrect`, `ForgetsNone` | types; `NothingForgotten` |
| | `Forgets`, `TwiceAtMost` | `HandledIsForgotten`; `HandledTwiceAtMost` |
| | `AnswersOnce` | `AnsweredOnce` |

`StaysInBudget` states two hypotheses of its own, finitely many channels and bounded
sizes of requests; `AloneIsExact` one, `Alone`: an app that has one fetch under way at a
time; `OldestIsNext` one, `RoomForOne`: the left-over events do not fill
a batch by number, and one event more than they are stays below the byte limit. The
other assumptions are the ASSUMEs on the constants: bounds, counts and limits are naturals (`CacheLimit` not
0), every event has a policy, a length and a channel, the left-over rows are finitely
many, the ids None and Blank are no user's, a day has a length, a key of the app
belongs to a user, the kinds of links are disjoint, and links, contents of the
pasteboard and keys come from the sets the code knows. TLC evaluates each ASSUME in
the runs of the module.

### The arguments

**Databases.** `BoundedLoss` is not inductive: after a flush it depends on what
the three steps hand on. `IInv` adds `FlushPhases` (what was drained is no longer
in the cache; the cache stays empty until the flush ends; the insert starts from
a table without the removed keys) to `TypeOK`, whose part `CacheBelowCount` bounds
what may be lost between two calls. `EventStoreProofs` has
the lemmas about the cache: the last writes of a key decide, so a flush removes
`RemoveArray` and adds `InsertArray`, and a failed one stops in between. The
refinement maps `disk` to the keys of the table and `mem` to `Mem`, what the owner
would read if all pending writes went through; each of the three steps then is
`Persist` or a stutter, and a failed one is `Fail`.

`RowsInOrder` needs to know that what is still to be written comes after what is in the
table. `OrderInv` says so of the cache and of what the flush under way has drained:
the writes that set an event are in the order of the calls (`OrderedUpdates`), and
every row is of an earlier call than they. An insert numbers its rows in that order,
above all others (`InsertRanks`), and whatever a deletion or a failed transaction takes
away disturbs no order (`OrderKeptBySubset`).

`BatchIsLongestPrefix` is about what `getEventsByCount:limitSize:policy:` returns, so
about the sum of the lengths of a set of rows, which the model takes from the community
fold. Its definition is a recursive function on sets, of which nothing can be
said before it is known to exist. `SumsExistWithin` shows that it does for the sets of
up to n elements, by the least n for which it would not (`LeastNatural`, from
well-foundedness, since a theorem of induction cannot be cited here); in the same way
`SumsOfRows` shows that the order of the fold does not matter: every element may be
taken first. From there `EventsLength` is an additive, monotone measure
(`EventsLengthOfMore`), the rows the walk stops at are upward closed, so a batch is a
prefix (`TakenIsPrefix`), below the limits (`TakenFits`), and the next row is one too
many (`NextIsTooMuch`).

**Pipeline.** That an event leaves its table only for the server needs to know
that a removal in a cache is of a received event, also when it is written later
than the request that caused it, or from another, overlapping request. `Consistent`
says this of caches and tables, and that an event waits in at most one of them;
`RequestsConsistent` says that a request carries events that are stored or
received, and received ones once its answer was 2xx. Overlapping requests for the
same rows are the reason for the disjunction. A lemma shows that flushes, whole
or failed, keep `Consistent`; one step per action does the rest, and the same
steps show that each is a step of `EventDelivery` or a stutter.

The others have an invariant of their own beside `IInv`. `HeldInv`: what a
database holds for its owner, `Apply` of the cache to the table, is not changed by a
flush that succeeds (`FlushApplies`), and only a removal of a received event takes
something from it. `Flags`: a channel has at most as many requests as its flag and
the connection errors so far allow, since an error clears the flag of a request that
has a block left; with no such error the flag is exactly "there is a request".
`CalmInv`: the caches are empty while channels are sent, so a batch is what the channel
holds; what a channel holds although the server has it is in a request; and that is
the channel's only one, which removes it before the flag is cleared.

`KeepsOrder` carries the order of the rows (`Tidy`, by the lemmas above) over to what
was sent. `Waits` says of a set of events that it overtakes nothing: whoever still
waits while a later event is in the set is in the set as well, or with the server. It
holds of the received events and of every request, since a batch is a prefix of the
rows of its policy (`BatchIsPrefix`), and what the cache still holds is later than any
row. It must be said of requests one by one: two overlapping ones may be answered in
either order.

`StaysInBudget` counts the requests whose bytes are still to be added, at most one for
each channel while there is no connection error (`Flags`). Each started below the limit
and is at most as large as the largest batch, so `BudgetInv` bounds what is counted plus
what will be; the completion of a request moves its share from one to the other. That a
largest batch exists is where the bound on sizes is used, for `Max` of an unbounded
set says nothing (`GreatestNatural`, by the well-foundedness of the naturals).

`OldestIsNext` and `QueueOnlyShrinks` are the parts of `Delivered` that are safety.
Among the rows up to the oldest event that may go all others are left over, so they are
at most one more than the left-over events (`FewBefore`), and within that many rows no
walk stops (`ShortPrefixTaken`). And a write numbers its rows above `nextId`, so above
all rows there are (`Behind`), a relation every flush, failed flush and restart keeps,
and which composes: what is ahead of a row that stays only shrinks.

**Timers.** `EndsOnce` needs `Lives`: an id is started once, so while its start is
queued the timer neither exists nor has been reported, and a timer that exists
has not been reported. A second end finds no timer, and nothing can bring it back.

`DurationsCountForeground` foretells each timer along the queue. A *mark* behind each
queued block (`Mark`) holds the phase the timer will have there and bounds, from above
and below, on what it will have counted; the first mark describes the timer as it is
(`Linked`), each block leads from one mark to the next (`Leads`), and the last one
agrees with the calls of the app (`Final`), which is where `ran` is compared. A block
that reads the clock when it runs is foretold as if it ran at once, and a tick moves the
bounds behind it apart by one (`LeadsApart`); this is the same amount by which `late`
grows, and why `late` has to add up over the blocks. The upper bounds also show that a
stretch of 24 hours, which counts nothing, implies `ran + late >= Day`, where the
property claims nothing from below.

**Activation.** `Fetches` contains `FetchEnds` over the bag of
pending tasks. The cases that matter: a time-out that was tested while the status
was *Fetching* and acts when another fetch has begun; an answer that is dropped
because the status has changed, after which only a time-out can be left; a retry
after a failed upload, which queues an attempt but no time-out. `Events` has the
shape of every block (`Blocks`): a flag step comes only after the event, so
`NeverSkipped` survives the end of the process at any step. `MadeOnce` follows the
event through its tasks: without a toggle at most one of loading the clipboard,
reading it, the block it queues and waiting for the user agent is under way
(`Single`), each ends as it starts the next, and none is when the block that posts
the event runs. It can lead to the event only while there is `Room`: the events made
do not exceed the processes that ended without the flag in the file.

`FetchAdvances` weighs what the fetcher has left: an attempt that is queued 3, one that
runs 2, its result 1, a time-out that is armed 2, one that is due 1, and each retry 3.
A failed attempt pays for the next one with a retry, and cancelling takes what was
running. While the status is *Fetching*, `startFetchWithTimeOut:` and `retry` return
early, which is all that could add weight. Since `FetchEnds` keeps some task of weight
under way, the fetch ends once its tasks are run.

**Session.** Without a race all that touches the session after the start runs on
the GrowingThread, so its stack has few shapes: nothing, one block, the steps of a
login, of a renewal, or an event being written, perhaps below the VISIT that it
made due. `Ordered` says, for each shape, what the log owes: `sent` holds exactly if
the session's VISIT is in the log or is on its way (on top of the stack, or, during
the start, in the queue behind the block that creates the channels); ids in the log
do not exceed the current one, and a session that was just renewed has no event; the
user of a logged event of this session is the latest non-null user, or none; what
an event has read so far is still what the session holds, and the key is one of
the user's except between the two steps of `setLoginUserId:userKey:`. From this the
four properties follow at once. The hard cases are the start, in which main thread
and GrowingThread both have work, and "latest": the block compares with the latest
user after it has already changed the current one.

With races both threads have work, and little of `Ordered` is left. `RestIsVisited`
needs `RestInv`: the thread that writes a new id has `generateVisit` further down its
stack (`LaidInv`); from then on the VISIT is in the log, or owed by the main thread, by
GrowingThread, or by the queue (`Owing`). A VISIT without its channel would be dropped,
so `ChannelsFirst` says that until the channels exist GrowingThread runs nothing but
posts and generateVisit, and the block that creates them precedes every block that
does anything else. `ReengagesAfterReturn` rests on the blocks of the life cycle
running on an empty stack (`StackReengages`), so that the state cannot change below an
app_reengage post that waits, and on the one call that queues both the block that makes
the session active and the one that posts the builders (`QueueReengages`).

**A/B testing.** `FileFollowsMemory` is inductive. `OwnExperiment` and `ToldIsDurable`
need `SavesLast` (a fetch that saves or waits is the one on the main thread, and its
answer is the last one), `InTime` (no answer is later than now), `ToldHeld`
(an entry that was told, or a later one of its key, is in the file *and in every
snapshot still queued*) and `SavingHeld` (the same for an entry that is being saved,
from its own snapshot on): a write of the file then only moves along the queue. A
removal is harmless because it is of an outdated experiment, or makes the answers it
takes back `purged`: all that were saved, which are all but the one being saved
(`SettledIsSaved`, `SavingIsSettled`).

`ReportsChanges` adds two facts. `Holds` bounds what memory, file and snapshots may
hold of a key: the experiment of an answer or of a later one, or nothing, if that is
outdated or the answer was purged. And an answer this process has got is in memory unless
it is still being saved (`RunHeld`). An answer is compared while nothing is being
saved, so what it is compared with is the experiment of the last answer, and the last
answer that brought the cached experiment (`GreatestNatural`) is the one whose report,
or whose absence of a change, the property asks for.

Both properties except the answers in `purged`, since the code does take these back.
`AloneIsExact` says that nothing else does: when the only fetch is about to remove what
it found, nobody has saved anything since, and what was outdated stays so
(`RemovesOutdated`), so `purged` stays empty.

`EndsApproach` measures a fetch by its place and 8 for each retry left: an answer that
fails goes back to the beginning and pays with a retry. `MainWaitsForDisk` needs that
a fetch leaves the main thread when its request is sent, and that only one whose
answer has come enters it again.

**Deep links.** None of the invariants is inductive. `Forgets` rests on `Cleared`: a
link that `deeplinkUrl` still holds at rest has something that will clear it (`Leads`:
a thread in front of its clearing step, a block or a request), or collection is off.
`ForgetsNone` rests on `Due`: while collection is on, a link without event that is not
excused is on its way (`OnWay`); while it is off, it is kept or about to be
(`OffWay`). Between `KeepUrl` and `Track` it is both, which is why no switch in
between loses it. `TwiceAtMost` counts: `Chances` of a link are its events, what waits
or runs for it, and a chance for being kept or about to be; every step but `Open`
leaves the sum the same or lowers it. `AnswersOnce` is the same for links of the app,
which are never kept (`NeverKept`) and so have one chance.

### What is only model-checked

Liveness: `Delivered`, twice, and `FetchEnds` of A/B testing, since the prover has no
rules for ENABLED here. What is safety in them is proved: `OldestIsNext` and
`QueueOnlyShrinks` for the pipeline, `FetchAdvances` (with `FetchesEnd`) for the event
that is held back, `EndsApproach` and `MainWaitsForDisk` for the fetches. That the steps
they speak of are taken is left to the runs and their fairness.

`tlapm <module>` checks the proofs again.

## 5. Where the code and what is said of it differ

Shown by a run whose counterexample is the scenario:

1. `reengage`: the Hybrid bridge may renew the session between an app_reengage
   event's test for a VISIT and its reading of the session id; the event then
   comes before the VISIT of its session
   (`Modules/Hybrid/GrowingHybridBridgeProvider.m:122`, against the comment at
   `Modules/Advertising/GrowingAdvertising.m:115`).
2. `interrupted`: an interruption without background (a notification centre, a
   permission alert) restarts every running timer and drops the stretch before it
   (`GrowingTrackerCore/Timer/GrowingEventTimer.m:153`, against the test
   `Example/GrowingAnalyticsTests/A0GrowingAnalyticsTest.m:403`).
3. `attribution_sent`: the empty batch of the channel Autotrack-Protobuf, which also
   carries ACTIVATE, passes for a proof that ACTIVATE was sent; the interceptor is
   removed while the event waits
   (`Modules/Advertising/AppleSearchAds/GrowingAsaFetcher.m:96`, against its comments
   at lines 97 and 163).

Met while modelling, and described here only:

- `GrowingSession.m:140` says that all events are flushed before the process ends;
  the block is empty, so what a timing cache holds is lost (`WillTerminate` models
  what it does).
- On an *undetermined* link `GrowingEventManager.m:246` sends every policy, WiFi ones
  included.
- `userIdDidChangedFrom:to:` is called with equal ids when only the key changes
  (`GrowingSession.m:209`), while `GrowingSessionTest.m:112` asserts that they differ.
- A timer that is paused or ended in the background counts the time since the
  background began (`GrowingEventTimer.m:141`), against the same test, line 406; the
  properties exempt it (`behind`).
- "activate 在同一安装周期内仅需发送一次" (`GrowingAdvertising.m:310`): data collection
  switched off and on while the pasteboard or the user agent is read starts a second
  activation, and two ACTIVATE events are made. `ActivatedOnce` is stated without
  such calls.
- A 2xx answer whose body is no JSON object counts as a success, since the message
  `code` to nil gives 0: an experiment without an id replaces the cached one and is
  handed to the app with YES (`GrowingABTesting.m:178`); "不上报不缓存" says the comment
  at line 199 of an answer that cannot be parsed.
- The last line of the replay of a kept link clears `deeplinkUrl` against
  "避免多线程环境下有可能多发 AppReengage" (`GrowingAdvertising.m:101`). It cannot: when
  collection is turned on after the main thread has kept the link and before it tests
  `dataCollectionEnabled`, both threads handle it, and two app_reengage events are made.
  The same happens to a short link that waits for the user agent while collection goes
  off and on. `HandledTwiceAtMost` is what remains.
- While data collection is off `doDeeplinkByUrl:callback:` returns NO for a deep link of
  GrowingIO (`GrowingAdvertising.m:174`), where `GrowingAdvertising.h:54` says that it
  returns whether the url has that form.
- The app's block for a deep link is not called when data collection is off, when
  the user agent cannot be read (`GrowingAdvertising.m:193`), or when a parameter is
  missing. The properties excuse these links.
- "超过timeOut后，activate的发送不再等待" (`GrowingAsaFetcher.m:218`): a retry after a
  failed upload puts the status back to *Fetching*, and the event waits again.
- "不上报不缓存" aside, a request that ends with an error *and* a 2xx response is taken
  for a success (`GrowingABTesting.m:170`).
- `removeFromDisk` removes by layer and identity, so a fetch that found an outdated
  experiment deletes the fresh one that another fetch has saved in the meantime
  (`GrowingABTesting.m:109`, whose comment speaks of the expired one). The
  properties exempt the answers whose copy was so removed (`purged`): the app loses what
  it was told, and a later answer reports it once more.
- An answer to a request of yesterday evening is compared with yesterday's cached
  experiment: the user gets no hit of today for it. A hit is posted for whoever is
  logged in when the answer comes, and is dropped if data collection has gone off.
- An event that a module posts before `configManager`'s block has run is dropped
  without a log (`GrowingEventManager.m:391`). It may be app_defer, if the pasteboard is
  read while the other modules are still being initialised; its flags are set all the
  same (`GrowingAdvertising.m:427`), so the installation sends no ACTIVATE at all.
- Without a network service the block passed to `fetchExperiment:` is never called
  (`GrowingABTesting.m:157`), nor is that of a short link
  (`GrowingAdvertising.m:201`).
- A page or a click within 200 ms of a closing WebCircle connection leaves
  `onProcessing` set for good (`GrowingWebCircle.m:581`).

## 6. What is not modelled, and the plan

| Part | Why | Plan |
|---|---|---|
| Delegates of the application and its scenes, handler list | they pass a url on; `DeepLink` begins where the handler of Advertising is asked | none |
| Restart of a session, persisted login user | two writes, with an end of the process between them | 1. `Session` with its persistence provider, and restarts |
| Registries of modules and services | filled once, from sections of the binary, before anything is posted | none |
| WebCircle, MobileDebugger | debugging tools; most of what one would state of them fails: besides `onProcessing`, an event added while a screenshot is taken waits for the next one, a second scan closes the socket without opening another (`GrowingWebCircle.m:350`), and the cached events are touched by two threads | 2. `WebCircle`, its connection and its queue |
| ImpressionTrack, ViewImpression | sequential on the main thread | 3. the token queue and the visible set |
| Autotrack: pages, clicks | the order of UIKit callbacks, which no code here decides | page order, if a faithful environment can be stated |
| Filter, ignored fields, checks of arguments | pure functions | as operators, where a bounded reference definition exists |
| Encoding, compression, encryption, network service | pure functions and I/O without state | none |
| APM, Flutter, UniApp, V2 adapter, screenshots, menus, logging | glue and UI | none |
| FMDB, SocketRocket, LZ4, SwiftProtobuf, Reachability, Logger | vendored | none; the database is modelled from how it is used |

Compositions worth stating: `Session` over `EventDelivery` (a session's
VISIT reaches the server before its other events of the same channel, short of
failures), and `Activation` over `EventManager` in place of `Fetched`.

The system's hazards, with the properties that cover them, are listed in
`PROJECT.json`; those without a property name the reason there.
