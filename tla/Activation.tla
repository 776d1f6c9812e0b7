----------------------------- MODULE Activation -----------------------------
(***************************************************************************)
(* The ACTIVATE event of an installation.  GrowingAdvertising makes it,    *)
(* as $app_defer if the pasteboard holds a deep link and as activate       *)
(* otherwise.  GrowingAsaFetcher and GrowingCAIDFetcher fetch data to send *)
(* with it, and as interceptors hold it back while they do.  GrowingAdUtils*)
(* keeps in a file what has been done.                                     *)
(*                                                                         *)
(* Blocks of GrowingThread are actions; a block that may be cut by the end *)
(* of the process goes through the steps of "todo".  What runs elsewhere   *)
(* is a task of "pending".                                                 *)
(***************************************************************************)
EXTENDS Integers, Sequences, FiniteSets

CONSTANTS
    ASAEnabled,     \* the option, with Apple's framework linked
    CAIDEnabled,    \* whether there is a CAIDFetchBlock
    ReadClipboard,  \* readClipboardEnabled
    Contents,       \* what the pasteboard may hold at first
    RetryCount,     \* _retryCount
    MaxToggles,     \* bound: calls of setDataCollectionEnabled:
    MaxLinks,       \* bound: deep links that are opened
    MaxErrors,      \* bound: sends that fail or find no network
    MaxLost,        \* bound: writes of the file that fail
    MaxCrashes      \* bound: ends of the process

ASSUME ActivationAssumption ==
    /\ ASAEnabled \in BOOLEAN /\ CAIDEnabled \in BOOLEAN /\ ReadClipboard \in BOOLEAN
    /\ Contents \subseteq {"gads", "broken", "other"}
    /\ RetryCount \in Nat
    /\ MaxToggles \in Nat /\ MaxLinks \in Nat /\ MaxErrors \in Nat
    /\ MaxLost \in Nat /\ MaxCrashes \in Nat

Status == {"none", "Denied", "Failure", "Fetching", "Success", "Completed"}
Name   == {"activate", "defer"}
Flags  == [wrote : BOOLEAN, defer : BOOLEAN, sent : BOOLEAN]

AsaState  == [status : Status, retriesLeft : Nat, listening : BOOLEAN]
CaidState == [status : Status, listening : BOOLEAN]

(* "gads" is a deep link for this app, "broken" one that lacks a parameter. *)
Content == {"gads", "broken", "other"}

(* The channels whose types include ACTIVATE, only one of which has events. *)
SendStep == {"json", "protobuf"}
Step     == Name \cup SendStep \cup {"wrote", "deferred"}

GrowingTask == {"load", "config", "activate", "defer", "agent", "remove"}
AsaTask     == {"queued", "running", "answered", "failed", "armed", "due"}
CaidTask    == {"block", "timer"}
Ending      == {"queued", "running", "answered", "failed", "due"}
Task        == GrowingTask \cup {"read", "clear"} \cup AsaTask \cup CaidTask

VARIABLES
    flags,      \* GrowingAdUtils.storeDic: activate is made, as app_defer, sent
    file,       \* the copy that survives the process
    enabled,    \* trackConfiguration.dataCollectionEnabled
    agent,      \* whether the user agent is known
    clipboard,  \* what the pasteboard holds
    todo,       \* the steps left of the running block of GrowingThread
    pending,    \* how many of each task are under way
    asa,        \* GrowingAsaFetcher: status, retriesLeft, and whether it intercepts
    caid,       \* GrowingCAIDFetcher: status, and whether it intercepts
    made,       \* history: the names of the ACTIVATE events, in order
    stored,     \* the events in the table, by their place in made
    upload,     \* the events of the request under way
    received,   \* the events the server has
    toggles, links, errors, lost, crashes, \* history: what the bounds count
    redone      \* history: ends of the process between an event and its flag

disk    == <<flags, file, lost>>
events  == <<made, stored, upload, received>>
fetcher == <<asa, caid>>
counts  == <<toggles, links, errors, crashes, redone>>
vars    == <<disk, enabled, agent, clipboard, todo, pending, fetcher, events, counts>>

NoFlags == [wrote |-> FALSE, defer |-> FALSE, sent |-> FALSE]
Launched == [t \in Task |-> IF t \in {"load", "config"} THEN 1 ELSE 0]
IdleAsa  == [status |-> "none", retriesLeft |-> 0, listening |-> FALSE]
IdleCaid == [status |-> "none", listening |-> FALSE]

(***************************************************************************)
(* A fresh installation.  growingModInit: has queued its loadClipboard;    *)
(* the main thread goes on to queue the block of configManager.            *)
(***************************************************************************)
Init ==
    /\ flags = NoFlags /\ file = NoFlags /\ lost = 0
    /\ enabled \in BOOLEAN
    /\ agent = FALSE
    /\ clipboard \in Contents
    /\ todo = <<>>
    /\ pending = Launched
    /\ asa = IdleAsa /\ caid = IdleCaid
    /\ made = <<>> /\ stored = {} /\ upload = {} /\ received = {}
    /\ toggles = 0 /\ links = 0 /\ errors = 0 /\ crashes = 0 /\ redone = 0

-----------------------------------------------------------------------------
(* Tasks and flags *)

Idle == todo = <<>>

(* One removal stands for several: nothing adds the interceptor again. *)
Plus(p, T) ==
    [t \in Task |-> IF t \in T /\ (t = "remove" => p[t] = 0) THEN p[t] + 1 ELSE p[t]]

Minus(p, t) == [p EXCEPT ![t] = @ - 1]

Underway(t) == pending[t] > 0

(* currentEventChannelMap is there; until then the main thread starts the SDK. *)
Configured == ~Underway("config")

(* The dictionary is changed, then written to the file as a whole. *)
SetFlags(f) ==
    /\ flags' = f
    /\ \/ file' = f /\ UNCHANGED lost
       \/ lost < MaxLost /\ lost' = lost + 1 /\ UNCHANGED file

-----------------------------------------------------------------------------
(* The start of the fetches *)

StartsAsa(on) ==
    /\ ASAEnabled /\ on
    /\ asa.status \in {"none", "Denied", "Failure"}
    /\ ~flags.sent

(* startFetchWithTimeOut: *)
AsaStarted(on) ==
    IF StartsAsa(on)
    THEN [status |-> "Fetching", retriesLeft |-> RetryCount, listening |-> TRUE]
    ELSE IF ~ASAEnabled \/ asa.status \notin {"none", "Denied", "Failure"} THEN asa
    ELSE [asa EXCEPT !.status = IF flags.sent THEN "Completed" ELSE "Denied"]

AsaTasks(on) == IF StartsAsa(on) THEN {"queued", "armed"} ELSE {}

(* startFetch of GrowingCAIDFetcher, data collection being on *)
CaidStarted ==
    IF caid.status = "Fetching" THEN caid
    ELSE IF CAIDEnabled THEN [status |-> "Fetching", listening |-> TRUE]
    ELSE [caid EXCEPT !.status = "Denied"]

CaidTasks == IF caid.status # "Fetching" /\ CAIDEnabled THEN CaidTask ELSE {}

-----------------------------------------------------------------------------
(* GrowingAdvertising *)

(* generateAppActivation, while the tasks p are under way *)
GenerateAppActivation(on, p) ==
    LET q == Plus(p, AsaTasks(on))
    IN  /\ asa' = AsaStarted(on)
        /\ IF agent
           THEN pending' = q /\ todo' = IF on THEN <<"activate", "json", "wrote">> ELSE <<>>
           ELSE pending' = Plus(q, {"agent"}) /\ UNCHANGED todo

(* Mutant of LoadClipboard: it does not ask whether the event was made. *)
LoadClipboardAlways(on, p) ==
    IF ~on
    THEN pending' = p /\ UNCHANGED <<todo, fetcher>>
    ELSE /\ caid' = CaidStarted
         /\ \/ ReadClipboard /\ pending' = Plus(p, CaidTasks \cup {"read"}) /\ UNCHANGED <<todo, asa>>
            \/ ~ReadClipboard /\ GenerateAppActivation(on, Plus(p, CaidTasks))

(* The block of loadClipboard, with data collection on or off. *)
LoadClipboard(on, p) ==
    IF ~on
    THEN pending' = p /\ UNCHANGED <<todo, fetcher>>
    ELSE LET q == Plus(p, CaidTasks)
         IN  /\ caid' = CaidStarted
             /\ \/ /\ flags.wrote /\ flags.defer
                   /\ pending' = q
                   /\ UNCHANGED <<todo, asa>>
                \/ /\ flags.wrote /\ ~flags.defer
                   /\ asa' = AsaStarted(on) /\ pending' = Plus(q, AsaTasks(on))
                   /\ UNCHANGED todo
                \/ /\ ~flags.wrote /\ ReadClipboard
                   /\ pending' = Plus(q, {"read"})
                   /\ UNCHANGED <<todo, asa>>
                \/ /\ ~flags.wrote /\ ~ReadClipboard
                   /\ GenerateAppActivation(on, q)

RunLoadClipboard ==
    /\ Idle /\ Underway("load")
    /\ LoadClipboard(enabled, Minus(pending, "load"))
    /\ UNCHANGED <<disk, enabled, agent, clipboard, events, counts>>

(* The block of configManager comes after that of loadClipboard. *)
ConfigManager ==
    /\ Idle /\ Underway("config") /\ ~Underway("load")
    /\ pending' = Minus(pending, "config")
    /\ UNCHANGED <<disk, enabled, agent, clipboard, todo, fetcher, events, counts>>

(* setDataCollectionEnabled:, and loadClipboard inline when it is turned on *)
SetDataCollectionEnabled ==
    /\ Idle /\ Configured
    /\ toggles < MaxToggles
    /\ toggles' = toggles + 1
    /\ enabled' = ~enabled
    /\ LoadClipboard(enabled', pending)
    /\ UNCHANGED <<disk, agent, clipboard, events, links, errors, crashes, redone>>

(* The global queue reads the pasteboard, queues a block and clears it. *)
ReadPasteboard ==
    /\ Underway("read")
    /\ pending' = Plus(Minus(pending, "read"),
                       CASE clipboard = "gads"   -> {"defer", "clear"}
                         [] clipboard = "broken" -> {"clear"}
                         [] clipboard = "other"  -> {"activate"})
    /\ UNCHANGED <<disk, enabled, agent, clipboard, todo, fetcher, events, counts>>

ClearPasteboard ==
    /\ Underway("clear")
    /\ pending' = Minus(pending, "clear")
    /\ clipboard' = "other"
    /\ UNCHANGED <<disk, enabled, agent, todo, fetcher, events, counts>>

PasteboardIsOther ==
    /\ Idle /\ Underway("activate")
    /\ GenerateAppActivation(enabled, Minus(pending, "activate"))
    /\ UNCHANGED <<disk, enabled, agent, clipboard, caid, events, counts>>

(* generateAppDefer: *)
PasteboardIsDeepLink ==
    /\ Idle /\ Underway("defer")
    /\ pending' = Minus(pending, "defer")
    /\ todo' = IF enabled THEN <<"defer", "json", "wrote", "deferred">> ELSE <<>>
    /\ UNCHANGED <<disk, enabled, agent, clipboard, fetcher, events, counts>>

(* Mutant of UserAgentArrives: the flag is set before the event is made. *)
UserAgentArrivesFlagFirst ==
    /\ Idle /\ Configured /\ Underway("agent")
    /\ pending' = Minus(pending, "agent")
    /\ agent' = TRUE
    /\ todo' = IF enabled THEN <<"wrote", "activate", "json">> ELSE <<>>
    /\ UNCHANGED <<disk, enabled, clipboard, fetcher, events, counts>>

(***************************************************************************)
(* The web view has answered, or failed to: the event is made all the      *)
(* same.  The main queue ran the web view after it had started the SDK.    *)
(***************************************************************************)
UserAgentArrives ==
    /\ Idle /\ Configured /\ Underway("agent")
    /\ pending' = Minus(pending, "agent")
    /\ \/ agent' = TRUE
       \/ UNCHANGED agent
    /\ todo' = IF enabled THEN <<"activate", "json", "wrote">> ELSE <<>>
    /\ UNCHANGED <<disk, enabled, clipboard, fetcher, events, counts>>

(* growingHandleURL: of a deep link, which begins with a CAID fetch *)
HandleURL ==
    /\ enabled
    /\ links < MaxLinks
    /\ links' = links + 1
    /\ caid' = CaidStarted
    /\ pending' = Plus(pending, CaidTasks)
    /\ UNCHANGED <<disk, enabled, agent, clipboard, todo, asa, events,
                   toggles, errors, crashes, redone>>

-----------------------------------------------------------------------------
(* The steps of a block *)

Pop(s) == todo # <<>> /\ Head(todo) = s /\ todo' = Tail(todo)

(***************************************************************************)
(* postEventBuilder: and writeToDatabaseWithEvent:.  An event that comes   *)
(* before the channels is built and dropped.                               *)
(***************************************************************************)
PostEvent(n) ==
    /\ Pop(n)
    /\ made' = Append(made, n)
    /\ stored' = IF Configured THEN stored \cup {Len(made) + 1} ELSE stored
    /\ UNCHANGED <<disk, enabled, agent, clipboard, pending, fetcher, upload, received, counts>>

SetActivateWrote ==
    /\ Pop("wrote")
    /\ SetFlags([flags EXCEPT !.wrote = TRUE])
    /\ UNCHANGED <<enabled, agent, clipboard, pending, fetcher, events, counts>>

SetActivateDefer ==
    /\ Pop("deferred")
    /\ SetFlags([flags EXCEPT !.defer = TRUE])
    /\ UNCHANGED <<enabled, agent, clipboard, pending, fetcher, events, counts>>

CaidWillSend(B) == IF caid.listening /\ caid.status = "Fetching" THEN {} ELSE B

First(S) == CHOOSE i \in S : \A j \in S : i <= j

(* Mutant of AsaWillSend: the event waits for the fetch to succeed. *)
AsaWillSendAtSuccess(B) ==
    LET N == {i \in B : made[i] = "activate"}
    IN  [out   |-> IF asa.status = "Success" THEN B ELSE B \ N,
         asa   |-> asa,
         sent  |-> flags.sent,
         tasks |-> {}]

(* Mutant of AsaWillSend: a retry waits for a fetch that nobody starts. *)
AsaWillSendIdleRetry(B) ==
    LET N == {i \in B : made[i] = "activate"}
        retry == asa.listening /\ N # {} /\ asa.status = "Failure"
    IN  [out   |-> B,
         asa   |-> IF retry THEN [asa EXCEPT !.status = "Fetching"] ELSE asa,
         sent  |-> flags.sent,
         tasks |-> {}]

(***************************************************************************)
(* growingEventManagerEventsWillSend:channel: of GrowingAsaFetcher, and    *)
(* retry.  Without an activate in B, one that was made has been sent.      *)
(***************************************************************************)
AsaWillSend(B) ==
    LET N      == {i \in B : made[i] = "activate"}
        absent == asa.listening /\ N = {} /\ flags.wrote
        waits  == asa.listening /\ N # {} /\ asa.status = "Fetching"
        retry  == asa.listening /\ N # {} /\ asa.status = "Failure"
    IN  [out   |-> IF waits THEN B \ {First(N)} ELSE B,
         asa   |-> IF absent THEN [asa EXCEPT !.status = "Completed"]
                   ELSE IF retry THEN [asa EXCEPT !.status = "Fetching", !.retriesLeft = 1]
                   ELSE asa,
         sent  |-> flags.sent \/ absent,
         tasks |-> IF absent THEN {"remove"} ELSE IF retry THEN {"queued"} ELSE {}]

(* sendEventsOfChannel_unsafe:, the interceptors being asked in any order. *)
SendEventsOfChannel(c) ==
    /\ Pop(c) /\ Configured
    /\ c = "json" => upload = {}
    /\ \E caidFirst \in BOOLEAN :
          LET B == IF c = "json" THEN stored ELSE {}
              r == AsaWillSend(IF caidFirst THEN CaidWillSend(B) ELSE B)
          IN  /\ upload' = upload \cup (IF caidFirst THEN r.out ELSE CaidWillSend(r.out))
              /\ asa' = r.asa
              /\ pending' = Plus(pending, r.tasks)
              /\ IF "remove" \in r.tasks
                 THEN SetFlags([flags EXCEPT !.sent = TRUE])
                 ELSE UNCHANGED disk
    /\ UNCHANGED <<enabled, agent, clipboard, caid, made, stored, received, counts>>

(* An upload of the channel is under way, or there is no channel yet. *)
ReturnFromSend ==
    /\ Pop("json")
    /\ upload # {} \/ ~Configured
    /\ UNCHANGED <<disk, enabled, agent, clipboard, pending, fetcher, events, counts>>

(* There is no network. *)
NotReachable ==
    /\ \E c \in SendStep : Pop(c)
    /\ errors < MaxErrors
    /\ errors' = errors + 1
    /\ UNCHANGED <<disk, enabled, agent, clipboard, pending, fetcher, events,
                   toggles, links, crashes, redone>>

-----------------------------------------------------------------------------
(* Uploads *)

(* sendAllChannelEvents, of the timer *)
SendAllChannelEvents ==
    /\ Idle /\ Configured
    /\ todo' = <<"json", "protobuf">>
    /\ UNCHANGED <<disk, enabled, agent, clipboard, pending, fetcher, events, counts>>

(* Another instant event of the channel: VISIT. *)
SendInstant ==
    /\ Idle
    /\ todo' = <<"json">>
    /\ UNCHANGED <<disk, enabled, agent, clipboard, pending, fetcher, events, counts>>

(* The server has answered: growingEventManagerEventsDidSend:request:channel:, *)
(* and the events are deleted.                                                 *)
DidSend ==
    /\ Idle
    /\ upload # {}
    /\ received' = received \cup upload
    /\ stored' = stored \ upload
    /\ upload' = {}
    /\ IF asa.listening
       THEN /\ asa' = [asa EXCEPT !.status = "Completed"]
            /\ SetFlags([flags EXCEPT !.sent = TRUE])
            /\ pending' = Plus(pending, {"remove"})
       ELSE UNCHANGED <<disk, asa, pending>>
    /\ UNCHANGED <<enabled, agent, clipboard, todo, caid, made, counts>>

UploadFails ==
    /\ Idle
    /\ upload # {}
    /\ errors < MaxErrors
    /\ errors' = errors + 1
    /\ upload' = {}
    /\ UNCHANGED <<disk, enabled, agent, clipboard, todo, pending, fetcher,
                   made, stored, received, toggles, links, crashes, redone>>

(* The main queue has called removeInterceptor:. *)
RemoveInterceptor ==
    /\ Idle /\ Underway("remove")
    /\ pending' = Minus(pending, "remove")
    /\ asa' = [asa EXCEPT !.listening = FALSE]
    /\ UNCHANGED <<disk, enabled, agent, clipboard, todo, caid, events, counts>>

-----------------------------------------------------------------------------
(* GrowingAsaFetcher, on the threads of the global queue *)

AsaStep(p, a) ==
    /\ pending' = p
    /\ asa' = a
    /\ UNCHANGED <<disk, enabled, agent, clipboard, todo, caid, events, counts>>

FetchAttribution ==
    Underway("queued") /\ AsaStep(Plus(Minus(pending, "queued"), {"running"}), asa)

(* saveAttributionDetails:isIAd:error: tests the status and then acts. *)
AttributionArrives ==
    /\ Underway("running")
    /\ \E t \in {"answered", "failed"} :
          AsaStep(Plus(Minus(pending, "running"), IF asa.status = "Fetching" THEN {t} ELSE {}), asa)

(* Errors after which no fetch is tried any more. *)
AttributionDenied ==
    /\ Underway("running")
    /\ AsaStep(Minus(pending, "running"), [asa EXCEPT !.status = "Denied"])

SaveAttribution ==
    /\ Underway("answered")
    /\ AsaStep(Minus(pending, "answered"), [asa EXCEPT !.status = "Success"])

(* Mutant of RetryOrFail: the retries are not counted. *)
RetryAlways ==
    /\ Underway("failed")
    /\ AsaStep(Plus(Minus(pending, "failed"), {"queued"}), [asa EXCEPT !.retriesLeft = @ - 1])

RetryOrFail ==
    /\ Underway("failed")
    /\ IF asa.retriesLeft > 0
       THEN AsaStep(Plus(Minus(pending, "failed"), {"queued"}), [asa EXCEPT !.retriesLeft = @ - 1])
       ELSE AsaStep(Minus(pending, "failed"), [asa EXCEPT !.status = "Failure"])

(* The total time is out: the block tests the status and then acts. *)
TimeOut ==
    /\ Underway("armed")
    /\ AsaStep(Plus(Minus(pending, "armed"), IF asa.status = "Fetching" THEN {"due"} ELSE {}), asa)

(* The running request is cancelled, where there is one and it is running. *)
EndFetch ==
    /\ Underway("due")
    /\ \E p \in {Minus(pending, "due")} \cup
                (IF Underway("running") THEN {Minus(Minus(pending, "due"), "running")} ELSE {}) :
          AsaStep(p, [asa EXCEPT !.status = "Failure", !.retriesLeft = 0])

-----------------------------------------------------------------------------
(* GrowingCAIDFetcher *)

CaidStep(t, s) ==
    /\ Underway(t)
    /\ pending' = Minus(pending, t)
    /\ caid' = [caid EXCEPT !.status = s]
    /\ UNCHANGED <<disk, enabled, agent, clipboard, todo, asa, events, counts>>

(* The CAIDFetchBlock calls back, in time or late. *)
CaidArrives == \E s \in {"Success", "Failure"} : CaidStep("block", s)

CaidTimeOut == CaidStep("timer", IF caid.status = "Fetching" THEN "Failure" ELSE caid.status)

-----------------------------------------------------------------------------
(* The process ends at any point, and another one starts. *)
Crash ==
    /\ crashes < MaxCrashes
    /\ crashes' = crashes + 1
    /\ redone' = IF made # <<>> /\ ~file.wrote THEN redone + 1 ELSE redone
    /\ flags' = file
    /\ enabled' \in BOOLEAN
    /\ agent' = FALSE
    /\ todo' = <<>>
    /\ pending' = Launched
    /\ asa' = IdleAsa /\ caid' = IdleCaid
    /\ upload' = {}
    /\ UNCHANGED <<file, lost, clipboard, made, stored, received, toggles, links, errors>>

-----------------------------------------------------------------------------

Block ==
    \/ RunLoadClipboard \/ ConfigManager \/ PasteboardIsOther \/ PasteboardIsDeepLink
    \/ UserAgentArrives \/ RemoveInterceptor

BlockStep ==
    \/ \E n \in Name : PostEvent(n)
    \/ SetActivateWrote \/ SetActivateDefer
    \/ \E c \in SendStep : SendEventsOfChannel(c)
    \/ ReturnFromSend
    \/ NotReachable

Asa ==
    \/ FetchAttribution \/ AttributionArrives \/ AttributionDenied
    \/ SaveAttribution \/ RetryOrFail \/ TimeOut \/ EndFetch

Next ==
    \/ Block \/ BlockStep \/ Asa
    \/ ReadPasteboard \/ ClearPasteboard
    \/ SetDataCollectionEnabled
    \/ HandleURL
    \/ SendAllChannelEvents \/ SendInstant
    \/ DidSend \/ UploadFails
    \/ CaidArrives \/ CaidTimeOut
    \/ Crash

Spec == Init /\ [][Next]_vars

(***************************************************************************)
(* Tasks are run, requests and web views answer; the timer sends again and *)
(* again.  GrowingThread serves its queue in order, so a block that waits  *)
(* is not overtaken for ever (strong fairness).  The CAIDFetchBlock, which *)
(* is the app's, need not call back.                                       *)
(***************************************************************************)
Fairness ==
    /\ WF_vars(BlockStep)
    /\ SF_vars(Block)
    /\ SF_vars(SendAllChannelEvents)
    /\ SF_vars(DidSend)
    /\ WF_vars(ReadPasteboard)
    /\ WF_vars(Asa)
    /\ WF_vars(CaidTimeOut)

FairSpec == Spec /\ Fairness

-----------------------------------------------------------------------------
(* Correctness *)

TypeOK ==
    /\ flags \in Flags /\ file \in Flags
    /\ enabled \in BOOLEAN /\ agent \in BOOLEAN
    /\ clipboard \in Content
    /\ todo \in Seq(Step)
    /\ pending \in [Task -> Nat]
    /\ asa \in AsaState
    /\ caid \in CaidState
    /\ made \in Seq(Name)
    /\ stored \subseteq DOMAIN made
    /\ upload \subseteq DOMAIN made
    /\ received \subseteq DOMAIN made
    /\ toggles \in Nat /\ links \in Nat /\ errors \in Nat
    /\ lost \in Nat /\ crashes \in Nat /\ redone \in Nat

(***************************************************************************)
(* While GrowingAsaFetcher holds the event back an attempt or a time-out   *)
(* is under way that ends it: retries, the time-outs of earlier fetches    *)
(* and late answers never leave Fetching with nobody to end it.            *)
(***************************************************************************)
AsaFetchEnds ==
    asa.status = "Fetching" => \E t \in Ending : Underway(t)

(***************************************************************************)
(* The same for GrowingCAIDFetcher, whose CAIDFetchBlock may never call    *)
(* back: the time-out of the fetch, or of an earlier one, is under way.    *)
(***************************************************************************)
CaidFetchEnds == caid.status = "Fetching" => Underway("timer")

(* So the ACTIVATE event is never held back by a fetch that nobody ends. *)
FetchEnds == AsaFetchEnds /\ CaidFetchEnds

(***************************************************************************)
(* The flag that stops an installation from making the event is in the     *)
(* file only when the event was made, wherever the process ends.  An event *)
(* that is dropped because its channel does not exist yet was made.        *)
(***************************************************************************)
NeverSkipped == file.wrote => made # <<>>

(***************************************************************************)
(* Without calls of setDataCollectionEnabled:, an installation makes the   *)
(* event once, and once more for each process that ends before the flag is *)
(* in the file.                                                            *)
(***************************************************************************)
ActivatedOnce == toggles = 0 => Len(made) <= 1 + redone

(***************************************************************************)
(* Every event that is made reaches the server, whatever the fetches do.   *)
(***************************************************************************)
Delivered == (stored # {}) ~> (stored = {})

(***************************************************************************)
(* startFetchWithTimeOut:, "isActivateSent is used to make sure that the   *)
(* activate event has been sent".                                          *)
(***************************************************************************)
SentMeansReceived == flags.sent => received # {}

=============================================================================
