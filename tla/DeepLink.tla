------------------------------- MODULE DeepLink -------------------------------
(***************************************************************************)
(* Deep links.  A link that is opened (growingHandleURL:), or given by the *)
(* app (doDeeplinkByUrl:callback:), is handled on the main thread.  A link *)
(* that was opened is kept in deeplinkUrl, and handled again by            *)
(* GrowingThread when data collection is turned on.  A short link waits    *)
(* for the user agent and asks the server for its parameters.  The outcome *)
(* is an app_reengage event and a call of the app's block.                 *)
(*                                                                         *)
(* Both threads run the same code; a step is one access to deeplinkUrl or  *)
(* to dataCollectionEnabled, the state they share.                         *)
(***************************************************************************)
EXTENDS Integers, FiniteSets

CONSTANTS
    Short,          \* links whose parameters the server has
    Complete,       \* links with all three parameters
    Partial,        \* links with an id, but not all three
    Other,          \* links of GrowingIO without an id
    Foreign,        \* links that are not of GrowingIO
    Manual,         \* those that the app passes to doDeeplinkByUrl:callback:
    NoLink,
    MaxLinks,       \* bound: links that are opened or given in a behaviour
    MaxToggles,     \* bound: calls of setDataCollectionEnabled: that change it
    MaxErrors       \* bound: user agents and requests that fail

Link == Short \cup Complete \cup Partial \cup Other \cup Foreign

ASSUME DeepLinkAssumption ==
    /\ Short \cap (Complete \cup Partial \cup Other \cup Foreign) = {}
    /\ Complete \cap (Partial \cup Other \cup Foreign) = {}
    /\ Partial \cap (Other \cup Foreign) = {}
    /\ Other \cap Foreign = {}
    /\ Manual \subseteq Link
    /\ NoLink \notin Link
    /\ MaxLinks \in Nat /\ MaxToggles \in Nat /\ MaxErrors \in Nat

Thread == {"main", "growing"}

(* What a link has waiting for it, off both threads. *)
Stage == {"short", "waiting", "agent", "noAgent", "sent", "reengage"}

(* The steps of a thread that handles a link, and others of GrowingThread. *)
Handling == {"url", "track", "clear", "report"}
Block    == {"short", "agent", "noAgent", "reengage"}
Replay   == {"read", "copy", "forget"}
Frame    == [step : Handling \cup Block, link : Link]
            \cup [step : Replay \cup {"idle"}, link : {NoLink}]

VARIABLES
    enabled,        \* trackConfiguration.dataCollectionEnabled
    deeplinkUrl,    \* the property
    userAgent,      \* whether the user agent is known
    service,        \* a module offers GrowingEventNetworkService, always or never
    at,             \* what each thread is about to do
    replaying,      \* GrowingThread handles a link that was kept
    work,           \* how many of each stage a link has waiting
    opened,         \* history: the links that were opened or given
    reports,        \* history: how many app_reengage events each link has
    told,           \* history: how often the app's block was called for it
    excused,        \* history: links whose event is not due, see Excuse
    refused,        \* history: links whose request failed
    toggles, errors \* history: what the bounds count

history == <<opened, reports, told, excused, refused, toggles, errors>>
vars == <<enabled, deeplinkUrl, userAgent, service, at, replaying, work, history>>

Idle == [step |-> "idle", link |-> NoLink]
Run(s) == [step |-> s, link |-> NoLink]
Do(s, l) == [step |-> s, link |-> l]
Zero == [l \in Link |-> 0]

Init ==
    /\ enabled \in BOOLEAN
    /\ deeplinkUrl = NoLink
    /\ userAgent \in BOOLEAN  \* the activation may have asked for it already
    /\ service \in BOOLEAN
    /\ at = [t \in Thread |-> Idle]
    /\ replaying = FALSE
    /\ work = [s \in Stage |-> Zero]
    /\ opened = {} /\ reports = Zero /\ told = Zero
    /\ excused = {} /\ refused = {}
    /\ toggles = 0 /\ errors = 0

-----------------------------------------------------------------------------
(* Threads and waiting work *)

At(t, s) == at[t].step = s
Goto(t, f) == at' = [at EXCEPT ![t] = f]

(* A link has been handled; GrowingThread still has to forget the kept one. *)
Finished(t) == IF t = "growing" /\ replaying THEN Run("forget") ELSE Idle
End(t) == Goto(t, Finished(t))

Put(s, l)  == work' = [work EXCEPT ![s][l] = @ + 1]
Take(s, l) == work[s][l] > 0 /\ work' = [work EXCEPT ![s][l] = @ - 1]
Move(s, u, l) == /\ work[s][l] > 0
                 /\ work' = [work EXCEPT ![s][l] = @ - 1, ![u][l] = @ + 1]

Count(h, l) == [h EXCEPT ![l] = @ + 1]

(* Something other than deeplinkUrl still leads to the event of the link. *)
Underway(l) ==
    \/ \E t \in Thread : at[t].link = l
    \/ \E s \in Stage : work[s][l] > 0

(* deeplinkUrl is replaced while it alone remembers a link, which is lost. *)
Excuse(l) ==
    IF deeplinkUrl \in Link \ {l} /\ ~Underway(deeplinkUrl) THEN {deeplinkUrl} ELSE {}

Fail == errors < MaxErrors /\ errors' = errors + 1

-----------------------------------------------------------------------------
(* growingHandleURL:isManual:callback: *)

(* Mutant of Begins: the link is kept only if it is not handled at once. *)
BeginsAtTrack(l) == Do("track", l)

Begins(l) == IF l \in Manual THEN Do("track", l) ELSE Do("url", l)

(* A link is opened, or the app asks for it, on the main thread. *)
Open(l) ==
    /\ at["main"] = Idle
    /\ l \notin opened /\ Cardinality(opened) < MaxLinks
    /\ opened' = opened \cup {l}
    /\ \/ /\ l \in Foreign
          /\ told' = IF l \in Manual THEN Count(told, l) ELSE told
          /\ UNCHANGED at
       \/ /\ l \notin Foreign
          /\ Goto("main", Begins(l))
          /\ UNCHANGED told
    /\ UNCHANGED <<enabled, deeplinkUrl, userAgent, service, replaying, work,
                   reports, excused, refused, toggles, errors>>

(* self.deeplinkUrl = url.copy *)
KeepUrl(t) ==
    /\ At(t, "url")
    /\ deeplinkUrl' = at[t].link
    /\ excused' = excused \cup Excuse(at[t].link)
    /\ Goto(t, Do("track", at[t].link))
    /\ UNCHANGED <<enabled, userAgent, service, replaying, work,
                   opened, reports, told, refused, toggles, errors>>

(* SDKDoNotTrack, and what kind of link it is; a replay goes on inline. *)
Track(t) ==
    LET l == at[t].link
    IN  /\ At(t, "track")
        /\ \/ /\ ~enabled
              /\ End(t)
              /\ excused' = IF l \in Manual THEN excused \cup {l} ELSE excused
              /\ UNCHANGED work
           \/ /\ enabled /\ l \in Other
              /\ End(t)
              /\ UNCHANGED <<work, excused>>
           \/ /\ enabled /\ l \in Short
              /\ \/ t = "main" /\ Put("short", l) /\ End(t)
                 \/ t = "growing" /\ Goto(t, Do("short", l)) /\ UNCHANGED work
              /\ UNCHANGED excused
           \/ /\ enabled /\ l \in Complete \cup Partial
              /\ Goto(t, Do("clear", l))
              /\ UNCHANGED <<work, excused>>
        /\ UNCHANGED <<enabled, deeplinkUrl, userAgent, service, replaying,
                       opened, reports, told, refused, toggles, errors>>

(* Mutant of ClearUrl: the link is still kept. *)
ClearUrlNot(t) ==
    /\ At(t, "clear")
    /\ Goto(t, Do("report", at[t].link))
    /\ UNCHANGED <<enabled, deeplinkUrl, userAgent, service, replaying, work, history>>

(* self.deeplinkUrl = nil, of a link with its parameters *)
ClearUrl(t) ==
    /\ At(t, "clear")
    /\ deeplinkUrl' = NoLink
    /\ excused' = excused \cup Excuse(at[t].link)
    /\ Goto(t, Do("report", at[t].link))
    /\ UNCHANGED <<enabled, userAgent, service, replaying, work,
                   opened, reports, told, refused, toggles, errors>>

(* getDeeplinkParams:, and its block: generateAppReengage: and the callback *)
Report(t) ==
    LET l == at[t].link
    IN  /\ At(t, "report")
        /\ End(t)
        /\ \/ /\ l \in Partial
              /\ UNCHANGED <<work, reports, told>>
           \/ /\ l \in Complete
              /\ told' = Count(told, l)
              /\ \/ t = "main" /\ Put("reengage", l) /\ UNCHANGED reports
                 \/ t = "growing" /\ reports' = Count(reports, l) /\ UNCHANGED work
        /\ UNCHANGED <<enabled, deeplinkUrl, userAgent, service, replaying,
                       opened, excused, refused, toggles, errors>>

-----------------------------------------------------------------------------
(* Blocks of GrowingThread *)

(* A block of a link begins. *)
Begin(s, l) ==
    /\ at["growing"] = Idle
    /\ Take(s, l)
    /\ Goto("growing", Do(s, l))
    /\ UNCHANGED <<enabled, deeplinkUrl, userAgent, service, replaying, history>>

(* The block of a short link, and accessUserAgent: *)
ShortLink ==
    LET l == at["growing"].link
    IN  /\ At("growing", "short")
        /\ \/ ~enabled /\ End("growing") /\ UNCHANGED work
           \/ enabled /\ userAgent /\ Goto("growing", Do("agent", l)) /\ UNCHANGED work
           \/ enabled /\ ~userAgent /\ Put("waiting", l) /\ End("growing")
        /\ UNCHANGED <<enabled, deeplinkUrl, userAgent, service, replaying, history>>

(* The web view answers, on the main thread, or fails to. *)
UserAgentArrives(l) ==
    /\ at["main"] = Idle
    /\ \/ Move("waiting", "agent", l) /\ UNCHANGED errors
       \/ Move("waiting", "noAgent", l) /\ Fail
    /\ UNCHANGED <<enabled, deeplinkUrl, userAgent, service, at, replaying,
                   opened, reports, told, excused, refused, toggles>>

(***************************************************************************)
(* The block for the user agent: the link is no longer kept, and is asked  *)
(* for.  Without a network service it is given up, and nobody is told.     *)
(***************************************************************************)
PreRequest ==
    LET l == at["growing"].link
    IN  /\ At("growing", "agent")
        /\ userAgent' = TRUE
        /\ End("growing")
        /\ \/ ~enabled /\ UNCHANGED <<deeplinkUrl, work, excused>>
           \/ /\ enabled
              /\ deeplinkUrl' = NoLink
              /\ \/ service /\ Put("sent", l) /\ excused' = excused \cup Excuse(l)
                 \/ ~service /\ UNCHANGED work /\ excused' = excused \cup Excuse(l) \cup {l}
        /\ UNCHANGED <<enabled, service, replaying, opened, reports, told, refused,
                       toggles, errors>>

(* Without user agent the link is given up. *)
NoUserAgent ==
    LET l == at["growing"].link
    IN  /\ At("growing", "noAgent")
        /\ End("growing")
        /\ \/ ~enabled /\ UNCHANGED <<deeplinkUrl, excused>>
           \/ /\ enabled
              /\ deeplinkUrl' = NoLink
              /\ excused' = excused \cup Excuse(l) \cup {l}
        /\ UNCHANGED <<enabled, userAgent, service, replaying, work, opened, reports, told,
                       refused, toggles, errors>>

(* A 2xx answer with the parameters; completions run on the main queue. *)
Answered(l) ==
    /\ at["main"] = Idle
    /\ Move("sent", "reengage", l)
    /\ told' = Count(told, l)
    /\ UNCHANGED <<enabled, deeplinkUrl, userAgent, service, at, replaying,
                   opened, reports, excused, refused, toggles, errors>>

(* A 2xx answer without them: nobody is told. *)
AnsweredInPart(l) ==
    /\ at["main"] = Idle
    /\ Take("sent", l)
    /\ Fail
    /\ excused' = excused \cup {l}
    /\ UNCHANGED <<enabled, deeplinkUrl, userAgent, service, at, replaying,
                   opened, reports, told, refused, toggles>>

(* Mutant of RequestFails: the app is not told. *)
RequestFailsSilently(l) ==
    /\ at["main"] = Idle
    /\ Take("sent", l)
    /\ Fail
    /\ refused' = refused \cup {l}
    /\ UNCHANGED <<enabled, deeplinkUrl, userAgent, service, at, replaying,
                   opened, reports, told, excused, toggles>>

(* Another answer, or none. *)
RequestFails(l) ==
    /\ at["main"] = Idle
    /\ Take("sent", l)
    /\ Fail
    /\ refused' = refused \cup {l}
    /\ told' = Count(told, l)
    /\ UNCHANGED <<enabled, deeplinkUrl, userAgent, service, at, replaying,
                   opened, reports, excused, toggles>>

(* The block of generateAppReengage: *)
GenerateAppReengage ==
    LET l == at["growing"].link
    IN  /\ At("growing", "reengage")
        /\ End("growing")
        /\ reports' = IF enabled THEN Count(reports, l) ELSE reports
        /\ UNCHANGED <<enabled, deeplinkUrl, userAgent, service, replaying, work,
                       opened, told, excused, refused, toggles, errors>>

-----------------------------------------------------------------------------
(* Data collection *)

(***************************************************************************)
(* The block of setDataCollectionEnabled:.  When it is turned off, links   *)
(* without event are no longer due; when it is turned on, the session and  *)
(* other modules come before the kept link.                                *)
(***************************************************************************)
SetDataCollectionEnabled ==
    /\ at["growing"] = Idle
    /\ toggles < MaxToggles
    /\ toggles' = toggles + 1
    /\ enabled' = ~enabled
    /\ \/ /\ enabled
          /\ excused' = excused \cup {l \in opened : reports[l] = 0}
          /\ UNCHANGED at
       \/ /\ ~enabled
          /\ Goto("growing", Run("read"))
          /\ UNCHANGED excused
    /\ UNCHANGED <<deeplinkUrl, userAgent, service, replaying, work,
                   opened, reports, told, refused, errors>>

(* if (self.deeplinkUrl) *)
ReadUrl ==
    /\ At("growing", "read")
    /\ Goto("growing", IF deeplinkUrl = NoLink THEN Idle ELSE Run("copy"))
    /\ UNCHANGED <<enabled, deeplinkUrl, userAgent, service, replaying, work, history>>

(* Mutant of CopyUrl: a url that is gone by now is handled all the same. *)
CopyUrlUnchecked ==
    /\ At("growing", "copy")
    /\ replaying' = TRUE
    /\ Goto("growing", Do("url", deeplinkUrl))
    /\ UNCHANGED <<enabled, deeplinkUrl, userAgent, service, work, history>>

(* The second read; isGrowingIOUrl: is false of nil. *)
CopyUrl ==
    /\ At("growing", "copy")
    /\ replaying' = TRUE
    /\ Goto("growing", IF deeplinkUrl = NoLink THEN Run("forget") ELSE Do("url", deeplinkUrl))
    /\ UNCHANGED <<enabled, deeplinkUrl, userAgent, service, work, history>>

(* Mutant of ForgetUrl: what was handled is kept for the next time. *)
ForgetUrlNot ==
    /\ At("growing", "forget")
    /\ replaying' = FALSE
    /\ Goto("growing", Idle)
    /\ UNCHANGED <<enabled, deeplinkUrl, userAgent, service, work, history>>

(* self.deeplinkUrl = nil, at the end of the replay *)
ForgetUrl ==
    /\ At("growing", "forget")
    /\ deeplinkUrl' = NoLink
    /\ excused' = excused \cup Excuse(NoLink)
    /\ replaying' = FALSE
    /\ Goto("growing", Idle)
    /\ UNCHANGED <<enabled, userAgent, service, work,
                   opened, reports, told, refused, toggles, errors>>

-----------------------------------------------------------------------------
Handle == \E t \in Thread : KeepUrl(t) \/ Track(t) \/ ClearUrl(t) \/ Report(t)

Work == \E l \in Link :
    \/ Open(l)
    \/ \E s \in Block : Begin(s, l)
    \/ UserAgentArrives(l) \/ Answered(l) \/ AnsweredInPart(l) \/ RequestFails(l)

Growing ==
    \/ ShortLink \/ PreRequest \/ NoUserAgent \/ GenerateAppReengage
    \/ SetDataCollectionEnabled \/ ReadUrl \/ CopyUrl \/ ForgetUrl

Next == Handle \/ Work \/ Growing

Spec == Init /\ [][Next]_vars

-----------------------------------------------------------------------------
(* Properties *)

(* The shapes of the state; a thread that handles a link has one. *)
TypeOK ==
    /\ enabled \in BOOLEAN /\ userAgent \in BOOLEAN /\ service \in BOOLEAN
    /\ replaying \in BOOLEAN
    /\ deeplinkUrl \in Link \cup {NoLink}
    /\ at \in [Thread -> Frame]
    /\ work \in [Stage -> [Link -> Nat]]
    /\ opened \subseteq Link /\ excused \subseteq Link /\ refused \subseteq Link
    /\ reports \in [Link -> Nat] /\ told \in [Link -> Nat]
    /\ toggles \in Nat /\ errors \in Nat

Quiet ==
    /\ \A t \in Thread : at[t] = Idle
    /\ \A l \in Link : ~Underway(l)

Promised == Short \cup Complete

(***************************************************************************)
(* A link that was opened, even while data collection was off, has its     *)
(* event once it is on and all is done: neither the test on the main       *)
(* thread nor the replay misses it.  Excepted are links whose request      *)
(* failed or that are excused: collection was turned off meanwhile, the    *)
(* user agent, a parameter or the network service is missing, another link *)
(* took deeplinkUrl.                                                       *)
(***************************************************************************)
NothingForgotten ==
    Quiet /\ enabled =>
        \A l \in (opened \cap Promised) \ (excused \cup refused) : reports[l] > 0

(***************************************************************************)
(* A link that was handled is not kept: no later call of                   *)
(* setDataCollectionEnabled: handles it again.                             *)
(***************************************************************************)
HandledIsForgotten ==
    Quiet /\ enabled => deeplinkUrl \notin Promised \cup Partial

(***************************************************************************)
(* A link is handled once when it is opened and once from deeplinkUrl,     *)
(* however often data collection is switched; one of the app never twice.  *)
(***************************************************************************)
HandledTwiceAtMost ==
    \A l \in Link : reports[l] <= (IF l \in Manual THEN 1 ELSE 2)

(***************************************************************************)
(* The app's block is called once for each call of doDeeplinkByUrl:, with  *)
(* parameters or an error, short of the same excuses.                      *)
(***************************************************************************)
AnsweredOnce ==
    \A l \in Manual :
        /\ told[l] <= 1
        /\ Quiet /\ l \in (opened \cap (Promised \cup Foreign)) \ excused => told[l] = 1
=============================================================================
