------------------------------- MODULE Session -------------------------------
(***************************************************************************)
(* GrowingSession and the parts of the tracker that move it: the session   *)
(* id, the login user, the VISIT that opens each session, and the events   *)
(* that carry both.                                                        *)
(*                                                                         *)
(* Two threads run SDK code.  GrowingThread takes the blocks other threads *)
(* queue (dispatchInGrowingThread) and runs a block it dispatches itself   *)
(* at once.  The main thread queues blocks; besides, it opens the first    *)
(* session itself and, when a web page calls the Hybrid bridge, changes    *)
(* the login user itself.  A thread's stack holds what it has left to do,  *)
(* one frame per access to the state the two threads share.                *)
(***************************************************************************)
EXTENDS Naturals, Sequences, FiniteSets

CONSTANTS
    User, None, Blank,  \* login ids; no id; an id of white space
    KeysOf,             \* KeysOf[u]: the userKeys the app uses with u
    MaxCalls,           \* bound on the calls; one that races with the main thread counts twice
    MaxQueue,           \* bound on the blocks that wait for GrowingThread
    MaxRaces            \* bound on the calls that race with the main thread

UserId  == User \cup {None, Blank}
UserKey == {None} \cup UNION {KeysOf[u] : u \in User}

ASSUME SessionAssumption ==
    /\ None # Blank /\ None \notin User /\ Blank \notin User
    /\ KeysOf \in [User -> SUBSET UserKey]
    /\ MaxCalls \in Nat /\ MaxQueue \in Nat /\ MaxRaces \in Nat

Thread == {"growing", "main"}
Type   == {"VISIT", "CUSTOM", "APP_CLOSED", "REENGAGE"}
State  == {"active", "inactive", "background"}

Op == {"post", "readUser", "readId", "readKey", "visit", "dispatchVisit", "refresh",
       "unsent", "login", "setUser", "setKey", "userChanged", "latest", "become",
       "resign", "background", "reengage", "postBuilders", "enable", "disable",
       "config", "create"}

(* The n-th session id is n; "away" says that the app was put aside before. *)
Ses == [id : Nat, sent : BOOLEAN, user : UserId, key : UserKey, latest : UserId,
        away : BOOLEAN, state : State]

(* One frame or block; the fields its op does not use keep a default value. *)
Frame == [op : Op, type : Type, user : UserId, key : UserKey, old : UserId, id : Nat]
Event == [type : Type, user : UserId, key : UserKey, id : Nat]

VARIABLES
    enabled,    \* trackConfiguration.dataCollectionEnabled
    channels,   \* configManager has created the channels
    ses,        \* the current GrowingSession
    builders,   \* how many app_reengage builders wait for the next activation
    queue,      \* the blocks queued for GrowingThread
    stack,      \* what each thread has left to do
    log,        \* the events written, in order
    app,        \* what the system last told the app it is
    calls,      \* how much of MaxCalls is used
    races       \* how often another thread worked beside the main thread's own SDK code

env  == <<app, calls, races>>
keep == <<enabled, channels, builders, queue, log, env>>
vars == <<ses, stack, keep>>

Do(op)      == [op |-> op, type |-> "VISIT", user |-> None, key |-> None, old |-> None, id |-> 0]
Post(t)     == [Do("post") EXCEPT !.type = t]
Login(u, k) == [Do("login") EXCEPT !.user = u, !.key = k]

(* Mutant of StartUp: the first VISIT does not wait for the channels. *)
StartUpVisitFirst == <<Do("visit"), Do("config")>>

(* What the main thread does to start the tracker, once the session is open. *)
StartUp == <<Do("config"), Do("visit")>>

(* startSession has run; modules are being initialised on the main thread. *)
Init ==
    /\ enabled \in BOOLEAN
    /\ channels = FALSE
    /\ \E u \in {None} \cup User, k \in UserKey :
          /\ k = None \/ (u # None /\ k \in KeysOf[u])
          /\ ses = [id |-> 1, sent |-> FALSE, user |-> u, key |-> k, latest |-> u,
                    away |-> FALSE, state |-> "active"]
    /\ builders = 0
    /\ queue = <<>>
    /\ stack = [t \in Thread |-> IF t = "main" THEN StartUp ELSE <<>>]
    /\ log = <<>>
    /\ app = "inactive" /\ calls = 0 /\ races = 0

-----------------------------------------------------------------------------
(* Threads *)

Top(t)    == Head(stack[t])
At(t, op) == stack[t] # <<>> /\ Top(t).op = op

(* The top frame is done and leaves the frames fs to do. *)
Then(t, fs) == stack' = [stack EXCEPT ![t] = fs \o Tail(@)]

Set(s) == ses' = s

(* dispatchInGrowingThread: from another thread, as GrowingThread runs it. *)
TakeBlock ==
    /\ stack["growing"] = <<>> /\ queue # <<>>
    /\ stack' = [stack EXCEPT !["growing"] = <<Head(queue)>>]
    /\ queue' = Tail(queue)
    /\ UNCHANGED <<ses, enabled, channels, builders, log, env>>

(* configManager leaves the creation of the channels to a block. *)
ConfigManager ==
    /\ \/ /\ At("main", "config")
          /\ Then("main", <<>>) /\ queue' = Append(queue, Do("create"))
          /\ UNCHANGED channels
       \/ /\ At("growing", "create")
          /\ Then("growing", <<>>) /\ channels' = TRUE
          /\ UNCHANGED queue
    /\ UNCHANGED <<ses, enabled, builders, log, env>>

-----------------------------------------------------------------------------
(* Sessions *)

(* refreshSessionId, the id before the flag, and generateVisit. *)
NewSession == <<Do("refresh"), Do("unsent"), Do("visit")>>

RefreshSessionId(t) ==
    \/ At(t, "refresh") /\ Set([ses EXCEPT !.id = @ + 1]) /\ Then(t, <<>>) /\ UNCHANGED keep
    \/ At(t, "unsent") /\ Set([ses EXCEPT !.sent = FALSE]) /\ Then(t, <<>>) /\ UNCHANGED keep

GenerateVisit(t) ==
    /\ At(t, "visit")
    /\ IF enabled
       THEN Set([ses EXCEPT !.sent = TRUE]) /\ Then(t, <<Do("dispatchVisit")>>)
       ELSE UNCHANGED ses /\ Then(t, <<>>)
    /\ UNCHANGED keep

(* Mutant of GenerateVisitEvent: the VISIT always waits for its turn. *)
GenerateVisitEventQueued(t) ==
    /\ At(t, "dispatchVisit")
    /\ Then(t, <<>>) /\ queue' = Append(queue, Post("VISIT"))
    /\ UNCHANGED <<ses, enabled, channels, builders, log, env>>

GenerateVisitEvent(t) ==
    /\ At(t, "dispatchVisit")
    /\ IF t = "growing"
       THEN Then(t, <<Post("VISIT")>>) /\ UNCHANGED queue
       ELSE Then(t, <<>>) /\ queue' = Append(queue, Post("VISIT"))
    /\ UNCHANGED <<ses, enabled, channels, builders, log, env>>

-----------------------------------------------------------------------------
(* Events *)

PostEventBuilder ==
    /\ At("growing", "post")
    /\ Then("growing",
            IF ~enabled THEN <<>>
            ELSE (IF ses.sent THEN <<>> ELSE <<Do("visit")>>)
                    \o <<[Top("growing") EXCEPT !.op = "readUser"]>>)
    /\ UNCHANGED <<ses, keep>>

(* readPropertyInTrackThread, one shared property at a time. *)
ReadProperty ==
    /\ \/ /\ At("growing", "readUser")
          /\ Then("growing", <<[Top("growing") EXCEPT !.op = "readId", !.user = ses.user]>>)
       \/ /\ At("growing", "readId")
          /\ Then("growing", <<[Top("growing") EXCEPT !.op = "readKey", !.id = ses.id]>>)
    /\ UNCHANGED <<ses, keep>>

(* The last shared property is read; an event without a channel is dropped. *)
WriteEvent ==
    /\ At("growing", "readKey")
    /\ LET f == Top("growing")
           e == [type |-> f.type, user |-> f.user, key |-> ses.key, id |-> f.id]
       IN  log' = IF channels THEN Append(log, e) ELSE log
    /\ Then("growing", <<>>)
    /\ UNCHANGED <<ses, enabled, channels, builders, queue, env>>

-----------------------------------------------------------------------------
(* The login user *)

IsBlank(u) == u \in {None, Blank}

Equal(u, v) == IF IsBlank(u) THEN IsBlank(v) ELSE u = v

(* Mutant of SetLoginUserId: the id is stored for the key. *)
SetLoginUserIdTwice(t) ==
    LET f == Top(t)
    IN  /\ \/ /\ At(t, "login")
              /\ Then(t, <<[f EXCEPT !.op = "setUser"]>>)
              /\ UNCHANGED ses
           \/ /\ At(t, "setUser")
              /\ Set([ses EXCEPT !.user = f.user])
              /\ Then(t, <<[f EXCEPT !.op = "setKey", !.old = ses.user]>>)
           \/ /\ At(t, "setKey")
              /\ Set([ses EXCEPT !.key = f.user])
              /\ Then(t, <<[f EXCEPT !.op = "userChanged"]>>)
        /\ UNCHANGED keep

(* Mutant of SetLoginUserId: clearing the user leaves its key. *)
SetLoginUserIdKeepKey(t) ==
    LET f == Top(t)
    IN  /\ \/ /\ At(t, "login")
              /\ Then(t, IF f.user # None /\ Equal(f.user, ses.user) /\ Equal(f.key, ses.key)
                         THEN <<>> ELSE <<[f EXCEPT !.op = "setUser"]>>)
              /\ UNCHANGED ses
           \/ /\ At(t, "setUser")
              /\ Set([ses EXCEPT !.user = f.user])
              /\ Then(t, <<[f EXCEPT !.op = IF f.user = None THEN "userChanged" ELSE "setKey",
                                     !.old = ses.user]>>)
           \/ /\ At(t, "setKey")
              /\ Set([ses EXCEPT !.key = f.key])
              /\ Then(t, <<[f EXCEPT !.op = "userChanged"]>>)
        /\ UNCHANGED keep

(* setLoginUserId:userKey: compares, unless it clears, and stores id, then key. *)
SetLoginUserId(t) ==
    LET f == Top(t)
    IN  /\ \/ /\ At(t, "login")
              /\ Then(t, IF f.user # None /\ Equal(f.user, ses.user) /\ Equal(f.key, ses.key)
                         THEN <<>> ELSE <<[f EXCEPT !.op = "setUser"]>>)
              /\ UNCHANGED ses
           \/ /\ At(t, "setUser")
              /\ Set([ses EXCEPT !.user = f.user])
              /\ Then(t, <<[f EXCEPT !.op = "setKey", !.old = ses.user]>>)
           \/ /\ At(t, "setKey")
              /\ Set([ses EXCEPT !.key = f.key])
              /\ Then(t, <<[f EXCEPT !.op = "userChanged"]>>)
        /\ UNCHANGED keep

(* userIdDidChangedFrom:to: is called; without a user nothing follows. *)
UserIdDidChanged(t) ==
    /\ At(t, "userChanged")
    /\ Then(t, IF Top(t).user = None THEN <<>> ELSE <<[Top(t) EXCEPT !.op = "latest"]>>)
    /\ UNCHANGED <<ses, keep>>

(* Mutant of ResendVisit: the user is compared with the one it replaces. *)
ResendVisitOnChange(t) ==
    /\ At(t, "latest")
    /\ IF IsBlank(ses.user)
       THEN UNCHANGED ses /\ Then(t, <<>>)
       ELSE /\ Set([ses EXCEPT !.latest = ses.user])
            /\ Then(t, IF IsBlank(Top(t).old) \/ ses.user = Top(t).old THEN <<>> ELSE NewSession)
    /\ UNCHANGED keep

(* resendVisitByUserIdDidChangedFrom:to: another user than the last one. *)
ResendVisit(t) ==
    /\ At(t, "latest")
    /\ IF IsBlank(ses.user)
       THEN UNCHANGED ses /\ Then(t, <<>>)
       ELSE /\ Set([ses EXCEPT !.latest = ses.user])
            /\ Then(t, IF IsBlank(ses.latest) \/ ses.user = ses.latest THEN <<>> ELSE NewSession)
    /\ UNCHANGED keep

-----------------------------------------------------------------------------
(* Blocks of the app's life cycle, of app_reengage and of data collection *)

(* Whether sessionInterval has passed since the app was put aside is open. *)
BecomeActive ==
    /\ At("growing", "become")
    /\ Set([ses EXCEPT !.state = "active"])
    /\ \/ Then("growing", <<>>)
       \/ ses.away /\ Then("growing", NewSession)
    /\ UNCHANGED keep

PutAside ==
    /\ \/ /\ At("growing", "resign")
          /\ Set([ses EXCEPT !.state = "inactive", !.away = TRUE])
          /\ Then("growing", <<>>)
       \/ /\ At("growing", "background")
          /\ Set([ses EXCEPT !.state = "background", !.away = TRUE])
          /\ Then("growing", <<Post("APP_CLOSED")>>)
    /\ UNCHANGED keep

(* Mutant of GenerateAppReengage: it is posted whatever the state. *)
GenerateAppReengageAtOnce ==
    /\ At("growing", "reengage")
    /\ Then("growing", IF enabled THEN <<Post("REENGAGE")>> ELSE <<>>)
    /\ UNCHANGED <<ses, enabled, channels, builders, queue, log, env>>

(* An app_reengage event waits for the next activation unless active. *)
GenerateAppReengage ==
    /\ At("growing", "reengage")
    /\ IF enabled /\ ses.state # "active"
       THEN builders' = builders + 1 /\ Then("growing", <<>>)
       ELSE /\ UNCHANGED builders
            /\ Then("growing", IF enabled THEN <<Post("REENGAGE")>> ELSE <<>>)
    /\ UNCHANGED <<ses, enabled, channels, queue, log, env>>

PostBuilders ==
    /\ At("growing", "postBuilders")
    /\ builders' = 0
    /\ Then("growing", [i \in 1..builders |-> Post("REENGAGE")])
    /\ UNCHANGED <<ses, enabled, channels, queue, log, env>>

(* Mutant of SetEnabled: a VISIT, but no new session. *)
SetEnabledAndVisit(b) ==
    /\ At("growing", IF b THEN "enable" ELSE "disable")
    /\ enabled' = b
    /\ Then("growing", IF b /\ ~enabled THEN <<Do("visit")>> ELSE <<>>)
    /\ UNCHANGED <<ses, channels, builders, queue, log, env>>

SetEnabled(b) ==
    /\ At("growing", IF b THEN "enable" ELSE "disable")
    /\ enabled' = b
    /\ Then("growing", IF b /\ ~enabled THEN NewSession ELSE <<>>)
    /\ UNCHANGED <<ses, channels, builders, queue, log, env>>

-----------------------------------------------------------------------------
(* Calls *)

Started == stack["main"] = <<>>

Count(n)  == calls + n <= MaxCalls /\ calls' = calls + n
Queue(fs) == Len(queue) + Len(fs) <= MaxQueue /\ queue' = queue \o fs
Race      == races < MaxRaces /\ races' = races + 1 /\ Count(2)

(* A call from another thread queues its blocks in order. *)
Call(fs) ==
    /\ Started
    /\ Count(1) /\ Queue(fs)
    /\ UNCHANGED <<ses, enabled, channels, builders, stack, log, races>>

Track == Call(<<Post("CUSTOM")>>) /\ UNCHANGED app

(* A module may post from a thread of its own while the tracker starts. *)
EarlyTrack ==
    /\ ~Started /\ log = <<>>
    /\ Race /\ Queue(<<Post("CUSTOM")>>)
    /\ UNCHANGED <<ses, enabled, channels, builders, stack, log, app>>

LoginUser ==
    /\ \/ \E u \in User : \E k \in KeysOf[u] \cup {None} : Call(<<Login(u, k)>>)
       \/ \E u \in {None, Blank} : Call(<<Login(u, None)>>)
    /\ UNCHANGED app

(* setDataCollectionEnabled: of either value, and the opening of a deep link. *)
OtherCall ==
    /\ \E op \in {"enable", "disable", "reengage"} : Call(<<Do(op)>>)
    /\ UNCHANGED app

(* The delegates are told in the order they registered: the session first. *)
LifeCycle ==
    \/ app # "active" /\ app' = "active" /\ Call(<<Do("become"), Do("postBuilders")>>)
    \/ app = "active" /\ app' = "inactive" /\ Call(<<Do("resign")>>)
    \/ app = "inactive" /\ app' = "background" /\ Call(<<Do("background")>>)

(* The Hybrid bridge changes the login user on the main thread. *)
HandleJavascriptBridgeMessage ==
    /\ Started /\ Race
    /\ \/ \E u \in User : \E k \in KeysOf[u] \cup {None} :
             stack' = [stack EXCEPT !["main"] = <<Login(u, k)>>]
       \/ stack' = [stack EXCEPT !["main"] = <<Login(None, None)>>]
    /\ UNCHANGED <<ses, enabled, channels, builders, queue, log, app>>

OnEitherThread(t) ==
    \/ GenerateVisit(t) \/ GenerateVisitEvent(t) \/ RefreshSessionId(t)
    \/ SetLoginUserId(t) \/ UserIdDidChanged(t) \/ ResendVisit(t)

Next ==
    \/ \E t \in Thread : OnEitherThread(t)
    \/ TakeBlock \/ ConfigManager
    \/ PostEventBuilder \/ ReadProperty \/ WriteEvent
    \/ BecomeActive \/ PutAside
    \/ GenerateAppReengage \/ PostBuilders
    \/ \E b \in BOOLEAN : SetEnabled(b)
    \/ Track \/ EarlyTrack \/ LoginUser \/ OtherCall \/ LifeCycle
    \/ HandleJavascriptBridgeMessage

Spec == Init /\ [][Next]_vars

-----------------------------------------------------------------------------
(* Correctness *)

(* Every piece of the session's state keeps the values its code can give it. *)
TypeOK ==
    /\ enabled \in BOOLEAN /\ channels \in BOOLEAN
    /\ ses \in Ses
    /\ builders \in Nat
    /\ queue \in Seq(Frame)
    /\ stack \in [Thread -> Seq(Frame)]
    /\ log \in Seq(Event)
    /\ app \in State /\ calls \in Nat /\ races \in Nat

(***************************************************************************)
(* Without calls on the main thread, the first event of every session is   *)
(* its VISIT: postEventBuilder: generates one that is missing before it    *)
(* reads the session.                                                      *)
(***************************************************************************)
VisitFirst ==
    races = 0 =>
        \A i \in DOMAIN log : \E j \in 1..i :
            log[j].type = "VISIT" /\ log[j].id = log[i].id

(***************************************************************************)
(* And it is the only one: whatever makes a session's VISIT due (a refresh *)
(* or an event that finds none sent), generateVisit runs once for it.      *)
(***************************************************************************)
OneVisitPerSession ==
    races = 0 =>
        \A i, j \in DOMAIN log :
            log[i].type = "VISIT" /\ log[j].type = "VISIT" /\ log[i].id = log[j].id
            => i = j

(***************************************************************************)
(* The events of one session belong to one user, however the app logs in,  *)
(* out and in again: another user than the last one starts a session.      *)
(***************************************************************************)
OneUserPerSession ==
    races = 0 =>
        \A i, j \in DOMAIN log :
            \/ log[i].id # log[j].id
            \/ IsBlank(log[i].user) \/ IsBlank(log[j].user)
            \/ log[i].user = log[j].user

(***************************************************************************)
(* An event's key is one the app set together with the event's user,       *)
(* although setLoginUserId:userKey: stores, and the event reads, the two   *)
(* apart.                                                                  *)
(***************************************************************************)
KeyOfUser ==
    races = 0 =>
        \A i \in DOMAIN log :
            log[i].key # None => log[i].user \in User /\ log[i].key \in KeysOf[log[i].user]

(***************************************************************************)
(* A deep link opened while the app is away is attributed to the session   *)
(* of its return: nothing re-engages while the session may yet be renewed. *)
(***************************************************************************)
ReengagesInNewSession ==
    [][Len(log') > Len(log) /\ log'[Len(log')].type = "REENGAGE" =>
          ses.state = "active"]_vars

(***************************************************************************)
(* Whatever races with the main thread: once all that was asked for is     *)
(* done and data collection is on, the current session has its VISIT.      *)
(***************************************************************************)
AtRestVisited ==
    queue = <<>> /\ (\A t \in Thread : stack[t] = <<>>) /\ enabled =>
        \E i \in DOMAIN log : log[i].type = "VISIT" /\ log[i].id = ses.id

(* What applicationDidBecomeActive of GrowingAdvertising is written for: an *)
(* app_reengage event comes after the VISIT of the session it names.        *)
ReengageAfterVisit ==
    \A i \in DOMAIN log : log[i].type = "REENGAGE" =>
        \E j \in 1..i : log[j].type = "VISIT" /\ log[j].id = log[i].id

=============================================================================
