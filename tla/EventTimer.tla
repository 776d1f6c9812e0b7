----------------------------- MODULE EventTimer -----------------------------
(***************************************************************************)
(* GrowingEventTimer: timers that the app starts, pauses, resumes and ends *)
(* by calls, and that leave out the time the app spends in the background. *)
(*                                                                         *)
(* A call reads the clock at once and leaves the rest to a block that      *)
(* GrowingThread runs later; the blocks of GrowingSession read it when     *)
(* they run.  A watch per timer, which no code keeps, measures what a      *)
(* timer is for: the time between its calls outside the background.        *)
(***************************************************************************)
EXTENDS Integers, Sequences, FiniteSets

CONSTANTS
    Timer,      \* the ids trackTimerStart: may return, each of them once
    Day,        \* 24 hours: a stretch that long counts nothing
    MaxTime,    \* bound on the clock
    MaxCalls,   \* bound on the calls of the app and of the system
    MaxQueue    \* bound on the blocks that wait for GrowingThread

ASSUME EventTimerAssumption ==
    /\ Day \in Nat
    /\ MaxTime \in Nat /\ MaxCalls \in Nat /\ MaxQueue \in Nat

(* "launched" and "hidden": started in the foreground, or in the           *)
(* background, and told nothing since.                                     *)
App    == {"launched", "hidden", "active", "inactive", "background"}
Hidden == {"hidden", "background"}
Mode   == {"none", "running", "paused", "ended"}

TimerOp == {"start", "pause", "resume", "end", "remove"}
Op      == {"clear", "enable", "disable", "become", "resign", "background"}
Block   == [op : TimerOp, timer : Timer, time : Nat] \cup [op : Op]

(* startTime, 0 while paused, and duration of a GrowingEventTimer. *)
Counter == [start : Nat, duration : Nat]

(* ran: the time it ran in the foreground; late: the time the session's    *)
(* blocks waited, added up over the blocks.                                *)
(* cut: it ran through an interruption that never reached the background.  *)
(* behind: it was stopped in the background, or ran while hidden.          *)
Watch == [mode : Mode, ran : Nat, late : Nat, cut : BOOLEAN, behind : BOOLEAN]
Event == [timer : Timer, duration : Nat, watch : Watch]

VARIABLES
    timers,     \* GrowingEventTimer.timers
    enabled,    \* trackConfiguration.dataCollectionEnabled
    away,       \* whether the session's latestDidEnterBackgroundTime is set
    queue,      \* the blocks queued for GrowingThread
    sent,       \* the custom events, each with the watch of its timer
    now,        \* currentSystemTimeMillis
    app, calls, \* what the app was last told it is, and the calls so far
    watch       \* the watch of each timer

env  == <<now, app, calls, watch>>
vars == <<timers, enabled, away, queue, sent, env>>

Init ==
    /\ timers = [t \in {} |-> [start |-> 0, duration |-> 0]]
    /\ enabled \in BOOLEAN
    /\ away = FALSE
    /\ queue = <<>> /\ sent = <<>>
    /\ now = 1
    /\ app \in {"launched", "hidden"} /\ calls = 0
    /\ watch = [t \in Timer |->
                  [mode |-> "none", ran |-> 0, late |-> 0, cut |-> FALSE, behind |-> FALSE]]

-----------------------------------------------------------------------------
(* Counters *)

IsPaused(r) == r.start = 0

(* Mutant of DurationFrom: only the upper bound is kept. *)
DurationFromUnclipped(start, end) ==
    IF start > 0 /\ end - start < Day THEN end - start ELSE 0

DurationFrom(start, end) ==
    IF start > 0 /\ end - start > 0 /\ end - start < Day THEN end - start ELSE 0

(* Mutant of Stop: the stretch replaces what was counted before. *)
StopForgetting(r, time, next) ==
    [start |-> next, duration |-> DurationFrom(r.start, time)]

(* The stretch that ends at time is added; the next one begins at next. *)
Stop(r, time, next) ==
    [start |-> next, duration |-> r.duration + DurationFrom(r.start, time)]

With(t, r) == [u \in DOMAIN timers \cup {t} |-> IF u = t THEN r ELSE timers[u]]
Without(t) == [u \in DOMAIN timers \ {t} |-> timers[u]]
NoTimers   == [u \in {} |-> [start |-> 0, duration |-> 0]]

-----------------------------------------------------------------------------
(* Blocks of GrowingThread *)

Run(op) ==
    /\ queue # <<>> /\ Head(queue).op = op
    /\ queue' = Tail(queue)
    /\ UNCHANGED env

(* Mutant of StartTimer: data collection is tested by the call alone. *)
StartTimerUntested ==
    /\ Run("start")
    /\ timers' = With(Head(queue).timer, [start |-> Head(queue).time, duration |-> 0])
    /\ UNCHANGED <<enabled, away, sent>>

(* Data collection may have been switched off since the call. *)
StartTimer ==
    /\ Run("start")
    /\ timers' = IF enabled
                 THEN With(Head(queue).timer, [start |-> Head(queue).time, duration |-> 0])
                 ELSE timers
    /\ UNCHANGED <<enabled, away, sent>>

PauseTimer ==
    /\ Run("pause")
    /\ LET b == Head(queue)
       IN  timers' = IF b.timer \in DOMAIN timers /\ ~IsPaused(timers[b.timer])
                     THEN With(b.timer, Stop(timers[b.timer], b.time, 0))
                     ELSE timers
    /\ UNCHANGED <<enabled, away, sent>>

ResumeTimer ==
    /\ Run("resume")
    /\ LET b == Head(queue)
       IN  timers' = IF b.timer \in DOMAIN timers /\ IsPaused(timers[b.timer])
                     THEN With(b.timer, [timers[b.timer] EXCEPT !.start = b.time])
                     ELSE timers
    /\ UNCHANGED <<enabled, away, sent>>

(* The custom event is dropped where every event is: without data collection. *)
Sent(t, r) ==
    IF enabled THEN Append(sent, [timer |-> t, duration |-> r.duration, watch |-> watch[t]])
    ELSE sent

(* Mutant of EndTimer: the timer stays. *)
EndTimerKeep ==
    /\ Run("end")
    /\ LET b == Head(queue)
       IN  sent' = IF b.timer \in DOMAIN timers
                   THEN Sent(b.timer, Stop(timers[b.timer], b.time, 0)) ELSE sent
    /\ UNCHANGED <<timers, enabled, away>>

EndTimer ==
    /\ Run("end")
    /\ LET b == Head(queue)
       IN  /\ sent' = IF b.timer \in DOMAIN timers
                      THEN Sent(b.timer, Stop(timers[b.timer], b.time, 0)) ELSE sent
           /\ timers' = Without(b.timer)
    /\ UNCHANGED <<enabled, away>>

RemoveTimer ==
    /\ Run("remove")
    /\ timers' = Without(Head(queue).timer)
    /\ UNCHANGED <<enabled, away, sent>>

ClearAllTimers ==
    /\ Run("clear")
    /\ timers' = NoTimers
    /\ UNCHANGED <<enabled, away, sent>>

SetDataCollectionEnabled(b) ==
    /\ Run(IF b THEN "enable" ELSE "disable")
    /\ enabled' = b
    /\ timers' = IF enabled /\ ~b THEN NoTimers ELSE timers
    /\ UNCHANGED <<away, sent>>

WillResignActive ==
    /\ Run("resign")
    /\ away' = TRUE
    /\ UNCHANGED <<timers, enabled, sent>>

(* applicationDidEnterBackground: a running timer goes on, from now. *)
HandleAllTimersPause ==
    /\ Run("background")
    /\ away' = TRUE
    /\ timers' = [t \in DOMAIN timers |->
                    IF IsPaused(timers[t]) THEN timers[t] ELSE Stop(timers[t], now, now)]
    /\ UNCHANGED <<enabled, sent>>

(* applicationDidBecomeActive: but for the first time, running timers start *)
(* anew, and keep the duration they had.                                    *)
HandleAllTimersResume ==
    /\ Run("become")
    /\ timers' = IF away
                 THEN [t \in DOMAIN timers |->
                         IF IsPaused(timers[t]) THEN timers[t]
                         ELSE [timers[t] EXCEPT !.start = now]]
                 ELSE timers
    /\ UNCHANGED <<enabled, away, sent>>

-----------------------------------------------------------------------------
(* Calls *)

Call(b) ==
    /\ calls < MaxCalls
    /\ Len(queue) < MaxQueue
    /\ calls' = calls + 1
    /\ queue' = Append(queue, b)
    /\ UNCHANGED <<timers, enabled, away, sent, now>>

TimerCall(op, t) == Call([op |-> op, timer |-> t, time |-> now]) /\ UNCHANGED app

(* No id is returned while data collection is off. *)
TrackTimerStart(t) ==
    /\ enabled /\ watch[t].mode = "none"
    /\ TimerCall("start", t)
    /\ watch' = [watch EXCEPT ![t].mode = "running", ![t].behind = app = "hidden"]

TrackTimerPause(t) ==
    /\ watch[t].mode # "none"
    /\ TimerCall("pause", t)
    /\ watch' = IF watch[t].mode = "running"
                THEN [watch EXCEPT ![t].mode = "paused", ![t].behind = @ \/ app \in Hidden]
                ELSE watch

TrackTimerResume(t) ==
    /\ watch[t].mode # "none"
    /\ TimerCall("resume", t)
    /\ watch' = IF watch[t].mode = "paused"
                THEN [watch EXCEPT ![t].mode = "running", ![t].behind = @ \/ app = "hidden"]
                ELSE watch

TrackTimerEnd(t) ==
    /\ watch[t].mode # "none"
    /\ TimerCall("end", t)
    /\ watch' = [watch EXCEPT ![t].mode = "ended",
                   ![t].behind = @ \/ (watch[t].mode = "running" /\ app \in Hidden)]

RemoveCall(t) ==
    /\ watch[t].mode # "none"
    /\ TimerCall("remove", t)
    /\ watch' = [watch EXCEPT ![t].mode = "ended"]

(* clearTrackTimer, and setDataCollectionEnabled: of either value. *)
OtherCall ==
    /\ \E op \in {"clear", "enable", "disable"} : Call([op |-> op])
    /\ UNCHANGED <<app, watch>>

LifeCycle ==
    \/ /\ app # "active" /\ app' = "active" /\ Call([op |-> "become"])
       /\ watch' = [t \in Timer |->
                      [watch[t] EXCEPT !.cut = @ \/ (app = "inactive" /\ watch[t].mode = "running")]]
    \/ /\ app = "active" /\ app' = "inactive" /\ Call([op |-> "resign"])
       /\ UNCHANGED watch
    \/ /\ app = "inactive" /\ app' = "background" /\ Call([op |-> "background"])
       /\ UNCHANGED watch

(* The blocks that will read the clock only when they run. *)
Waiting == {i \in DOMAIN queue : queue[i].op \in {"become", "background"}}

(* Time passes, for the watches too. *)
Tick ==
    /\ now < MaxTime
    /\ now' = now + 1
    /\ watch' = [t \in Timer |->
                   [watch[t] EXCEPT
                      !.ran  = IF watch[t].mode = "running" /\ app \notin Hidden THEN @ + 1 ELSE @,
                      !.late = IF watch[t].mode # "none" THEN @ + Cardinality(Waiting) ELSE @]]
    /\ UNCHANGED <<timers, enabled, away, queue, sent, app, calls>>

Next ==
    \/ StartTimer \/ PauseTimer \/ ResumeTimer \/ EndTimer \/ RemoveTimer \/ ClearAllTimers
    \/ \E b \in BOOLEAN : SetDataCollectionEnabled(b)
    \/ WillResignActive \/ HandleAllTimersPause \/ HandleAllTimersResume
    \/ \E t \in Timer : \/ TrackTimerStart(t) \/ TrackTimerPause(t) \/ TrackTimerResume(t)
                        \/ TrackTimerEnd(t) \/ RemoveCall(t)
    \/ OtherCall \/ LifeCycle \/ Tick

Spec == Init /\ [][Next]_vars

-----------------------------------------------------------------------------
(* Correctness *)

(* A counter never runs backwards, whichever order its times come in. *)
TypeOK ==
    /\ DOMAIN timers \subseteq Timer /\ timers \in [DOMAIN timers -> Counter]
    /\ enabled \in BOOLEAN /\ away \in BOOLEAN
    /\ queue \in Seq(Block)
    /\ sent \in Seq(Event)
    /\ now \in Nat \ {0} /\ app \in App /\ calls \in Nat
    /\ watch \in [Timer -> Watch]

(***************************************************************************)
(* However often trackTimerEnd: is called, and wherever its blocks fall    *)
(* among the others, a timer yields one event.                             *)
(***************************************************************************)
OneEventPerTimer ==
    \A i, j \in DOMAIN sent : sent[i].timer = sent[j].timer => i = j

(***************************************************************************)
(* Switching data collection off ends all timers, also those whose start   *)
(* is still queued.                                                        *)
(***************************************************************************)
NoTimerWhileDisabled == ~enabled => DOMAIN timers = {}

(***************************************************************************)
(* A duration exceeds the time the timer ran in the foreground by no more  *)
(* than the session's blocks waited, added up, whatever its pauses and the *)
(* app's returns, provided that it was not stopped in the background.      *)
(***************************************************************************)
NoLongerThanForeground ==
    \A i \in DOMAIN sent : LET w == sent[i].watch IN
        ~w.behind => sent[i].duration <= w.ran + w.late

(***************************************************************************)
(* Nor does it miss more than that, provided that no interruption cut it   *)
(* and that no stretch can reach 24 hours.                                 *)
(***************************************************************************)
NoShorterThanForeground ==
    \A i \in DOMAIN sent : LET w == sent[i].watch IN
        ~w.behind /\ ~w.cut /\ w.ran + w.late < Day => sent[i].duration + w.late >= w.ran

(* A duration is the time in the foreground, up to those waits. *)
CountsForeground == NoLongerThanForeground /\ NoShorterThanForeground

(* As its test says: a duration covers all of the time spent in the        *)
(* foreground.                                                             *)
CoversForeground ==
    \A i \in DOMAIN sent : sent[i].duration + sent[i].watch.late >= sent[i].watch.ran

=============================================================================
