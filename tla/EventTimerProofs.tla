-------------------------- MODULE EventTimerProofs --------------------------
(***************************************************************************)
(* Proofs about EventTimer: its types, that a timer yields one event, and  *)
(* that its duration is the time it ran in the foreground.                 *)
(***************************************************************************)
EXTENDS EventTimer, SequenceTheorems, FiniteSetTheorems, TLAPS

(* What a block that names a timer carries. *)
LEMMA BlockFields ==
    ASSUME NEW b \in Block, b.op \in TimerOp
    PROVE  b.timer \in Timer /\ b.time \in Nat
BY DEF Block, Op, TimerOp

LEMMA RunType ==
    ASSUME TypeOK, NEW op, Run(op)
    PROVE  /\ Head(queue) \in Block /\ Head(queue).op = op
           /\ queue' = Tail(queue) /\ queue' \in Seq(Block)
           /\ UNCHANGED env
BY HeadTailProperties DEF Run, TypeOK

LEMMA StopType ==
    ASSUME NEW r \in Counter, NEW time \in Nat, NEW next \in Nat
    PROVE  Stop(r, time, next) \in Counter
<1>1. r.start \in Nat /\ r.duration \in Nat
  BY DEF Counter
<1>2. DurationFrom(r.start, time) \in Nat
  BY <1>1 DEF DurationFrom
<1>3. QED
  BY <1>1, <1>2 DEF Stop, Counter

(* The steps that touch the timers alone, by what they make of them. *)
LEMMA WithType ==
    ASSUME TypeOK, NEW t \in Timer, NEW r \in Counter
    PROVE  /\ DOMAIN With(t, r) = DOMAIN timers \cup {t}
           /\ With(t, r) \in [DOMAIN With(t, r) -> Counter]
BY DEF TypeOK, With

LEMMA TimersType ==
    ASSUME TypeOK, NEW t \in Timer, NEW r, NEW P \in BOOLEAN,
           P => r \in Counter,
           timers' = IF P THEN With(t, r) ELSE timers
    PROVE  DOMAIN timers' \subseteq Timer /\ timers' \in [DOMAIN timers' -> Counter]
<1>1. CASE P
  <2>1. timers' = With(t, r) /\ r \in Counter
    BY <1>1
  <2>2. /\ DOMAIN With(t, r) = DOMAIN timers \cup {t}
        /\ With(t, r) \in [DOMAIN With(t, r) -> Counter]
    BY <2>1, WithType
  <2>3. DOMAIN timers \subseteq Timer
    BY DEF TypeOK
  <2>4. QED
    BY <2>1, <2>2, <2>3
<1>2. CASE ~P
  BY <1>2 DEF TypeOK
<1>3. QED
  BY <1>1, <1>2

LEMMA BlockSteps ==
    ASSUME TypeOK,
           \/ StartTimer \/ PauseTimer \/ ResumeTimer \/ EndTimer \/ RemoveTimer \/ ClearAllTimers
           \/ \E b \in BOOLEAN : SetDataCollectionEnabled(b)
           \/ WillResignActive \/ HandleAllTimersPause \/ HandleAllTimersResume
    PROVE  TypeOK'
<1> DEFINE b == Head(queue)
<1>0. DOMAIN timers \subseteq Timer /\ timers \in [DOMAIN timers -> Counter]
  BY DEF TypeOK
<1>t. now \in Nat
  BY DEF TypeOK
<1>1. CASE StartTimer
  <2>1. /\ b \in Block /\ b.op = "start" /\ queue' \in Seq(Block) /\ UNCHANGED env
    BY <1>1, RunType DEF StartTimer
  <2>2. b.timer \in Timer /\ [start |-> b.time, duration |-> 0] \in Counter
    BY <2>1, BlockFields DEF TimerOp, Counter
  <2>3. DOMAIN timers' \subseteq Timer /\ timers' \in [DOMAIN timers' -> Counter]
    BY <1>1, <2>2, TimersType DEF StartTimer
  <2>4. QED
    BY <1>1, <2>1, <2>3 DEF StartTimer, TypeOK, env
<1>2. CASE PauseTimer
  <2>1. /\ b \in Block /\ b.op = "pause" /\ queue' \in Seq(Block) /\ UNCHANGED env
    BY <1>2, RunType DEF PauseTimer
  <2>2. b.timer \in Timer /\ b.time \in Nat
    BY <2>1, BlockFields DEF TimerOp
  <2>3. ASSUME b.timer \in DOMAIN timers
        PROVE  Stop(timers[b.timer], b.time, 0) \in Counter
    BY <1>0, <2>2, <2>3, StopType
  <2>4. DOMAIN timers' \subseteq Timer /\ timers' \in [DOMAIN timers' -> Counter]
    <3> DEFINE P == b.timer \in DOMAIN timers /\ ~IsPaused(timers[b.timer])
               r == Stop(timers[b.timer], b.time, 0)
    <3>1. timers' = IF P THEN With(b.timer, r) ELSE timers
      BY <1>2 DEF PauseTimer
    <3>2. P => r \in Counter
      BY <2>3
    <3>3. P \in BOOLEAN
      BY DEF IsPaused
    <3> HIDE DEF P, r, b
    <3>4. QED
      BY <2>2, <3>1, <3>2, <3>3, TimersType
  <2>5. QED
    BY <1>2, <2>1, <2>4 DEF PauseTimer, TypeOK, env
<1>3. CASE ResumeTimer
  <2>1. /\ b \in Block /\ b.op = "resume" /\ queue' \in Seq(Block) /\ UNCHANGED env
    BY <1>3, RunType DEF ResumeTimer
  <2>2. b.timer \in Timer /\ b.time \in Nat
    BY <2>1, BlockFields DEF TimerOp
  <2>3. ASSUME b.timer \in DOMAIN timers
        PROVE  [timers[b.timer] EXCEPT !.start = b.time] \in Counter
    BY <1>0, <2>2, <2>3 DEF Counter
  <2>4. DOMAIN timers' \subseteq Timer /\ timers' \in [DOMAIN timers' -> Counter]
    <3> DEFINE P == b.timer \in DOMAIN timers /\ IsPaused(timers[b.timer])
               r == [timers[b.timer] EXCEPT !.start = b.time]
    <3>1. timers' = IF P THEN With(b.timer, r) ELSE timers
      BY <1>3 DEF ResumeTimer
    <3>2. P => r \in Counter
      BY <2>3
    <3>3. P \in BOOLEAN
      BY DEF IsPaused
    <3> HIDE DEF P, r, b
    <3>4. QED
      BY <2>2, <3>1, <3>2, <3>3, TimersType
  <2>5. QED
    BY <1>3, <2>1, <2>4 DEF ResumeTimer, TypeOK, env
<1>4. CASE EndTimer
  <2>1. /\ b \in Block /\ b.op = "end" /\ queue' \in Seq(Block) /\ UNCHANGED env
    BY <1>4, RunType DEF EndTimer
  <2>2. b.timer \in Timer /\ b.time \in Nat
    BY <2>1, BlockFields DEF TimerOp
  <2>3. DOMAIN timers' \subseteq Timer /\ timers' \in [DOMAIN timers' -> Counter]
    BY <1>0, <1>4 DEF EndTimer, Without
  <2>4. sent' \in Seq(Event)
    <3>1. CASE b.timer \in DOMAIN timers /\ enabled
      <4> DEFINE r == Stop(timers[b.timer], b.time, 0)
      <4>1. r \in Counter
        BY <1>0, <2>2, <3>1, StopType
      <4>2. r.duration \in Nat
        BY <4>1 DEF Counter
      <4> HIDE DEF r
      <4>3. watch[b.timer] \in Watch
        BY <2>2 DEF TypeOK
      <4>4. [timer |-> b.timer, duration |-> r.duration, watch |-> watch[b.timer]] \in Event
        BY <2>2, <4>2, <4>3 DEF Event
      <4>5. sent' = Append(sent, [timer |-> b.timer, duration |-> r.duration,
                                  watch |-> watch[b.timer]])
        BY <1>4, <3>1 DEF EndTimer, Sent, r
      <4>6. QED
        BY <4>4, <4>5 DEF TypeOK
    <3>2. CASE ~(b.timer \in DOMAIN timers /\ enabled)
      BY <1>4, <3>2 DEF EndTimer, Sent, TypeOK
    <3>3. QED
      BY <3>1, <3>2
  <2>5. QED
    BY <1>4, <2>1, <2>3, <2>4 DEF EndTimer, TypeOK, env
<1>5. CASE RemoveTimer
  <2>1. queue' \in Seq(Block) /\ UNCHANGED env
    BY <1>5, RunType DEF RemoveTimer
  <2>2. DOMAIN timers' \subseteq Timer /\ timers' \in [DOMAIN timers' -> Counter]
    BY <1>0, <1>5 DEF RemoveTimer, Without
  <2>3. QED
    BY <1>5, <2>1, <2>2 DEF RemoveTimer, TypeOK, env
<1>6. CASE ClearAllTimers
  <2>1. queue' \in Seq(Block) /\ UNCHANGED env
    BY <1>6, RunType DEF ClearAllTimers
  <2>2. DOMAIN timers' \subseteq Timer /\ timers' \in [DOMAIN timers' -> Counter]
    BY <1>6 DEF ClearAllTimers, NoTimers
  <2>3. QED
    BY <1>6, <2>1, <2>2 DEF ClearAllTimers, TypeOK, env
<1>7. ASSUME NEW c \in BOOLEAN, SetDataCollectionEnabled(c)
      PROVE  TypeOK'
  <2>1. queue' \in Seq(Block) /\ UNCHANGED env
    BY <1>7, RunType DEF SetDataCollectionEnabled
  <2>2. DOMAIN NoTimers \subseteq Timer /\ NoTimers \in [DOMAIN NoTimers -> Counter]
    BY DEF NoTimers
  <2>3. DOMAIN timers' \subseteq Timer /\ timers' \in [DOMAIN timers' -> Counter]
    BY <1>0, <1>7, <2>2 DEF SetDataCollectionEnabled
  <2>4. QED
    BY <1>7, <2>1, <2>3 DEF SetDataCollectionEnabled, TypeOK, env
<1>8. CASE WillResignActive
  <2>1. queue' \in Seq(Block) /\ UNCHANGED env
    BY <1>8, RunType DEF WillResignActive
  <2>2. QED
    BY <1>8, <2>1 DEF WillResignActive, TypeOK, env
<1>9. CASE HandleAllTimersPause
  <2>1. queue' \in Seq(Block) /\ UNCHANGED env
    BY <1>9, RunType DEF HandleAllTimersPause
  <2>2. \A t \in DOMAIN timers : Stop(timers[t], now, now) \in Counter
    BY <1>0, <1>t, StopType
  <2>3. DOMAIN timers' \subseteq Timer /\ timers' \in [DOMAIN timers' -> Counter]
    BY <1>0, <1>9, <2>2 DEF HandleAllTimersPause
  <2>4. QED
    BY <1>9, <2>1, <2>3 DEF HandleAllTimersPause, TypeOK, env
<1>10. CASE HandleAllTimersResume
  <2>1. queue' \in Seq(Block) /\ UNCHANGED env
    BY <1>10, RunType DEF HandleAllTimersResume
  <2>2. \A t \in DOMAIN timers : [timers[t] EXCEPT !.start = now] \in Counter
    BY <1>0, <1>t DEF Counter
  <2>3. DOMAIN timers' \subseteq Timer /\ timers' \in [DOMAIN timers' -> Counter]
    BY <1>0, <1>10, <2>2 DEF HandleAllTimersResume
  <2>4. QED
    BY <1>10, <2>1, <2>3 DEF HandleAllTimersResume, TypeOK, env
<1>11. QED
  BY <1>1, <1>2, <1>3, <1>4, <1>5, <1>6, <1>7, <1>8, <1>9, <1>10

LEMMA CallType ==
    ASSUME TypeOK, NEW b \in Block, Call(b)
    PROVE  /\ queue' \in Seq(Block) /\ calls' \in Nat
           /\ UNCHANGED <<timers, enabled, away, sent, now>>
BY DEF Call, TypeOK

LEMMA TimerCallType ==
    ASSUME TypeOK, NEW op \in TimerOp, NEW t \in Timer, TimerCall(op, t),
           watch' \in [Timer -> Watch]
    PROVE  TypeOK'
<1>1. [op |-> op, timer |-> t, time |-> now] \in Block
  BY DEF TypeOK, Block
<1>2. QED
  BY <1>1, CallType DEF TimerCall, TypeOK

LEMMA WaitingFinite ==
    ASSUME TypeOK
    PROVE  IsFiniteSet(Waiting) /\ Cardinality(Waiting) \in Nat
<1>1. Waiting \subseteq 1..Len(queue) /\ Len(queue) \in Nat
  BY DEF Waiting, TypeOK
<1>2. IsFiniteSet(1..Len(queue))
  BY <1>1, FS_Interval
<1>3. QED
  BY <1>1, <1>2, FS_Subset, FS_CardinalityType

LEMMA CallSteps ==
    ASSUME TypeOK,
           \/ \E t \in Timer : \/ TrackTimerStart(t) \/ TrackTimerPause(t) \/ TrackTimerResume(t)
                               \/ TrackTimerEnd(t) \/ RemoveCall(t)
           \/ OtherCall \/ LifeCycle \/ Tick
    PROVE  TypeOK'
<1>0. watch \in [Timer -> Watch] /\ app \in App /\ now \in Nat
  BY DEF TypeOK
<1>w. \A t \in Timer : /\ watch[t] = [mode |-> watch[t].mode, ran |-> watch[t].ran,
                                      late |-> watch[t].late, cut |-> watch[t].cut,
                                      behind |-> watch[t].behind]
                       /\ watch[t].mode \in Mode /\ watch[t].ran \in Nat /\ watch[t].late \in Nat
                       /\ watch[t].cut \in BOOLEAN /\ watch[t].behind \in BOOLEAN
  BY <1>0 DEF Watch
<1>1. ASSUME NEW t \in Timer, TrackTimerStart(t) PROVE TypeOK'
  <2>1. watch' \in [Timer -> Watch]
    BY <1>0, <1>1 DEF TrackTimerStart, Watch, Mode
  <2>2. QED
    BY <1>1, <2>1, TimerCallType DEF TrackTimerStart, TimerOp
<1>2. ASSUME NEW t \in Timer, TrackTimerPause(t) PROVE TypeOK'
  <2>1. watch' \in [Timer -> Watch]
    BY <1>0, <1>2 DEF TrackTimerPause, Watch, Mode
  <2>2. QED
    BY <1>2, <2>1, TimerCallType DEF TrackTimerPause, TimerOp
<1>3. ASSUME NEW t \in Timer, TrackTimerResume(t) PROVE TypeOK'
  <2>1. watch' \in [Timer -> Watch]
    BY <1>0, <1>3 DEF TrackTimerResume, Watch, Mode
  <2>2. QED
    BY <1>3, <2>1, TimerCallType DEF TrackTimerResume, TimerOp
<1>4. ASSUME NEW t \in Timer, TrackTimerEnd(t) PROVE TypeOK'
  <2>1. watch' \in [Timer -> Watch]
    BY <1>0, <1>4 DEF TrackTimerEnd, Watch, Mode
  <2>2. QED
    BY <1>4, <2>1, TimerCallType DEF TrackTimerEnd, TimerOp
<1>5. ASSUME NEW t \in Timer, RemoveCall(t) PROVE TypeOK'
  <2>1. watch' \in [Timer -> Watch]
    BY <1>0, <1>5 DEF RemoveCall, Watch, Mode
  <2>2. QED
    BY <1>5, <2>1, TimerCallType DEF RemoveCall, TimerOp
<1>6. CASE OtherCall
  <2>1. PICK op \in {"clear", "enable", "disable"} : Call([op |-> op])
    BY <1>6 DEF OtherCall
  <2>2. [op |-> op] \in Block
    BY DEF Block, Op
  <2>3. QED
    BY <1>6, <2>1, <2>2, CallType DEF OtherCall, TypeOK
<1>7. CASE LifeCycle
  <2>1. [op |-> "become"] \in Block /\ [op |-> "resign"] \in Block /\ [op |-> "background"] \in Block
    BY DEF Block, Op
  <2>2. /\ Call([op |-> "become"]) \/ Call([op |-> "resign"]) \/ Call([op |-> "background"])
        /\ app' \in App
    BY <1>7 DEF LifeCycle, App
  <2>3. watch' \in [Timer -> Watch]
    <3> DEFINE c(t) == watch[t].cut \/ (app = "inactive" /\ watch[t].mode = "running")
               w(t) == [watch[t] EXCEPT !.cut = c(t)]
    <3>1. ASSUME NEW t \in Timer PROVE w(t) \in Watch
      <4>1. c(t) \in BOOLEAN
        BY <1>w
      <4>2. watch[t] \in Watch
        BY <1>0
      <4> HIDE DEF c
      <4>3. QED
        BY <4>1, <4>2 DEF Watch
    <3>2. watch' = [t \in Timer |-> w(t)] \/ watch' = watch
      BY <1>7 DEF LifeCycle
    <3> HIDE DEF w
    <3>3. QED
      BY <1>0, <3>1, <3>2
  <2>4. QED
    BY <2>1, <2>2, <2>3, CallType DEF TypeOK
<1>8. CASE Tick
  <2>1. watch' \in [Timer -> Watch]
    <3> DEFINE r(t) == IF watch[t].mode = "running" /\ app \notin Hidden
                       THEN watch[t].ran + 1 ELSE watch[t].ran
               l(t) == IF watch[t].mode # "none"
                       THEN watch[t].late + Cardinality(Waiting) ELSE watch[t].late
               w(t) == [watch[t] EXCEPT !.ran = r(t), !.late = l(t)]
    <3>1. ASSUME NEW t \in Timer PROVE w(t) \in Watch
      <4>0. watch[t].ran \in Nat /\ watch[t].late \in Nat
        BY <1>w
      <4>1. r(t) \in Nat /\ l(t) \in Nat
        <5>1. r(t) = watch[t].ran \/ r(t) = watch[t].ran + 1
          OBVIOUS
        <5>2. l(t) = watch[t].late \/ l(t) = watch[t].late + Cardinality(Waiting)
          OBVIOUS
        <5>3. Cardinality(Waiting) \in Nat
          BY WaitingFinite
        <5> HIDE DEF r, l
        <5>4. QED
          BY <4>0, <5>1, <5>2, <5>3
      <4>2. watch[t] \in Watch
        BY <1>0
      <4> HIDE DEF r, l
      <4>3. QED
        BY <4>1, <4>2 DEF Watch
    <3>2. watch' = [t \in Timer |-> w(t)]
      BY <1>8 DEF Tick
    <3> HIDE DEF w
    <3>3. QED
      BY <3>1, <3>2
  <2>2. /\ now' \in Nat \ {0}
        /\ UNCHANGED <<timers, enabled, away, queue, sent, app, calls>>
    <3>1. now \in Nat \ {0} /\ now' = now + 1
      BY <1>8 DEF Tick, TypeOK
    <3>2. now' \in Nat \ {0}
      BY <3>1
    <3>3. QED
      BY <1>8, <3>2 DEF Tick
  <2>3. QED
    BY <2>1, <2>2 DEF TypeOK
<1>9. QED
  BY <1>1, <1>2, <1>3, <1>4, <1>5, <1>6, <1>7, <1>8

(***************************************************************************)
(* Every reachable state is well typed; in particular no duration is ever  *)
(* negative, whatever the order of the times that durationFrom:to: gets.   *)
(***************************************************************************)
THEOREM TypeCorrect == Spec => []TypeOK
<1>1. Init => TypeOK
  <2> SUFFICES ASSUME Init PROVE TypeOK
    OBVIOUS
  <2>1. DOMAIN timers \subseteq Timer /\ timers \in [DOMAIN timers -> Counter]
    BY DEF Init
  <2>2. watch \in [Timer -> Watch]
    BY DEF Init, Watch, Mode
  <2>3. queue \in Seq(Block) /\ sent \in Seq(Event)
    BY DEF Init
  <2>4. /\ enabled \in BOOLEAN /\ away \in BOOLEAN
        /\ app \in App
    BY DEF Init, App
  <2>5. now \in Nat \ {0} /\ calls \in Nat
    BY DEF Init
  <2>6. QED
    BY <2>1, <2>2, <2>3, <2>4, <2>5 DEF TypeOK
<1>2. TypeOK /\ [Next]_vars => TypeOK'
  <2>1. ASSUME TypeOK, UNCHANGED vars PROVE TypeOK'
    BY <2>1 DEF TypeOK, vars, env
  <2>2. QED
    BY <2>1, BlockSteps, CallSteps DEF Next
<1>3. QED
  BY <1>1, <1>2, PTL DEF Spec

-----------------------------------------------------------------------------
(* While data collection is off no timer exists: what switches it off ends *)
(* them, and a start that comes later tests it again.                      *)
THEOREM DisabledHasNoTimer == Spec => []NoTimerWhileDisabled
<1>1. Init => NoTimerWhileDisabled
  BY DEF Init, NoTimerWhileDisabled
<1>2. NoTimerWhileDisabled /\ [Next]_vars => NoTimerWhileDisabled'
  <2> SUFFICES ASSUME NoTimerWhileDisabled, [Next]_vars, ~enabled' PROVE DOMAIN timers' = {}
    BY DEF NoTimerWhileDisabled
  <2> USE DEF NoTimerWhileDisabled
  <2>1. CASE StartTimer
    BY <2>1 DEF StartTimer
  <2>2. CASE PauseTimer \/ ResumeTimer
    BY <2>2 DEF PauseTimer, ResumeTimer
  <2>3. CASE EndTimer \/ RemoveTimer \/ ClearAllTimers
    BY <2>3 DEF EndTimer, RemoveTimer, ClearAllTimers, Without, NoTimers
  <2>4. ASSUME NEW c \in BOOLEAN, SetDataCollectionEnabled(c) PROVE DOMAIN timers' = {}
    BY <2>4 DEF SetDataCollectionEnabled, NoTimers
  <2>5. CASE WillResignActive \/ HandleAllTimersPause \/ HandleAllTimersResume
    BY <2>5 DEF WillResignActive, HandleAllTimersPause, HandleAllTimersResume
  <2>6. CASE UNCHANGED <<timers, enabled>>
    BY <2>6
  <2>7. QED
    BY <2>1, <2>2, <2>3, <2>4, <2>5, <2>6
       DEF Next, vars, TrackTimerStart, TrackTimerPause, TrackTimerResume, TrackTimerEnd,
           RemoveCall, OtherCall, LifeCycle, Tick, TimerCall, Call
<1>3. QED
  BY <1>1, <1>2, PTL DEF Spec

-----------------------------------------------------------------------------
(* One event per timer.  A timer whose start is queued is known to the app, *)
(* but neither in the table nor in an event; and one in the table is not in *)
(* an event.  An id is given once, so it never gets back to the start.      *)

Known(t)    == t \in Timer /\ watch[t].mode # "none"
Reported(t) == \E k \in DOMAIN sent : sent[k].timer = t
Starts(i)   == i \in DOMAIN queue /\ queue[i].op = "start"

StartsOnce ==
    \A i, j : Starts(i) /\ Starts(j) /\ queue[i].timer = queue[j].timer => i = j
StartsFresh ==
    \A i, t : Starts(i) /\ queue[i].timer = t =>
        Known(t) /\ t \notin DOMAIN timers /\ ~Reported(t)
TimersFresh == \A t \in DOMAIN timers : Known(t) /\ ~Reported(t)
SentKnown   == \A k \in DOMAIN sent : Known(sent[k].timer)

Lives == StartsOnce /\ StartsFresh /\ TimersFresh /\ SentKnown /\ OneEventPerTimer

LEMMA TailIndices ==
    ASSUME NEW S, NEW q \in Seq(S), q # <<>>
    PROVE  \A i \in DOMAIN Tail(q) : i + 1 \in DOMAIN q /\ i + 1 # 1 /\ Tail(q)[i] = q[i + 1]
BY HeadTailProperties

(* A start that still waits after a block was taken waited before. *)
LEMMA StartsAfterRun ==
    ASSUME TypeOK, queue # <<>>, queue' = Tail(queue)
    PROVE  \A i : Starts(i)' => /\ i \in Nat /\ i # 0 /\ Starts(i + 1)
                                /\ queue'[i] = queue[i + 1]
<1> SUFFICES ASSUME NEW i, Starts(i)'
             PROVE  i \in Nat /\ i # 0 /\ Starts(i + 1) /\ queue'[i] = queue[i + 1]
  OBVIOUS
<1>1. queue \in Seq(Block) /\ Tail(queue) \in Seq(Block)
  BY HeadTailProperties DEF TypeOK
<1>2. i \in DOMAIN Tail(queue) /\ Tail(queue)[i].op = "start"
  BY DEF Starts
<1>3. i \in Nat /\ i # 0
  BY <1>1, <1>2
<1>4. QED
  BY <1>1, <1>2, <1>3, TailIndices DEF Starts

LEMMA StartsOnceAfterRun ==
    ASSUME TypeOK, StartsOnce, queue # <<>>, queue' = Tail(queue)
    PROVE  StartsOnce'
<1> SUFFICES ASSUME NEW i, NEW j, Starts(i)', Starts(j)', queue'[i].timer = queue'[j].timer
             PROVE  i = j
  BY DEF StartsOnce
<1>1. i \in Nat /\ Starts(i + 1) /\ queue'[i] = queue[i + 1]
  BY StartsAfterRun
<1>2. j \in Nat /\ Starts(j + 1) /\ queue'[j] = queue[j + 1]
  BY StartsAfterRun
<1>3. i + 1 = j + 1
  BY <1>1, <1>2 DEF StartsOnce
<1>4. QED
  BY <1>1, <1>2, <1>3

(* A block that adds no timer and no event. *)
LEMMA TakeLives ==
    ASSUME TypeOK, Lives, queue # <<>>, queue' = Tail(queue),
           DOMAIN timers' \subseteq DOMAIN timers, UNCHANGED <<sent, watch>>
    PROVE  Lives'
<1>1. \A i : Starts(i)' => /\ i \in Nat /\ i # 0 /\ Starts(i + 1)
                           /\ queue'[i] = queue[i + 1]
  BY StartsAfterRun
<1>2. \A t : (Known(t)' <=> Known(t)) /\ (Reported(t)' <=> Reported(t))
  BY DEF Known, Reported
<1>3. StartsOnce'
  BY StartsOnceAfterRun DEF Lives
<1>4. StartsFresh'
  BY <1>1, <1>2 DEF Lives, StartsFresh
<1>5. TimersFresh' /\ SentKnown' /\ OneEventPerTimer'
  BY <1>2 DEF Lives, TimersFresh, SentKnown, OneEventPerTimer
<1>6. QED
  BY <1>3, <1>4, <1>5 DEF Lives

LEMMA StartLives ==
    ASSUME TypeOK, Lives, StartTimer
    PROVE  Lives'
<1> DEFINE t == Head(queue).timer
<1>1. queue # <<>> /\ queue' = Tail(queue) /\ UNCHANGED <<sent, watch>>
  BY DEF StartTimer, Run, env
<1>2. CASE ~enabled
  BY <1>1, <1>2, TakeLives DEF StartTimer
<1>3. CASE enabled
  <2>1. \A i : Starts(i)' => /\ i \in Nat /\ i # 0 /\ Starts(i + 1)
                             /\ queue'[i] = queue[i + 1]
    BY <1>1, StartsAfterRun
  <2>2. \A u : (Known(u)' <=> Known(u)) /\ (Reported(u)' <=> Reported(u))
    BY <1>1 DEF Known, Reported
  <2>3. Starts(1) /\ queue[1].timer = t
    BY <1>1 DEF StartTimer, Run, Starts, TypeOK
  <2>4. Known(t) /\ ~Reported(t)
    BY <2>3 DEF Lives, StartsFresh
  <2>5. DOMAIN timers' = DOMAIN timers \cup {t}
    BY <1>3 DEF StartTimer, With
  <2> HIDE DEF t
  <2>6. StartsOnce'
    BY <1>1, StartsOnceAfterRun DEF Lives
  <2>7. ASSUME NEW i, NEW u, Starts(i)', queue'[i].timer = u
        PROVE  Known(u)' /\ u \notin DOMAIN timers' /\ ~Reported(u)'
    <3>1. i \in Nat /\ i # 0 /\ Starts(i + 1) /\ queue[i + 1].timer = u
      BY <2>1, <2>7
    <3>2. u # t
      <4>1. i + 1 # 1
        BY <3>1
      <4>2. QED
        BY <2>3, <3>1, <4>1 DEF Lives, StartsOnce
    <3>3. Known(u) /\ u \notin DOMAIN timers /\ ~Reported(u)
      BY <3>1 DEF Lives, StartsFresh
    <3>4. QED
      BY <2>2, <2>5, <3>2, <3>3
  <2>8. StartsFresh'
    BY <2>7 DEF StartsFresh
  <2>9. TimersFresh' /\ SentKnown' /\ OneEventPerTimer'
    BY <1>1, <2>2, <2>4, <2>5 DEF Lives, TimersFresh, SentKnown, OneEventPerTimer
  <2>10. QED
    BY <2>6, <2>8, <2>9 DEF Lives
<1>4. QED
  BY <1>2, <1>3

LEMMA EndLives ==
    ASSUME TypeOK, Lives, EndTimer
    PROVE  Lives'
<1> DEFINE t == Head(queue).timer
           e == [timer |-> t, duration |-> Stop(timers[t], Head(queue).time, 0).duration,
                 watch |-> watch[t]]
<1>1. /\ queue # <<>> /\ queue' = Tail(queue) /\ UNCHANGED watch
      /\ DOMAIN timers' = DOMAIN timers \ {t}
  BY DEF EndTimer, Run, env, Without
<1>2. sent' = sent \/ (t \in DOMAIN timers /\ sent' = Append(sent, e))
  BY DEF EndTimer, Sent
<1>3. e.timer = t
  OBVIOUS
<1> HIDE DEF t, e
<1>4. CASE sent' = sent
  BY <1>1, <1>4, TakeLives
<1>5. CASE t \in DOMAIN timers /\ sent' = Append(sent, e)
  <2>1. \A i : Starts(i)' => /\ i \in Nat /\ i # 0 /\ Starts(i + 1)
                             /\ queue'[i] = queue[i + 1]
    BY <1>1, StartsAfterRun
  <2>2. \A u : Known(u)' <=> Known(u)
    BY <1>1 DEF Known
  <2>3. Known(t) /\ ~Reported(t)
    BY <1>5 DEF Lives, TimersFresh
  <2>4. /\ DOMAIN sent = 1..Len(sent) /\ Len(sent) \in Nat
        /\ DOMAIN sent' = 1..(Len(sent) + 1)
        /\ \A k \in DOMAIN sent : sent'[k] = sent[k]
        /\ sent'[Len(sent) + 1] = e
    BY <1>5 DEF TypeOK
  <2>5. \A k \in DOMAIN sent' : k \in DOMAIN sent \/ sent'[k].timer = t
    BY <1>3, <2>4
  <2>6. \A u : Reported(u)' => Reported(u) \/ u = t
    BY <2>4, <2>5 DEF Reported
  <2>7. StartsOnce'
    BY <1>1, StartsOnceAfterRun DEF Lives
  <2>8. ASSUME NEW i, NEW u, Starts(i)', queue'[i].timer = u
        PROVE  Known(u)' /\ u \notin DOMAIN timers' /\ ~Reported(u)'
    <3>1. Starts(i + 1) /\ queue[i + 1].timer = u
      BY <2>1, <2>8
    <3>2. Known(u) /\ u \notin DOMAIN timers /\ ~Reported(u)
      BY <3>1 DEF Lives, StartsFresh
    <3>3. u # t
      BY <1>5, <3>2
    <3>4. QED
      BY <1>1, <2>2, <2>6, <3>2, <3>3
  <2>9. StartsFresh'
    BY <2>8 DEF StartsFresh
  <2>10. TimersFresh'
    BY <1>1, <2>2, <2>6 DEF Lives, TimersFresh
  <2>11. SentKnown'
    BY <2>2, <2>3, <2>4, <2>5 DEF Lives, SentKnown
  <2>12. OneEventPerTimer'
    <3> SUFFICES ASSUME NEW i \in DOMAIN sent', NEW j \in DOMAIN sent',
                        sent'[i].timer = sent'[j].timer
                 PROVE  i = j
      BY DEF OneEventPerTimer
    <3>1. \A k \in DOMAIN sent : sent[k].timer # t
      BY <2>3 DEF Reported
    <3>2. CASE i \in DOMAIN sent /\ j \in DOMAIN sent
      BY <2>4, <3>2 DEF Lives, OneEventPerTimer
    <3>3. CASE i \notin DOMAIN sent /\ j \notin DOMAIN sent
      BY <2>4, <3>3
    <3>4. CASE i \in DOMAIN sent /\ j \notin DOMAIN sent
      BY <2>4, <2>5, <3>1, <3>4
    <3>5. CASE i \notin DOMAIN sent /\ j \in DOMAIN sent
      BY <2>4, <2>5, <3>1, <3>5
    <3>6. QED
      BY <3>2, <3>3, <3>4, <3>5
  <2>13. QED
    BY <2>7, <2>9, <2>10, <2>11, <2>12 DEF Lives
<1>6. QED
  BY <1>2, <1>4, <1>5

(* A call that queues b; only the start of an unknown timer queues a start. *)
LEMMA CallLives ==
    ASSUME TypeOK, Lives, NEW b \in Block, Call(b),
           \A t : Known(t) => Known(t)',
           b.op = "start" => ~Known(b.timer) /\ Known(b.timer)'
    PROVE  Lives'
<1>1. queue' = Append(queue, b) /\ UNCHANGED <<timers, sent>>
  BY DEF Call
<1>2. \A t : Reported(t)' <=> Reported(t)
  BY <1>1 DEF Reported
<1>3. /\ DOMAIN queue = 1..Len(queue) /\ Len(queue) \in Nat
      /\ DOMAIN queue' = 1..(Len(queue) + 1)
      /\ \A i \in DOMAIN queue : queue'[i] = queue[i]
      /\ queue'[Len(queue) + 1] = b
  BY <1>1 DEF TypeOK
<1>4. \A i : Starts(i)' => \/ Starts(i) /\ queue'[i] = queue[i]
                           \/ i = Len(queue) + 1 /\ queue'[i] = b /\ b.op = "start"
  BY <1>3 DEF Starts
<1>5. \A i : Starts(i) => Known(queue[i].timer)
  BY DEF Lives, StartsFresh
<1>6. StartsOnce'
  <2> SUFFICES ASSUME NEW i, NEW j, Starts(i)', Starts(j)', queue'[i].timer = queue'[j].timer
               PROVE  i = j
    BY DEF StartsOnce
  <2>1. CASE Starts(i) /\ Starts(j) /\ queue'[i] = queue[i] /\ queue'[j] = queue[j]
    BY <2>1 DEF Lives, StartsOnce
  <2>2. QED
    BY <1>4, <1>5, <2>1
<1>7. ASSUME b.op = "start"
      PROVE  b.timer \notin DOMAIN timers /\ ~Reported(b.timer)
  BY <1>7 DEF Lives, TimersFresh, SentKnown, Reported
<1>8. StartsFresh'
  <2> SUFFICES ASSUME NEW i, NEW u, Starts(i)', queue'[i].timer = u
               PROVE  Known(u)' /\ u \notin DOMAIN timers' /\ ~Reported(u)'
    BY DEF StartsFresh
  <2>1. CASE Starts(i) /\ queue'[i] = queue[i]
    BY <1>1, <1>2, <2>1 DEF Lives, StartsFresh
  <2>2. CASE queue'[i] = b /\ b.op = "start"
    BY <1>1, <1>2, <1>7, <2>2
  <2>3. QED
    BY <1>4, <2>1, <2>2
<1>9. TimersFresh' /\ SentKnown' /\ OneEventPerTimer'
  BY <1>1, <1>2 DEF Lives, TimersFresh, SentKnown, OneEventPerTimer
<1>10. QED
  BY <1>6, <1>8, <1>9 DEF Lives

LEMMA LivesStep ==
    ASSUME TypeOK, Lives, Next
    PROVE  Lives'
<1> DEFINE block(op, t) == [op |-> op, timer |-> t, time |-> now]
<1>b. \A op \in TimerOp, t \in Timer :
         /\ block(op, t) \in Block /\ block(op, t).op = op /\ block(op, t).timer = t
  BY DEF TypeOK, Block
<1>w. watch \in [Timer -> Watch]
  BY DEF TypeOK
<1>1. CASE StartTimer
  BY <1>1, StartLives
<1>2. CASE PauseTimer \/ ResumeTimer \/ RemoveTimer \/ ClearAllTimers
  <2>1. queue # <<>> /\ queue' = Tail(queue) /\ UNCHANGED <<sent, watch>>
    BY <1>2 DEF PauseTimer, ResumeTimer, RemoveTimer, ClearAllTimers, Run, env
  <2>2. DOMAIN timers' \subseteq DOMAIN timers
    BY <1>2 DEF PauseTimer, ResumeTimer, RemoveTimer, ClearAllTimers, With, Without, NoTimers
  <2>3. QED
    BY <2>1, <2>2, TakeLives
<1>3. CASE EndTimer
  BY <1>3, EndLives
<1>4. ASSUME NEW c \in BOOLEAN, SetDataCollectionEnabled(c)
      PROVE  Lives'
  <2>1. queue # <<>> /\ queue' = Tail(queue) /\ UNCHANGED <<sent, watch>>
    BY <1>4 DEF SetDataCollectionEnabled, Run, env
  <2>2. DOMAIN timers' \subseteq DOMAIN timers
    BY <1>4 DEF SetDataCollectionEnabled, NoTimers
  <2>3. QED
    BY <2>1, <2>2, TakeLives
<1>5. CASE WillResignActive \/ HandleAllTimersPause \/ HandleAllTimersResume
  <2>1. queue # <<>> /\ queue' = Tail(queue) /\ UNCHANGED <<sent, watch>>
    BY <1>5 DEF WillResignActive, HandleAllTimersPause, HandleAllTimersResume, Run, env
  <2>2. DOMAIN timers' \subseteq DOMAIN timers
    BY <1>5 DEF WillResignActive, HandleAllTimersPause, HandleAllTimersResume
  <2>3. QED
    BY <2>1, <2>2, TakeLives
<1>6. ASSUME NEW t \in Timer, TrackTimerStart(t)
      PROVE  Lives'
  <2>1. Call(block("start", t)) /\ ~Known(t) /\ Known(t)'
    BY <1>6, <1>w DEF TrackTimerStart, TimerCall, Known
  <2>2. \A u : Known(u) => Known(u)'
    BY <1>6, <1>w DEF TrackTimerStart, Known
  <2>3. block("start", t) \in Block /\ block("start", t).timer = t
    BY <1>b DEF TimerOp
  <2> HIDE DEF block
  <2>4. QED
    BY <2>1, <2>2, <2>3, CallLives
<1>7. ASSUME NEW t \in Timer,
             TrackTimerPause(t) \/ TrackTimerResume(t) \/ TrackTimerEnd(t) \/ RemoveCall(t)
      PROVE  Lives'
  <2>1. PICK op \in {"pause", "resume", "end", "remove"} : Call(block(op, t))
    BY <1>7 DEF TrackTimerPause, TrackTimerResume, TrackTimerEnd, RemoveCall, TimerCall
  <2>2. \A u : Known(u) => Known(u)'
    <3> SUFFICES ASSUME NEW u \in Timer, watch[u].mode # "none"
                 PROVE  watch'[u].mode # "none"
      BY DEF Known
    <3>1. watch[u] \in Watch /\ watch[t] \in Watch
      BY <1>w
    <3>2. CASE TrackTimerPause(t) \/ TrackTimerResume(t)
      BY <1>w, <3>1, <3>2 DEF TrackTimerPause, TrackTimerResume, Watch
    <3>3. CASE TrackTimerEnd(t) \/ RemoveCall(t)
      BY <1>w, <3>1, <3>3 DEF TrackTimerEnd, RemoveCall, Watch
    <3>4. QED
      BY <1>7, <3>2, <3>3
  <2>3. block(op, t) \in Block /\ block(op, t).op # "start"
    BY <1>b DEF TimerOp
  <2> HIDE DEF block
  <2>4. QED
    BY <2>1, <2>2, <2>3, CallLives
<1>8. CASE OtherCall \/ LifeCycle
  <2>1. PICK op \in {"clear", "enable", "disable", "become", "resign", "background"} :
           Call([op |-> op])
    BY <1>8 DEF OtherCall, LifeCycle
  <2>2. \A u : Known(u) => Known(u)'
    <3>1. CASE UNCHANGED watch
      BY <3>1 DEF Known
    <3>2. CASE LifeCycle
      <4> SUFFICES ASSUME NEW u \in Timer
                   PROVE  watch'[u].mode = watch[u].mode
        BY DEF Known
      <4>1. watch[u] \in Watch
        BY <1>w
      <4> DEFINE c == watch[u].cut \/ (app = "inactive" /\ watch[u].mode = "running")
      <4>2. watch' = watch \/ watch'[u] = [watch[u] EXCEPT !.cut = c]
        BY <3>2 DEF LifeCycle
      <4> HIDE DEF c
      <4>3. QED
        BY <4>1, <4>2 DEF Watch
    <3>3. QED
      BY <1>8, <3>1, <3>2 DEF OtherCall
  <2>3. [op |-> op] \in Block /\ [op |-> op].op # "start"
    BY DEF Block, Op
  <2>4. QED
    BY <2>1, <2>2, <2>3, CallLives
<1>9. CASE Tick
  <2>1. UNCHANGED <<timers, queue, sent>>
    BY <1>9 DEF Tick
  <2>2. \A u : Known(u) => Known(u)'
    <3> SUFFICES ASSUME NEW u \in Timer
                 PROVE  watch'[u].mode = watch[u].mode
      BY DEF Known
    <3>1. watch[u] \in Watch
      BY <1>w
    <3>2. \E r, l : watch'[u] = [watch[u] EXCEPT !.ran = r, !.late = l]
      BY <1>9 DEF Tick
    <3>3. QED
      BY <3>1, <3>2 DEF Watch
  <2>3. \A i : Starts(i)' <=> Starts(i)
    BY <2>1 DEF Starts
  <2>4. \A u : Reported(u)' <=> Reported(u)
    BY <2>1 DEF Reported
  <2>5. QED
    BY <2>1, <2>2, <2>3, <2>4
       DEF Lives, StartsOnce, StartsFresh, TimersFresh, SentKnown, OneEventPerTimer
<1>10. QED
  BY <1>1, <1>2, <1>3, <1>4, <1>5, <1>6, <1>7, <1>8, <1>9 DEF Next

(***************************************************************************)
(* A timer yields one event at most, for any number of timers and calls:   *)
(* what ends it removes it, and nothing else brings it back.               *)
(***************************************************************************)
THEOREM EndsOnce == Spec => []OneEventPerTimer
<1>1. Init => Lives
  BY DEF Init, Lives, StartsOnce, StartsFresh, Starts, TimersFresh, SentKnown, OneEventPerTimer
<1>2. TypeOK /\ Lives /\ [Next]_vars => Lives'
  <2>1. ASSUME Lives, UNCHANGED vars PROVE Lives'
    BY <2>1 DEF vars, env, Lives, StartsOnce, StartsFresh, Starts, TimersFresh, SentKnown,
                OneEventPerTimer, Known, Reported
  <2>2. QED
    BY <2>1, LivesStep
<1>3. Lives => OneEventPerTimer
  BY DEF Lives
<1>4. QED
  BY <1>1, <1>2, <1>3, TypeCorrect, PTL DEF Spec

-----------------------------------------------------------------------------
(* Durations.  A mark of a timer foretells it after some of the queued      *)
(* blocks: its phase, and bounds hp, lp on what it has counted and hq, lq   *)
(* on what it has counted less its start.  A block that reads the clock     *)
(* when it runs is foretold as if it ran now; a tick moves the bounds apart *)
(* by one for each such block.                                              *)

Phase == {"none", "running", "paused"}
Mark  == [phase : Phase, col : BOOLEAN, away : BOOLEAN,
          hp : Int, hq : Int, lp : Int, lq : Int]

Own(b, t, op)  == b.op = op /\ b.timer = t
Opens(b, t, x) == Own(b, t, "start") /\ x.col
Anew(b, t, x)  == \/ Own(b, t, "resume") /\ x.phase = "paused"
                  \/ b.op = "become" /\ x.away /\ x.phase = "running"
Adds(b, t, x)  == /\ Own(b, t, "pause") \/ Own(b, t, "end") \/ b.op = "background"
                  /\ x.phase = "running"
Time(b)        == IF b.op \in {"become", "background"} THEN now ELSE b.time

PhaseAfter(b, t, x) ==
    IF Opens(b, t, x) THEN "running"
    ELSE IF \/ x.phase = "none" \/ b.op = "clear" \/ (b.op = "disable" /\ x.col)
            \/ Own(b, t, "end") \/ Own(b, t, "remove") THEN "none"
    ELSE IF Own(b, t, "pause") THEN "paused"
    ELSE IF Own(b, t, "resume") THEN "running"
    ELSE x.phase

(* What the block b of a timer makes of the bounds. *)
Counts(b, t, x, y) ==
    /\ Opens(b, t, x) => y.hp >= 0 /\ y.lp <= 0 /\ y.hq >= -b.time /\ y.lq <= -b.time
    /\ x.phase # "none" /\ ~Opens(b, t, x) =>
        /\ y.hp >= x.hp
        /\ Adds(b, t, x) => y.hp >= x.hq + Time(b)
        /\ y.lp <= x.lp \/ (Adds(b, t, x) /\ y.lp <= x.lq + Time(b))
        /\ Anew(b, t, x) => y.hq >= x.hp - Time(b) /\ y.lq <= x.lp - Time(b)
        /\ ~Anew(b, t, x) =>
            /\ y.hq >= x.hq
            /\ b.op = "background" => y.hq >= x.hp - Time(b)
            /\ y.lq <= x.lq \/ (b.op = "background" /\ y.lq <= x.lp - Time(b))

Leads(b, t, x, y) ==
    /\ y.phase = PhaseAfter(b, t, x)
    /\ y.col <=> (b.op = "enable" \/ (x.col /\ b.op # "disable"))
    /\ y.away <=> (x.away \/ b.op \in {"resign", "background"})
    /\ Counts(b, t, x, y)

(* The mark x describes the timer as it is. *)
Calm(t) == ~watch[t].behind /\ ~watch[t].cut
Short(t) == ~watch[t].behind /\ watch[t].ran + watch[t].late < Day

Measured(t, x, r) ==
    /\ r.duration <= x.hp
    /\ r.start # 0 => r.duration - r.start <= x.hq
    /\ Short(t) => /\ x.lp <= r.duration
                   /\ r.start # 0 => x.lq <= r.duration - r.start

Linked(t, x) ==
    /\ x.col <=> enabled
    /\ x.away <=> away
    /\ t \notin DOMAIN timers <=> x.phase = "none"
    /\ t \in DOMAIN timers => /\ timers[t].start = 0 <=> x.phase = "paused"
                              /\ Measured(t, x, timers[t])

(* No mark has counted too much, and an end that waits counts enough. *)
Within(t, x) ==
    /\ ~watch[t].behind => x.hp <= watch[t].ran + watch[t].late
    /\ watch[t].mode = "none" => x.phase = "none"

EndsWell(t, x, y) ==
    /\ watch[t].mode = "ended"
    /\ x.phase # "none" /\ Calm(t) => y.lp + watch[t].late >= watch[t].ran

(* The last mark is where the app's calls have brought the timer. *)
Counting(x) == x.phase = "running" /\ app \notin Hidden

Final(t, x) ==
    /\ watch[t].mode \in {"none", "ended"} => x.phase = "none"
    /\ watch[t].mode = "running" => x.phase # "paused"
    /\ watch[t].mode = "paused" => x.phase # "running"
    /\ Counting(x) /\ ~watch[t].behind => x.hq + now <= watch[t].ran + watch[t].late
    /\ Counting(x) /\ Calm(t) => x.lq + now + watch[t].late >= watch[t].ran
    /\ x.phase # "none" /\ ~Counting(x) /\ Calm(t) => x.lp + watch[t].late >= watch[t].ran
    /\ app = "background" => x.away
    /\ app = "launched" => ~x.away

Course(t, tr) ==
    /\ Linked(t, tr[0])
    /\ \A i \in 1..Len(queue) : Leads(queue[i], t, tr[i - 1], tr[i])
    /\ \A i \in 0..Len(queue) : Within(t, tr[i])
    /\ \A i \in 1..Len(queue) : Own(queue[i], t, "end") => EndsWell(t, tr[i - 1], tr[i])
    /\ Final(t, tr[Len(queue)])

Unhidden(t) == app = "hidden" /\ watch[t].mode # "none" => watch[t].behind

Meter(t) ==
    /\ \E tr \in [0..Len(queue) -> Mark] : Course(t, tr)
    /\ watch[t].mode = "none" => ~watch[t].behind /\ watch[t].ran = 0
    /\ Unhidden(t)

Stamped == \A i \in DOMAIN queue : queue[i].op \in TimerOp => queue[i].time # 0

Metered == Stamped /\ CountsForeground /\ \A t \in Timer : Meter(t)

(* A stretch that ends at time, between bounds. *)
LEMMA StretchBelow ==
    ASSUME NEW r \in Counter, r.start # 0, NEW time \in Nat, NEW next \in Nat,
           NEW h \in Int, r.duration <= h, r.duration - r.start + time <= h
    PROVE  Stop(r, time, next).duration <= h
<1>1. r.start \in Nat /\ r.duration \in Nat /\ Day \in Nat
  BY EventTimerAssumption DEF Counter
<1>2. Stop(r, time, next).duration = r.duration + DurationFrom(r.start, time)
  BY DEF Stop
<1>3. DurationFrom(r.start, time) = 0 \/ DurationFrom(r.start, time) = time - r.start
  BY DEF DurationFrom
<1>4. QED
  BY <1>1, <1>2, <1>3

LEMMA StretchAbove ==
    ASSUME NEW r \in Counter, r.start # 0, NEW time \in Nat, NEW next \in Nat,
           NEW l \in Int, l <= r.duration \/ l <= r.duration - r.start + time,
           time - r.start < Day
    PROVE  l <= Stop(r, time, next).duration
<1>1. r.start \in Nat /\ r.duration \in Nat /\ Day \in Nat
  BY EventTimerAssumption DEF Counter
<1>2. Stop(r, time, next).duration = r.duration + DurationFrom(r.start, time)
  BY DEF Stop
<1>3. r.start > 0
  BY <1>1
<1>4. IF time - r.start > 0 THEN DurationFrom(r.start, time) = time - r.start
      ELSE DurationFrom(r.start, time) = 0
  BY <1>3 DEF DurationFrom
<1>5. QED
  BY <1>1, <1>2, <1>4

(* What has been added when a running timer stops is between the bounds h  *)
(* and l: they allow for the stretch, and no stretch of 24 hours fits.     *)
LEMMA StopMeasured ==
    ASSUME TypeOK, NEW t \in Timer, t \in DOMAIN timers, timers[t].start # 0,
           NEW x \in Mark, NEW y \in Mark, Measured(t, x, timers[t]), Within(t, y),
           NEW time \in Nat, NEW next \in Nat,
           y.hp >= x.hp, y.hp >= x.hq + time,
           NEW h \in Int, h >= x.hp, h >= x.hq + time,
           NEW l \in Int, l <= x.lp \/ l <= x.lq + time
    PROVE  /\ Stop(timers[t], time, next).duration <= h
           /\ Short(t) => l <= Stop(timers[t], time, next).duration
<1> DEFINE r == timers[t]
<1>1. /\ r \in Counter /\ r.start \in Nat /\ r.duration \in Nat /\ Day \in Nat
      /\ watch[t].ran \in Nat /\ watch[t].late \in Nat
  BY EventTimerAssumption DEF TypeOK, Counter, Watch
<1>2. /\ x.hp \in Int /\ x.hq \in Int /\ x.lp \in Int /\ x.lq \in Int
      /\ y.hp \in Int /\ y.lp \in Int
  BY DEF Mark
<1>3. r.duration <= x.hp /\ r.duration - r.start <= x.hq
  BY DEF Measured
<1>4. Short(t) => x.lp <= r.duration /\ x.lq <= r.duration - r.start
  BY DEF Measured
<1>5. Short(t) => y.hp < Day
  BY <1>1, <1>2 DEF Short, Within
<1>6. r.start # 0
  OBVIOUS
<1> HIDE DEF r
<1>7. /\ r.duration <= y.hp /\ r.duration - r.start + time <= y.hp
      /\ r.duration <= h /\ r.duration - r.start + time <= h
  BY <1>1, <1>2, <1>3
<1>8. Stop(r, time, next).duration <= h
  BY <1>1, <1>2, <1>6, <1>7, StretchBelow
<1>9. ASSUME Short(t)
      PROVE  l <= Stop(r, time, next).duration
  <2>1. time - r.start < Day
    BY <1>1, <1>2, <1>5, <1>7, <1>9
  <2>2. l <= r.duration \/ l <= r.duration - r.start + time
    BY <1>1, <1>2, <1>4, <1>9
  <2>3. QED
    BY <1>1, <1>2, <1>6, <2>1, <2>2, StretchAbove
<1>10. QED
  BY <1>8, <1>9 DEF r

(* A block that neither starts, ends nor touches the timer. *)
LEMMA Unmoved ==
    ASSUME NEW t \in Timer, NEW x \in Mark, NEW y \in Mark, NEW r \in Counter,
           Measured(t, x, r),
           y.hp >= x.hp, y.lp <= x.lp, r.start # 0 => y.hq >= x.hq /\ y.lq <= x.lq
    PROVE  Measured(t, y, r)
<1>1. r.start \in Nat /\ r.duration \in Nat
  BY DEF Counter
<1>2. /\ x.hp \in Int /\ x.hq \in Int /\ x.lp \in Int /\ x.lq \in Int
      /\ y.hp \in Int /\ y.hq \in Int /\ y.lp \in Int /\ y.lq \in Int
  BY DEF Mark
<1>3. r.duration <= y.hp /\ (r.start # 0 => r.duration - r.start <= y.hq)
  BY <1>1, <1>2 DEF Measured
<1>4. Short(t) => y.lp <= r.duration /\ (r.start # 0 => y.lq <= r.duration - r.start)
  BY <1>1, <1>2 DEF Measured
<1>5. QED
  BY <1>3, <1>4 DEF Measured

(* A block that leaves timer t with the counter r. *)
LEMMA LinkedBy ==
    ASSUME NEW t \in Timer, NEW y \in Mark, NEW r \in Counter,
           t \in DOMAIN timers', timers'[t] = r, Measured(t, y, r), UNCHANGED watch,
           y.phase = IF r.start = 0 THEN "paused" ELSE "running",
           y.col <=> enabled', y.away <=> away'
    PROVE  Linked(t, y)'
<1>1. Measured(t, y, r)'
  BY DEF Measured, Short
<1>2. QED
  BY <1>1 DEF Linked

LEMMA LinkedIdle ==
    ASSUME TypeOK, TypeOK', NEW t \in Timer, NEW x \in Mark, NEW y \in Mark, NEW b,
           Linked(t, x), Leads(b, t, x, y), UNCHANGED watch,
           ~Opens(b, t, x), ~Adds(b, t, x), ~Anew(b, t, x), y.phase = x.phase,
           b.op # "background" \/ x.phase = "paused" \/ x.phase = "none",
           t \in DOMAIN timers' <=> t \in DOMAIN timers,
           t \in DOMAIN timers => timers'[t] = timers[t],
           y.col <=> enabled', y.away <=> away'
    PROVE  Linked(t, y)'
<1>1. CASE t \notin DOMAIN timers
  BY <1>1 DEF Linked
<1>2. CASE t \in DOMAIN timers
  <2>1. x.phase # "none" /\ timers[t] \in Counter
    BY <1>2 DEF Linked, TypeOK
  <2>2. y.hp >= x.hp /\ y.lp <= x.lp
    BY <2>1 DEF Leads, Counts
  <2>3. timers[t].start # 0 => y.hq >= x.hq /\ y.lq <= x.lq
    BY <1>2, <2>1 DEF Leads, Counts, Linked
  <2>4. Measured(t, y, timers[t])
    BY <1>2, <2>1, <2>2, <2>3, Unmoved DEF Linked
  <2>5. y.phase = IF timers[t].start = 0 THEN "paused" ELSE "running"
    BY <1>2, <2>1 DEF Linked, Mark, Phase
  <2>6. QED
    BY <1>2, <2>1, <2>4, <2>5, LinkedBy
<1>3. QED
  BY <1>1, <1>2

(* A block that leaves no timer t. *)
LEMMA LinkedGone ==
    ASSUME NEW t \in Timer, NEW y \in Mark, t \notin DOMAIN timers', y.phase = "none",
           y.col <=> enabled', y.away <=> away'
    PROVE  Linked(t, y)'
BY DEF Linked

LEMMA LinkedStart ==
    ASSUME TypeOK, TypeOK', Stamped, StartTimer,
           NEW t \in Timer, NEW x \in Mark, NEW y \in Mark,
           Linked(t, x), Leads(Head(queue), t, x, y), Within(t, y)
    PROVE  Linked(t, y)'
<1> DEFINE b == Head(queue)
<1>1. /\ b \in Block /\ b.op = "start" /\ UNCHANGED <<enabled, away, watch, now>>
      /\ b = queue[1] /\ 1 \in DOMAIN queue
  BY RunType DEF StartTimer, Run, env, TypeOK
<1>2. b.timer \in Timer /\ b.time \in Nat /\ b.time # 0
  BY <1>1, BlockFields DEF TimerOp, Stamped
<1>3. (y.col <=> enabled') /\ (y.away <=> away')
  BY <1>1 DEF Leads, Linked
<1> HIDE DEF b
<1>4. CASE b.timer = t /\ enabled
  <2>1. Opens(b, t, x)
    BY <1>1, <1>4 DEF Opens, Own, Linked
  <2>2. /\ y.phase = "running"
        /\ y.hp >= 0 /\ y.lp <= 0 /\ y.hq >= -b.time /\ y.lq <= -b.time
    BY <2>1 DEF Leads, Counts, PhaseAfter, b
  <2>3. timers' = With(t, [start |-> b.time, duration |-> 0])
    BY <1>4 DEF StartTimer, b
  <2>4. t \in DOMAIN timers' /\ timers'[t] = [start |-> b.time, duration |-> 0]
    BY <2>3 DEF With
  <2>5. Measured(t, y, timers'[t])
    BY <1>2, <2>2, <2>4 DEF Measured, Mark
  <2>6. timers'[t] \in Counter
    BY <2>4 DEF TypeOK
  <2>7. QED
    BY <1>1, <1>2, <1>3, <2>2, <2>4, <2>5, <2>6, LinkedBy
<1>5. CASE ~(b.timer = t /\ enabled)
  <2>1. ~Opens(b, t, x)
    BY <1>1, <1>5 DEF Opens, Own, Linked
  <2>2. ~Adds(b, t, x) /\ ~Anew(b, t, x) /\ y.phase = x.phase
    BY <1>1, <2>1 DEF Adds, Anew, Own, Leads, PhaseAfter, b
  <2>3. /\ t \in DOMAIN timers' <=> t \in DOMAIN timers
        /\ t \in DOMAIN timers => timers'[t] = timers[t]
    BY <1>5 DEF StartTimer, With, b
  <2>4. QED
    BY <1>1, <1>3, <2>1, <2>2, <2>3, LinkedIdle DEF b
<1>6. QED
  BY <1>4, <1>5

LEMMA LinkedPause ==
    ASSUME TypeOK, TypeOK', PauseTimer,
           NEW t \in Timer, NEW x \in Mark, NEW y \in Mark,
           Linked(t, x), Leads(Head(queue), t, x, y), Within(t, y)
    PROVE  Linked(t, y)'
<1> DEFINE b == Head(queue)
<1>1. b \in Block /\ b.op = "pause" /\ UNCHANGED <<enabled, away, watch, now>>
  BY RunType DEF PauseTimer, Run, env
<1>2. b.timer \in Timer /\ b.time \in Nat
  BY <1>1, BlockFields DEF TimerOp
<1>3. (y.col <=> enabled') /\ (y.away <=> away')
  BY <1>1 DEF Leads, Linked
<1>4. ~Opens(b, t, x) /\ ~Anew(b, t, x) /\ (Adds(b, t, x) <=> b.timer = t /\ x.phase = "running")
  BY <1>1 DEF Opens, Anew, Adds, Own
<1>5. y.phase = IF b.timer = t /\ x.phase = "running" THEN "paused" ELSE x.phase
  BY <1>1, <1>4 DEF Leads, PhaseAfter, Own, Mark, Phase
<1>6. Time(b) = b.time
  BY <1>1 DEF Time
<1>7. CASE b.timer = t /\ x.phase = "running"
  <2>1. t \in DOMAIN timers /\ timers[t].start # 0 /\ Measured(t, x, timers[t])
    BY <1>7 DEF Linked
  <2>2. /\ y.hp >= x.hp /\ y.hp >= x.hq + b.time
        /\ y.lp <= x.lp \/ y.lp <= x.lq + b.time
    BY <1>4, <1>6, <1>7 DEF Leads, Counts
  <2>3. timers' = With(t, Stop(timers[t], b.time, 0))
    BY <1>7, <2>1 DEF PauseTimer, IsPaused
  <2>4. t \in DOMAIN timers' /\ timers'[t] = Stop(timers[t], b.time, 0)
    BY <2>3 DEF With
  <2> HIDE DEF b
  <2>5. /\ Stop(timers[t], b.time, 0).duration <= y.hp
        /\ Short(t) => y.lp <= Stop(timers[t], b.time, 0).duration
    BY <1>2, <2>1, <2>2, StopMeasured DEF Mark
  <2>6. timers'[t].start = 0
    BY <2>4 DEF Stop
  <2>7. Measured(t, y, timers'[t])
    BY <2>4, <2>5, <2>6 DEF Measured
  <2>8. timers'[t] \in Counter
    BY <2>4 DEF TypeOK
  <2>9. QED
    BY <1>1, <1>3, <1>5, <1>7, <2>4, <2>6, <2>7, <2>8, LinkedBy
<1>8. CASE ~(b.timer = t /\ x.phase = "running")
  <2>1. /\ t \in DOMAIN timers' <=> t \in DOMAIN timers
        /\ t \in DOMAIN timers => timers'[t] = timers[t]
    <3>1. CASE b.timer # t
      BY <3>1 DEF PauseTimer, With
    <3>2. CASE b.timer = t
      <4>1. t \notin DOMAIN timers \/ IsPaused(timers[t])
        BY <1>8, <3>2 DEF Linked, Mark, Phase, IsPaused
      <4>2. QED
        BY <3>2, <4>1 DEF PauseTimer
    <3>3. QED
      BY <3>1, <3>2
  <2>2. ~Adds(b, t, x) /\ y.phase = x.phase /\ b.op # "background"
    BY <1>1, <1>4, <1>5, <1>8
  <2>3. QED
    BY <1>1, <1>3, <1>4, <2>1, <2>2, LinkedIdle
<1>9. QED
  BY <1>7, <1>8

LEMMA LinkedResume ==
    ASSUME TypeOK, TypeOK', Stamped, ResumeTimer,
           NEW t \in Timer, NEW x \in Mark, NEW y \in Mark,
           Linked(t, x), Leads(Head(queue), t, x, y), Within(t, y)
    PROVE  Linked(t, y)'
<1> DEFINE b == Head(queue)
<1>1. /\ b \in Block /\ b.op = "resume" /\ UNCHANGED <<enabled, away, watch, now>>
      /\ b = queue[1] /\ 1 \in DOMAIN queue
  BY RunType DEF ResumeTimer, Run, env, TypeOK
<1>2. b.timer \in Timer /\ b.time \in Nat /\ b.time # 0
  BY <1>1, BlockFields DEF TimerOp, Stamped
<1>3. (y.col <=> enabled') /\ (y.away <=> away')
  BY <1>1 DEF Leads, Linked
<1>4. ~Opens(b, t, x) /\ ~Adds(b, t, x) /\ (Anew(b, t, x) <=> b.timer = t /\ x.phase = "paused")
  BY <1>1 DEF Opens, Anew, Adds, Own
<1>5. y.phase = IF b.timer = t /\ x.phase = "paused" THEN "running" ELSE x.phase
  BY <1>1, <1>4 DEF Leads, PhaseAfter, Own, Mark, Phase
<1>6. Time(b) = b.time
  BY <1>1 DEF Time
<1>7. CASE b.timer = t /\ x.phase = "paused"
  <2>1. t \in DOMAIN timers /\ timers[t].start = 0 /\ Measured(t, x, timers[t])
    BY <1>7 DEF Linked
  <2>2. timers[t] \in Counter
    BY <2>1 DEF TypeOK
  <2>3. /\ y.hp >= x.hp /\ y.lp <= x.lp
        /\ y.hq >= x.hp - b.time /\ y.lq <= x.lp - b.time
    BY <1>4, <1>6, <1>7 DEF Leads, Counts
  <2>4. timers' = With(t, [timers[t] EXCEPT !.start = b.time])
    BY <1>7, <2>1 DEF ResumeTimer, IsPaused
  <2>5. /\ t \in DOMAIN timers'
        /\ timers'[t].start = b.time /\ timers'[t].duration = timers[t].duration
    BY <2>2, <2>4 DEF With, Counter
  <2> HIDE DEF b
  <2>6. Measured(t, y, timers'[t])
    <3>1. /\ x.hp \in Int /\ x.lp \in Int /\ y.hp \in Int /\ y.hq \in Int
          /\ y.lp \in Int /\ y.lq \in Int /\ timers[t].duration \in Nat
      BY <2>2 DEF Mark, Counter
    <3>2. /\ timers[t].duration <= x.hp
          /\ Short(t) => x.lp <= timers[t].duration
      BY <2>1 DEF Measured
    <3>3. /\ timers'[t].duration <= y.hp /\ timers'[t].duration - timers'[t].start <= y.hq
          /\ Short(t) => /\ y.lp <= timers'[t].duration
                         /\ y.lq <= timers'[t].duration - timers'[t].start
      BY <1>2, <2>3, <2>5, <3>1, <3>2
    <3>4. QED
      BY <3>3 DEF Measured
  <2>7. timers'[t] \in Counter
    BY <2>5 DEF TypeOK
  <2>8. QED
    BY <1>1, <1>2, <1>3, <1>5, <1>7, <2>5, <2>6, <2>7, LinkedBy
<1>8. CASE ~(b.timer = t /\ x.phase = "paused")
  <2>1. /\ t \in DOMAIN timers' <=> t \in DOMAIN timers
        /\ t \in DOMAIN timers => timers'[t] = timers[t]
    BY <1>8 DEF ResumeTimer, With, IsPaused, Linked
  <2>2. ~Anew(b, t, x) /\ y.phase = x.phase /\ b.op # "background"
    BY <1>1, <1>4, <1>5, <1>8
  <2>3. QED
    BY <1>1, <1>3, <1>4, <2>1, <2>2, LinkedIdle
<1>9. QED
  BY <1>7, <1>8

LEMMA LinkedLeft ==
    ASSUME TypeOK, TypeOK', EndTimer \/ RemoveTimer \/ ClearAllTimers,
           NEW t \in Timer, NEW x \in Mark, NEW y \in Mark,
           Linked(t, x), Leads(Head(queue), t, x, y)
    PROVE  Linked(t, y)'
<1> DEFINE b == Head(queue)
<1>1. b.op \in {"end", "remove", "clear"} /\ UNCHANGED <<enabled, away, watch, now>>
  BY RunType DEF EndTimer, RemoveTimer, ClearAllTimers, Run, env
<1>2. (y.col <=> enabled') /\ (y.away <=> away')
  BY <1>1 DEF Leads, Linked
<1>4. ~Opens(b, t, x) /\ ~Anew(b, t, x)
  BY <1>1 DEF Opens, Anew, Own
<1>5. CASE b.op = "clear" \/ b.timer = t
  <2>1. t \notin DOMAIN timers'
    BY <1>1, <1>5
       DEF EndTimer, RemoveTimer, ClearAllTimers, Run, Without, NoTimers
  <2>2. y.phase = "none"
    BY <1>1, <1>4, <1>5 DEF Leads, PhaseAfter, Own
  <2>3. QED
    BY <1>2, <2>1, <2>2, LinkedGone
<1>6. CASE b.op # "clear" /\ b.timer # t
  <2>1. /\ t \in DOMAIN timers' <=> t \in DOMAIN timers
        /\ t \in DOMAIN timers => timers'[t] = timers[t]
    BY <1>6 DEF EndTimer, RemoveTimer, ClearAllTimers, Run, Without
  <2>2. ~Adds(b, t, x) /\ y.phase = x.phase /\ b.op # "background"
    BY <1>1, <1>4, <1>6 DEF Adds, Own, Leads, PhaseAfter
  <2>3. QED
    BY <1>1, <1>2, <1>4, <2>1, <2>2, LinkedIdle
<1>7. QED
  BY <1>5, <1>6

LEMMA LinkedSwitch ==
    ASSUME TypeOK, TypeOK', NEW c \in BOOLEAN, SetDataCollectionEnabled(c),
           NEW t \in Timer, NEW x \in Mark, NEW y \in Mark,
           Linked(t, x), Leads(Head(queue), t, x, y)
    PROVE  Linked(t, y)'
<1> DEFINE b == Head(queue)
<1>1. /\ b.op = (IF c THEN "enable" ELSE "disable") /\ (enabled' <=> c)
      /\ UNCHANGED <<away, watch, now>>
  BY RunType DEF SetDataCollectionEnabled, Run, env
<1>2. (y.col <=> enabled') /\ (y.away <=> away')
  BY <1>1 DEF Leads, Linked
<1>3. ~Opens(b, t, x) /\ ~Adds(b, t, x) /\ ~Anew(b, t, x)
  BY <1>1 DEF Opens, Adds, Anew, Own
<1>4. CASE enabled /\ ~c
  <2>1. t \notin DOMAIN timers'
    BY <1>4 DEF SetDataCollectionEnabled, NoTimers
  <2>2. y.phase = "none"
    BY <1>1, <1>3, <1>4 DEF Leads, PhaseAfter, Linked
  <2>3. QED
    BY <1>2, <2>1, <2>2, LinkedGone
<1>5. CASE ~(enabled /\ ~c)
  <2>1. timers' = timers
    BY <1>5 DEF SetDataCollectionEnabled
  <2>2. y.phase = x.phase /\ b.op # "background"
    BY <1>1, <1>3, <1>5 DEF Own, Leads, PhaseAfter, Linked
  <2>3. QED
    BY <1>1, <1>2, <1>3, <2>1, <2>2, LinkedIdle
<1>6. QED
  BY <1>4, <1>5

LEMMA LinkedLifeCycle ==
    ASSUME TypeOK, TypeOK', WillResignActive \/ HandleAllTimersPause \/ HandleAllTimersResume,
           NEW t \in Timer, NEW x \in Mark, NEW y \in Mark,
           Linked(t, x), Leads(Head(queue), t, x, y), Within(t, y)
    PROVE  Linked(t, y)'
<1> DEFINE b == Head(queue)
<1>1. UNCHANGED <<enabled, watch, now>> /\ now \in Nat \ {0}
  BY DEF WillResignActive, HandleAllTimersPause, HandleAllTimersResume, Run, env, TypeOK
<1>2. b.op \in {"resign", "background", "become"}
  BY DEF WillResignActive, HandleAllTimersPause, HandleAllTimersResume, Run
<1>3. (y.col <=> enabled') /\ (y.away <=> away')
  BY <1>1, <1>2 DEF Leads, Linked, WillResignActive, HandleAllTimersPause,
                    HandleAllTimersResume, Run
<1>4. ~Opens(b, t, x) /\ y.phase = x.phase
  BY <1>2 DEF Opens, Own, Leads, PhaseAfter
<1>5. (Adds(b, t, x) <=> b.op = "background" /\ x.phase = "running")
  BY <1>2 DEF Adds, Own
<1>6. (Anew(b, t, x) <=> b.op = "become" /\ x.away /\ x.phase = "running")
  BY <1>2 DEF Anew, Own
<1>7. t \in DOMAIN timers' <=> t \in DOMAIN timers
  BY DEF WillResignActive, HandleAllTimersPause, HandleAllTimersResume
<1>8. CASE Adds(b, t, x)
  <2>1. t \in DOMAIN timers /\ timers[t].start # 0 /\ Measured(t, x, timers[t])
    BY <1>5, <1>8 DEF Linked
  <2>2. Time(b) = now
    BY <1>5, <1>8 DEF Time
  <2>3. /\ y.hp >= x.hp /\ y.hp >= x.hq + now /\ (y.lp <= x.lp \/ y.lp <= x.lq + now)
        /\ y.hq >= x.hq /\ y.hq >= x.hp - now /\ (y.lq <= x.lq \/ y.lq <= x.lp - now)
    BY <1>4, <1>5, <1>6, <1>8, <2>2 DEF Leads, Counts
  <2>4. timers'[t] = Stop(timers[t], now, now)
    BY <1>5, <1>8, <2>1 DEF WillResignActive, HandleAllTimersPause, HandleAllTimersResume,
                            Run, IsPaused
  <2>5. /\ Stop(timers[t], now, now).duration <= y.hp
        /\ Short(t) => y.lp <= Stop(timers[t], now, now).duration
    BY <1>1, <2>1, <2>3, StopMeasured DEF Mark
  <2>6. timers'[t].start = now /\ timers'[t] \in Counter
    BY <1>7, <2>1, <2>4 DEF Stop, TypeOK
  <2>7. /\ timers'[t].duration - now <= y.hq
        /\ Short(t) => y.lq <= timers'[t].duration - now
    <3>1. /\ x.hp \in Int /\ x.hq \in Int /\ x.lp \in Int /\ x.lq \in Int
          /\ y.hq \in Int /\ y.lq \in Int
      BY DEF Mark
    <3>2. /\ y.hq + now \in Int /\ y.hq + now >= x.hp /\ y.hq + now >= x.hq + now
          /\ y.lq + now \in Int /\ (y.lq + now <= x.lp \/ y.lq + now <= x.lq + now)
      BY <1>1, <2>3, <3>1
    <3>3. /\ Stop(timers[t], now, now).duration <= y.hq + now
          /\ Short(t) => y.lq + now <= Stop(timers[t], now, now).duration
      BY <1>1, <2>1, <2>3, <3>2, StopMeasured
    <3>4. timers'[t].duration \in Nat
      BY <2>6 DEF Counter
    <3>5. QED
      BY <1>1, <2>4, <3>1, <3>3, <3>4
  <2>8. Measured(t, y, timers'[t])
    BY <2>4, <2>5, <2>6, <2>7 DEF Measured
  <2>9. QED
    BY <1>1, <1>3, <1>4, <1>5, <1>7, <1>8, <2>1, <2>6, <2>8, LinkedBy
<1>9. CASE Anew(b, t, x)
  <2>1. t \in DOMAIN timers /\ timers[t].start # 0 /\ Measured(t, x, timers[t])
    BY <1>6, <1>9 DEF Linked
  <2>2. timers[t] \in Counter /\ Time(b) = now
    BY <1>6, <1>9, <2>1 DEF TypeOK, Time
  <2>3. /\ y.hp >= x.hp /\ y.lp <= x.lp /\ y.hq >= x.hp - now /\ y.lq <= x.lp - now
    BY <1>4, <1>5, <1>6, <1>9, <2>2 DEF Leads, Counts
  <2>4. timers'[t] = [timers[t] EXCEPT !.start = now]
    BY <1>6, <1>9, <2>1 DEF WillResignActive, HandleAllTimersPause, HandleAllTimersResume,
                            Run, IsPaused, Linked
  <2>5. /\ timers'[t].start = now /\ timers'[t].duration = timers[t].duration
        /\ timers'[t] \in Counter
    BY <1>7, <2>1, <2>2, <2>4 DEF Counter, TypeOK
  <2>6. Measured(t, y, timers'[t])
    <3>1. /\ x.hp \in Int /\ x.lp \in Int /\ y.hp \in Int /\ y.hq \in Int
          /\ y.lp \in Int /\ y.lq \in Int /\ timers[t].duration \in Nat
      BY <2>2 DEF Mark, Counter
    <3>2. /\ timers[t].duration <= x.hp
          /\ Short(t) => x.lp <= timers[t].duration
      BY <2>1 DEF Measured
    <3>3. /\ timers'[t].duration <= y.hp /\ timers'[t].duration - timers'[t].start <= y.hq
          /\ Short(t) => /\ y.lp <= timers'[t].duration
                         /\ y.lq <= timers'[t].duration - timers'[t].start
      BY <1>1, <2>3, <2>5, <3>1, <3>2
    <3>4. QED
      BY <3>3 DEF Measured
  <2>7. QED
    BY <1>1, <1>3, <1>4, <1>6, <1>7, <1>9, <2>1, <2>5, <2>6, LinkedBy
<1>10. CASE ~Adds(b, t, x) /\ ~Anew(b, t, x)
  <2>1. t \in DOMAIN timers => timers'[t] = timers[t]
    BY <1>5, <1>6, <1>10 DEF WillResignActive, HandleAllTimersPause, HandleAllTimersResume,
                             Run, IsPaused, Linked, Mark, Phase
  <2>2. b.op # "background" \/ x.phase = "paused" \/ x.phase = "none"
    BY <1>5, <1>10 DEF Mark, Phase
  <2>3. QED
    BY <1>1, <1>3, <1>4, <1>7, <1>10, <2>1, <2>2, LinkedIdle
<1>11. QED
  BY <1>8, <1>9, <1>10

LEMMA LeadsSame ==
    ASSUME NEW b, NEW t, NEW x, NEW y, Leads(b, t, x, y), UNCHANGED now
    PROVE  Leads(b, t, x, y)'
BY DEF Leads, Counts, Opens, Adds, Anew, Own, Time, PhaseAfter

(* A block that was taken leaves the marks behind it as they are. *)
LEMMA MeterTaken ==
    ASSUME TypeOK, NEW t \in Timer, Meter(t),
           queue # <<>>, queue' = Tail(queue), UNCHANGED env,
           \A x, y \in Mark :
              Linked(t, x) /\ Leads(Head(queue), t, x, y) /\ Within(t, y) => Linked(t, y)'
    PROVE  Meter(t)'
<1>1. PICK tr \in [0..Len(queue) -> Mark] : Course(t, tr)
  BY DEF Meter
<1>2. PICK n \in Nat : n = Len(queue) - 1
  BY DEF TypeOK
<1>3. /\ Len(queue) = n + 1 /\ Len(queue') = n /\ n + 1 \in Nat
      /\ \A i \in 1..n : queue'[i] = queue[i + 1]
      /\ Head(queue) = queue[1] /\ Len(queue) \in Nat
  BY <1>2, HeadTailProperties DEF TypeOK
<1>4. UNCHANGED <<watch, now, app>>
  BY DEF env
<1>5. PICK q \in [0..n -> Mark] : \A i \in 0..n : q[i] = tr[i + 1]
  <2>1. [i \in 0..n |-> tr[i + 1]] \in [0..n -> Mark]
    BY <1>1, <1>3
  <2>2. QED
    BY <2>1
<1>6. Linked(t, q[0])'
  <2>1. Leads(queue[1], t, tr[0], tr[1]) /\ Within(t, tr[1]) /\ Linked(t, tr[0])
    BY <1>1, <1>3 DEF Course
  <2>2. tr[0] \in Mark /\ tr[1] \in Mark /\ q[0] = tr[1]
    BY <1>1, <1>3, <1>5
  <2>3. Linked(t, tr[1])'
    BY <1>3, <2>1, <2>2
  <2>4. QED
    BY <2>2, <2>3
<1>7. ASSUME NEW i \in 1..n
      PROVE  /\ Leads(queue[i], t, q[i - 1], q[i])'
             /\ (Own(queue[i], t, "end") => EndsWell(t, q[i - 1], q[i]))'
  <2>1. PICK b : b = queue[i + 1]
    OBVIOUS
  <2>2. queue'[i] = b /\ q[i - 1] = tr[i] /\ q[i] = tr[i + 1]
    BY <1>3, <1>5, <2>1
  <2>3. PICK x, y : x = tr[i] /\ y = tr[i + 1]
    OBVIOUS
  <2>4. i + 1 \in 1..Len(queue) /\ (i + 1) - 1 = i
    BY <1>3
  <2>5. Leads(b, t, x, y) /\ (Own(b, t, "end") => EndsWell(t, x, y))
    BY <1>1, <2>1, <2>3, <2>4 DEF Course
  <2>6. Leads(b, t, x, y)'
    BY <1>4, <2>5, LeadsSame
  <2>7. (Own(b, t, "end") => EndsWell(t, x, y))'
    BY <1>4, <2>5 DEF Own, EndsWell, Calm
  <2>8. QED
    BY <2>2, <2>3, <2>6, <2>7
<1>8. ASSUME NEW i \in 0..n PROVE Within(t, q[i])'
  <2>1. Within(t, tr[i + 1]) /\ q[i] = tr[i + 1]
    BY <1>1, <1>3, <1>5 DEF Course
  <2>2. QED
    BY <1>4, <2>1 DEF Within
<1>9. Final(t, q[n])'
  <2>1. Final(t, tr[n + 1]) /\ q[n] = tr[n + 1]
    BY <1>1, <1>3, <1>5 DEF Course
  <2>2. QED
    BY <1>4, <2>1 DEF Final, Counting, Calm
<1>10. Course(t, q)'
  BY <1>3, <1>6, <1>7, <1>8, <1>9 DEF Course
<1>11. QED
  BY <1>3, <1>4, <1>10 DEF Meter, Unhidden

(* The event of a timer that ends is within the bounds of its marks. *)
LEMMA EndCounts ==
    ASSUME TypeOK, CountsForeground, EndTimer, \A t \in Timer : Meter(t)
    PROVE  CountsForeground'
<1> DEFINE b == Head(queue)
           t == b.timer
           d == Stop(timers[t], b.time, 0).duration
           e == [timer |-> t, duration |-> d, watch |-> watch[t]]
<1>1. b \in Block /\ b.op = "end" /\ UNCHANGED <<enabled, away, watch, now>>
  BY RunType DEF EndTimer, Run, env
<1>2. b.timer \in Timer /\ b.time \in Nat
  BY <1>1, BlockFields DEF TimerOp
<1>3. CASE sent' = sent
  BY <1>3 DEF CountsForeground, NoLongerThanForeground, NoShorterThanForeground
<1>4. CASE t \in DOMAIN timers /\ sent' = Append(sent, e)
  <2>1. Meter(t)
    BY <1>2
  <2>2. PICK tr \in [0..Len(queue) -> Mark] : Course(t, tr)
    BY <2>1 DEF Meter
  <2>3. Len(queue) \in Nat /\ Len(queue) >= 1 /\ b = queue[1]
    BY DEF TypeOK, EndTimer, Run
  <2>4. PICK x, y \in Mark : x = tr[0] /\ y = tr[1]
    BY <2>2, <2>3
  <2>5. Linked(t, x) /\ Leads(b, t, x, y) /\ Within(t, y) /\ EndsWell(t, x, y)
    BY <1>1, <2>2, <2>3, <2>4 DEF Course, Own
  <2>6. /\ timers[t] \in Counter /\ Measured(t, x, timers[t]) /\ x.phase # "none"
        /\ timers[t].start # 0 => x.phase = "running"
    BY <1>4, <2>5 DEF TypeOK, Linked, Mark, Phase
  <2>7. /\ ~Opens(b, t, x) /\ ~Anew(b, t, x) /\ Time(b) = b.time
        /\ Adds(b, t, x) <=> x.phase = "running"
    BY <1>1 DEF Opens, Anew, Adds, Own, Time
  <2>8. /\ y.hp >= x.hp /\ (timers[t].start # 0 => y.hp >= x.hq + b.time)
        /\ y.lp <= x.lp \/ (timers[t].start # 0 /\ y.lp <= x.lq + b.time)
    BY <2>5, <2>6, <2>7 DEF Leads, Counts, Linked
  <2>9. /\ y.hp \in Int /\ y.lp \in Int /\ d \in Nat
        /\ watch[t].ran \in Nat /\ watch[t].late \in Nat
        /\ x.hp \in Int /\ x.hq \in Int /\ x.lp \in Int /\ x.lq \in Int
    BY <1>2, <2>6, StopType DEF Mark, TypeOK, Watch, Counter
  <2>10. d <= y.hp /\ (Short(t) => y.lp <= d)
    <3>1. CASE timers[t].start # 0
      BY <1>2, <1>4, <2>5, <2>6, <2>8, <2>9, <3>1, StopMeasured
    <3>2. CASE timers[t].start = 0
      <4>1. d = timers[t].duration
        BY <2>6, <3>2 DEF Stop, DurationFrom, Counter
      <4>2. timers[t].duration \in Nat
        BY <2>6 DEF Counter
      <4> HIDE DEF d
      <4>3. QED
        BY <2>6, <2>8, <2>9, <3>2, <4>1, <4>2 DEF Measured
    <3>3. QED
      BY <3>1, <3>2
  <2> HIDE DEF d
  <2>11. ~watch[t].behind => d <= watch[t].ran + watch[t].late
    BY <2>5, <2>9, <2>10 DEF Within
  <2>12. ~watch[t].behind /\ ~watch[t].cut /\ watch[t].ran + watch[t].late < Day
         => d + watch[t].late >= watch[t].ran
    BY <2>5, <2>6, <2>9, <2>10 DEF EndsWell, Calm, Short
  <2>13. e.duration = d /\ e.watch = watch[t]
    OBVIOUS
  <2> HIDE DEF e
  <2>14. \A k \in DOMAIN sent' : (k \in DOMAIN sent /\ sent'[k] = sent[k]) \/ sent'[k] = e
    BY <1>4 DEF TypeOK
  <2> HIDE DEF t
  <2>15. NoLongerThanForeground'
    BY <2>11, <2>13, <2>14 DEF CountsForeground, NoLongerThanForeground
  <2>16. NoShorterThanForeground'
    BY <2>12, <2>13, <2>14 DEF CountsForeground, NoShorterThanForeground
  <2>17. QED
    BY <2>15, <2>16 DEF CountsForeground
<1>5. QED
  <2>1. sent' = sent \/ (t \in DOMAIN timers /\ sent' = Append(sent, e))
    BY DEF EndTimer, Sent
  <2>2. QED
    BY <1>3, <1>4, <2>1

(* What every block leaves. *)
LEMMA BlockMeters ==
    ASSUME TypeOK, TypeOK', Metered,
           \/ StartTimer \/ PauseTimer \/ ResumeTimer \/ EndTimer \/ RemoveTimer \/ ClearAllTimers
           \/ \E c \in BOOLEAN : SetDataCollectionEnabled(c)
           \/ WillResignActive \/ HandleAllTimersPause \/ HandleAllTimersResume
    PROVE  Metered'
<1>1. queue # <<>> /\ queue' = Tail(queue) /\ UNCHANGED env
  BY DEF StartTimer, PauseTimer, ResumeTimer, EndTimer, RemoveTimer, ClearAllTimers,
         SetDataCollectionEnabled, WillResignActive, HandleAllTimersPause,
         HandleAllTimersResume, Run
<1>2. Stamped /\ CountsForeground /\ \A t \in Timer : Meter(t)
  BY DEF Metered
<1>3. Stamped'
  <2>1. \A i \in DOMAIN queue' : i + 1 \in DOMAIN queue /\ queue'[i] = queue[i + 1]
    BY <1>1, TailIndices DEF TypeOK
  <2>2. QED
    BY <1>2, <2>1 DEF Stamped
<1>4. ASSUME NEW t \in Timer
      PROVE  Meter(t)'
  <2>1. \A x, y \in Mark :
           Linked(t, x) /\ Leads(Head(queue), t, x, y) /\ Within(t, y) => Linked(t, y)'
    BY <1>2, LinkedStart, LinkedPause, LinkedResume, LinkedLeft, LinkedSwitch, LinkedLifeCycle
  <2>2. QED
    BY <1>1, <1>2, <2>1, MeterTaken
<1>5. CountsForeground'
  <2>1. CASE EndTimer
    BY <1>2, <2>1, EndCounts
  <2>2. CASE ~EndTimer
    <3>1. sent' = sent
      BY <2>2 DEF StartTimer, PauseTimer, ResumeTimer, RemoveTimer, ClearAllTimers,
         SetDataCollectionEnabled, WillResignActive, HandleAllTimersPause, HandleAllTimersResume
    <3>2. QED
      BY <1>2, <3>1 DEF CountsForeground, NoLongerThanForeground, NoShorterThanForeground
  <2>3. QED
    BY <2>1, <2>2
<1>6. QED
  BY <1>3, <1>4, <1>5 DEF Metered

(* The tightest mark behind a block that is queued now. *)
Larger(m, n) == IF m >= n THEN m ELSE n

NextMark(b, t, x) ==
    [phase |-> PhaseAfter(b, t, x),
     col   |-> b.op = "enable" \/ (x.col /\ b.op # "disable"),
     away  |-> x.away \/ b.op \in {"resign", "background"},
     hp    |-> IF Opens(b, t, x) THEN 0
               ELSE IF Adds(b, t, x) THEN Larger(x.hp, x.hq + now) ELSE x.hp,
     hq    |-> IF Opens(b, t, x) THEN -now
               ELSE IF Anew(b, t, x) THEN x.hp - now
               ELSE IF b.op = "background" THEN Larger(x.hq, x.hp - now) ELSE x.hq,
     lp    |-> IF Opens(b, t, x) THEN 0
               ELSE IF Adds(b, t, x) THEN Larger(x.lp, x.lq + now) ELSE x.lp,
     lq    |-> IF Opens(b, t, x) THEN -now
               ELSE IF Anew(b, t, x) THEN x.lp - now
               ELSE IF b.op = "background" THEN Larger(x.lq, x.lp - now) ELSE x.lq]

LEMMA LargerFacts ==
    ASSUME NEW m \in Int, NEW n \in Int
    PROVE  /\ Larger(m, n) \in Int /\ Larger(m, n) >= m /\ Larger(m, n) >= n
           /\ Larger(m, n) = m \/ Larger(m, n) = n
BY DEF Larger

LEMMA NextMarkLeads ==
    ASSUME TypeOK, NEW b, b.op \in TimerOp => b.time = now, NEW t, NEW x \in Mark
    PROVE  NextMark(b, t, x) \in Mark /\ Leads(b, t, x, NextMark(b, t, x))
<1> DEFINE y == NextMark(b, t, x)
<1>1. /\ x.hp \in Int /\ x.hq \in Int /\ x.lp \in Int /\ x.lq \in Int
      /\ x.col \in BOOLEAN /\ x.away \in BOOLEAN /\ x.phase \in Phase /\ now \in Nat
  BY DEF Mark, TypeOK
<1>2. /\ x.hq + now \in Int /\ x.hp - now \in Int /\ x.lq + now \in Int /\ x.lp - now \in Int
      /\ -now \in Int
  BY <1>1
<1>3. /\ Larger(x.hp, x.hq + now) \in Int /\ Larger(x.hp, x.hq + now) >= x.hp
      /\ Larger(x.hp, x.hq + now) >= x.hq + now
      /\ Larger(x.hq, x.hp - now) \in Int /\ Larger(x.hq, x.hp - now) >= x.hq
      /\ Larger(x.hq, x.hp - now) >= x.hp - now
  BY <1>1, <1>2, LargerFacts
<1>4. /\ Larger(x.lp, x.lq + now) \in Int /\ Larger(x.lq, x.lp - now) \in Int
      /\ Larger(x.lp, x.lq + now) = x.lp \/ Larger(x.lp, x.lq + now) = x.lq + now
      /\ Larger(x.lq, x.lp - now) = x.lq \/ Larger(x.lq, x.lp - now) = x.lp - now
  BY <1>1, <1>2, LargerFacts
<1>5. PhaseAfter(b, t, x) \in Phase
  BY <1>1 DEF PhaseAfter, Phase
<1>6. y \in Mark
  <2>1. /\ y.hp \in Int /\ y.hq \in Int /\ y.lp \in Int /\ y.lq \in Int
    BY <1>1, <1>2, <1>3, <1>4 DEF NextMark
  <2>2. QED
    BY <1>5, <2>1 DEF NextMark, Mark
<1>7. Opens(b, t, x) => b.time = now
  BY DEF Opens, Own, TimerOp
<1>8. Adds(b, t, x) \/ Anew(b, t, x) \/ b.op = "background" => Time(b) = now
  BY DEF Adds, Anew, Own, Time, TimerOp
<1>9. Opens(b, t, x) => y.hp >= 0 /\ y.lp <= 0 /\ y.hq >= -b.time /\ y.lq <= -b.time
  BY <1>1, <1>2, <1>7 DEF NextMark
<1>10. ASSUME ~Opens(b, t, x)
       PROVE  /\ y.hp >= x.hp
              /\ Adds(b, t, x) => y.hp >= x.hq + now
              /\ y.lp <= x.lp \/ (Adds(b, t, x) /\ y.lp <= x.lq + now)
              /\ Anew(b, t, x) => y.hq >= x.hp - now /\ y.lq <= x.lp - now
              /\ ~Anew(b, t, x) =>
                  /\ y.hq >= x.hq
                  /\ b.op = "background" => y.hq >= x.hp - now
                  /\ y.lq <= x.lq \/ (b.op = "background" /\ y.lq <= x.lp - now)
  <2>1. y.hp >= x.hp /\ (Adds(b, t, x) => y.hp >= x.hq + now)
    BY <1>1, <1>3, <1>10 DEF NextMark
  <2>2. y.lp <= x.lp \/ (Adds(b, t, x) /\ y.lp <= x.lq + now)
    BY <1>1, <1>2, <1>4, <1>10 DEF NextMark
  <2>3. Anew(b, t, x) => y.hq >= x.hp - now /\ y.lq <= x.lp - now
    BY <1>2, <1>10 DEF NextMark
  <2>4. ~Anew(b, t, x) => /\ y.hq >= x.hq
                          /\ b.op = "background" => y.hq >= x.hp - now
    BY <1>1, <1>3, <1>10 DEF NextMark
  <2>5. ~Anew(b, t, x) => y.lq <= x.lq \/ (b.op = "background" /\ y.lq <= x.lp - now)
    BY <1>1, <1>2, <1>4, <1>10 DEF NextMark
  <2>6. QED
    BY <2>1, <2>2, <2>3, <2>4, <2>5
<1>11. y.phase = PhaseAfter(b, t, x)
  BY DEF NextMark
<1>12. /\ y.col <=> (b.op = "enable" \/ (x.col /\ b.op # "disable"))
       /\ y.away <=> (x.away \/ b.op \in {"resign", "background"})
  BY DEF NextMark
<1> HIDE DEF y
<1>13. Counts(b, t, x, y)
  BY <1>8, <1>9, <1>10 DEF Counts
<1>14. QED
  BY <1>6, <1>11, <1>12, <1>13 DEF Leads, y

(* What a call may do to the watch of a timer. *)
Grown(t) ==
    /\ watch'[t].ran = watch[t].ran /\ watch'[t].late = watch[t].late
    /\ watch[t].behind => watch'[t].behind
    /\ watch[t].cut => watch'[t].cut
    /\ watch'[t].mode = "none" => watch[t].mode = "none" /\ ~watch'[t].behind
    /\ watch[t].mode = "ended" => watch'[t].mode = "ended"

LEMMA MeterCalled ==
    ASSUME TypeOK, NEW t \in Timer, Meter(t), NEW b \in Block, Call(b), Grown(t), Unhidden(t)',
           b.op \in TimerOp => b.time = now,
           \A x \in Mark : \A y \in Mark : y = NextMark(b, t, x) /\ Within(t, x) /\ Final(t, x) =>
              /\ Within(t, y)' /\ Final(t, y)'
              /\ Own(b, t, "end") => EndsWell(t, x, y)'
    PROVE  Meter(t)'
<1>1. PICK tr \in [0..Len(queue) -> Mark] : Course(t, tr)
  BY DEF Meter
<1>2. PICK n \in Nat : n = Len(queue)
  BY DEF TypeOK
<1>3. /\ Len(queue') = n + 1 /\ queue'[n + 1] = b
      /\ \A i \in 1..n : queue'[i] = queue[i]
      /\ UNCHANGED <<timers, enabled, away, now>>
  BY <1>2 DEF Call, TypeOK
<1>4. PICK x \in Mark : x = tr[n]
  BY <1>1, <1>2
<1>5. PICK y \in Mark : y = NextMark(b, t, x)
  BY NextMarkLeads
<1>6. Leads(b, t, x, y)
  BY <1>5, NextMarkLeads
<1>7. PICK q \in [0..(n + 1) -> Mark] : q[n + 1] = y /\ \A i \in 0..n : q[i] = tr[i]
  <2> DEFINE q == [i \in 0..(n + 1) |-> IF i = n + 1 THEN y ELSE tr[i]]
  <2>1. q \in [0..(n + 1) -> Mark] /\ q[n + 1] = y
    BY <1>1, <1>2
  <2>2. \A i \in 0..n : q[i] = tr[i]
    BY <1>2
  <2>3. QED
    BY <2>1, <2>2
<1>8. /\ Linked(t, tr[0]) /\ Within(t, x) /\ Final(t, x)
      /\ \A i \in 1..n : /\ Leads(queue[i], t, tr[i - 1], tr[i])
                         /\ Own(queue[i], t, "end") => EndsWell(t, tr[i - 1], tr[i])
      /\ \A i \in 0..n : Within(t, tr[i])
  BY <1>1, <1>2, <1>4 DEF Course
<1>9. Within(t, y)' /\ Final(t, y)' /\ (Own(b, t, "end") => EndsWell(t, x, y)')
  BY <1>4, <1>5, <1>8
<1>10. Linked(t, q[0])'
  <2>1. PICK z : z = tr[0]
    OBVIOUS
  <2>2. Linked(t, z)'
    BY <1>3, <1>8, <2>1 DEF Linked, Measured, Short, Grown
  <2>3. QED
    BY <1>7, <2>1, <2>2
<1>11. ASSUME NEW i \in 1..(n + 1)
       PROVE  /\ Leads(queue[i], t, q[i - 1], q[i])'
              /\ (Own(queue[i], t, "end") => EndsWell(t, q[i - 1], q[i]))'
  <2>1. CASE i = n + 1
    <3>1. queue'[i] = b /\ q[i] = y /\ q[i - 1] = x
      BY <1>3, <1>4, <1>7, <2>1
    <3>2. Leads(b, t, x, y)'
      BY <1>3, <1>6, LeadsSame
    <3>3. (Own(b, t, "end") => EndsWell(t, x, y))'
      BY <1>9 DEF Own
    <3>4. QED
      BY <3>1, <3>2, <3>3
  <2>2. CASE i # n + 1
    <3>1. i \in 1..n
      BY <2>2
    <3>2. PICK c, v, w : c = queue[i] /\ v = tr[i - 1] /\ w = tr[i]
      OBVIOUS
    <3>3. queue'[i] = c /\ q[i - 1] = v /\ q[i] = w
      BY <1>3, <1>7, <3>1, <3>2
    <3>4. Leads(c, t, v, w) /\ (Own(c, t, "end") => EndsWell(t, v, w))
      BY <1>8, <3>1, <3>2
    <3>5. Leads(c, t, v, w)'
      BY <1>3, <3>4, LeadsSame
    <3>6. (Own(c, t, "end") => EndsWell(t, v, w))'
      BY <3>4 DEF Own, EndsWell, Calm, Grown
    <3>7. QED
      BY <3>3, <3>5, <3>6
  <2>3. QED
    BY <2>1, <2>2
<1>12. ASSUME NEW i \in 0..(n + 1) PROVE Within(t, q[i])'
  <2>1. CASE i = n + 1
    BY <1>7, <1>9, <2>1
  <2>2. CASE i # n + 1
    <3>1. PICK z : z = tr[i]
      OBVIOUS
    <3>2. q[i] = z /\ Within(t, z)
      BY <1>7, <1>8, <2>2, <3>1
    <3>3. Within(t, z)'
      BY <3>2 DEF Within, Grown
    <3>4. QED
      BY <3>2, <3>3
  <2>3. QED
    BY <2>1, <2>2
<1>13. Final(t, q[n + 1])'
  BY <1>7, <1>9
<1>14. Course(t, q)'
  BY <1>3, <1>10, <1>11, <1>12, <1>13 DEF Course
<1>15. watch'[t].mode = "none" => ~watch'[t].behind /\ watch'[t].ran = 0
  BY DEF Grown, Meter
<1>16. QED
  BY <1>3, <1>14, <1>15 DEF Meter

LEMMA Typed ==
    ASSUME TypeOK, NEW t \in Timer
    PROVE  /\ watch[t].mode \in Mode /\ watch[t].ran \in Nat /\ watch[t].late \in Nat
           /\ watch[t].behind \in BOOLEAN /\ watch[t].cut \in BOOLEAN
           /\ now \in Nat \ {0} /\ app \in App
BY DEF TypeOK, Watch

(* A call that is not about the timer and not of the life cycle. *)
LEMMA MeterIdleCall ==
    ASSUME TypeOK, NEW t \in Timer, Meter(t), NEW b \in Block, Call(b),
           b.op \in TimerOp => b.time = now /\ b.timer # t,
           b.op \notin {"become", "resign", "background"},
           watch'[t] = watch[t], app' = app
    PROVE  Meter(t)'
<1>1. Grown(t) /\ Unhidden(t)'
  BY DEF Grown, Meter, Unhidden
<1>2. UNCHANGED now
  BY DEF Call
<1>3. ASSUME NEW x \in Mark, NEW y \in Mark, y = NextMark(b, t, x), Within(t, x), Final(t, x)
      PROVE  Within(t, y)' /\ Final(t, y)' /\ ~Own(b, t, "end")
  <2>1. /\ ~Opens(b, t, x) /\ ~Anew(b, t, x) /\ ~Adds(b, t, x)
        /\ ~Own(b, t, "end") /\ ~Own(b, t, "remove")
        /\ ~Own(b, t, "pause") /\ ~Own(b, t, "resume")
    BY DEF Opens, Anew, Adds, Own, TimerOp
  <2>2. y.phase = x.phase \/ y.phase = "none"
    BY <1>3, <2>1 DEF NextMark, PhaseAfter
  <2>3. /\ y.hp = x.hp /\ y.hq = x.hq /\ y.lp = x.lp /\ y.lq = x.lq
        /\ y.away <=> x.away
    BY <1>3, <2>1 DEF NextMark
  <2>4. Within(t, y)'
    BY <1>3, <2>2, <2>3 DEF Within
  <2>5. Final(t, y)'
    BY <1>2, <1>3, <2>2, <2>3 DEF Final, Counting, Calm
  <2>6. QED
    BY <2>1, <2>4, <2>5
<1>4. QED
  BY <1>1, <1>3, MeterCalled

LEMMA MeterStart ==
    ASSUME TypeOK, TypeOK', NEW t \in Timer, Meter(t), TrackTimerStart(t)
    PROVE  Meter(t)'
<1>b. PICK b \in Block : b = [op |-> "start", timer |-> t, time |-> now]
  BY DEF TypeOK, Block, TimerOp
<1>0. Call(b) /\ UNCHANGED <<app, now>>
  BY <1>b DEF TrackTimerStart, TimerCall, Call
<1>1. /\ watch'[t].ran = watch[t].ran /\ watch'[t].late = watch[t].late
      /\ watch'[t].cut = watch[t].cut /\ watch'[t].mode = "running"
      /\ watch'[t].behind = (app = "hidden") /\ watch[t].mode = "none"
      /\ ~watch[t].behind /\ watch[t].ran = 0
  BY DEF TrackTimerStart, Meter, TypeOK, Watch
<1>2. Grown(t) /\ Unhidden(t)'
  BY <1>0, <1>1 DEF Grown, Unhidden
<1>3. ASSUME NEW x \in Mark, NEW y \in Mark, y = NextMark(b, t, x), Within(t, x), Final(t, x)
      PROVE  Within(t, y)' /\ Final(t, y)' /\ ~Own(b, t, "end")
  <2>1. x.phase = "none" /\ ~Adds(b, t, x) /\ ~Anew(b, t, x)
    BY <1>1, <1>3 DEF Within, Adds, Anew
  <2>2. /\ y.phase = IF x.col THEN "running" ELSE "none"
        /\ x.col => y.hp = 0 /\ y.lp = 0 /\ y.hq = -now /\ y.lq = -now
        /\ ~x.col => y.hp = x.hp
        /\ y.away <=> x.away
    BY <1>b, <1>3, <2>1 DEF NextMark, PhaseAfter, Opens, Own
  <2>3. Within(t, y)'
    BY <1>1, <1>3, <2>2, Typed DEF Within
  <2>4. Final(t, y)'
    BY <1>0, <1>1, <1>3, <2>2, Typed DEF Final, Counting, Calm
  <2>5. QED
    BY <1>b, <2>3, <2>4 DEF Own
<1>4. QED
  BY <1>b, <1>0, <1>2, <1>3, MeterCalled

LEMMA MeterPause ==
    ASSUME TypeOK, TypeOK', NEW t \in Timer, Meter(t), TrackTimerPause(t)
    PROVE  Meter(t)'
<1>b. PICK b \in Block : b = [op |-> "pause", timer |-> t, time |-> now]
  BY DEF TypeOK, Block, TimerOp
<1>0. Call(b) /\ UNCHANGED <<app, now>>
  BY <1>b DEF TrackTimerPause, TimerCall, Call
<1>1. /\ watch'[t].ran = watch[t].ran /\ watch'[t].late = watch[t].late
      /\ watch'[t].cut = watch[t].cut /\ watch[t].mode # "none"
      /\ watch'[t].mode = (IF watch[t].mode = "running" THEN "paused" ELSE watch[t].mode)
      /\ watch[t].behind => watch'[t].behind
      /\ watch[t].mode = "running" /\ app \in Hidden => watch'[t].behind
  BY Typed DEF TrackTimerPause, TypeOK, Watch
<1>2. Grown(t) /\ Unhidden(t)'
  BY <1>0, <1>1 DEF Grown, Unhidden, Meter
<1>3. ASSUME NEW x \in Mark, NEW y \in Mark, y = NextMark(b, t, x), Within(t, x), Final(t, x)
      PROVE  Within(t, y)' /\ Final(t, y)' /\ ~Own(b, t, "end")
  <2>1. /\ ~Opens(b, t, x) /\ ~Anew(b, t, x) /\ (Adds(b, t, x) <=> x.phase = "running")
        /\ Own(b, t, "pause") /\ ~Own(b, t, "end") /\ ~Own(b, t, "remove")
    BY <1>b DEF Opens, Anew, Adds, Own
  <2>2. /\ y.phase = IF x.phase = "none" THEN "none" ELSE "paused"
        /\ y.away <=> x.away
        /\ y.hp = IF x.phase = "running" THEN Larger(x.hp, x.hq + now) ELSE x.hp
        /\ y.lp = IF x.phase = "running" THEN Larger(x.lp, x.lq + now) ELSE x.lp
    BY <1>b, <1>3, <2>1 DEF NextMark, PhaseAfter
  <2>3. x.hp \in Int /\ x.hq + now \in Int /\ x.lp \in Int /\ x.lq + now \in Int
    BY Typed DEF Mark
  <2>4. x.phase = "running" => watch[t].mode = "running"
    BY <1>3, Typed DEF Final, Mode
  <2>5. Within(t, y)'
    BY <1>1, <1>3, <2>2, <2>3, <2>4, LargerFacts, Typed DEF Within, Final, Counting
  <2>6. Final(t, y)'
    <3>1. y.phase # "none" /\ Calm(t)' => y.lp + watch[t].late >= watch[t].ran
      <4> SUFFICES ASSUME y.phase # "none", Calm(t)'
                   PROVE  y.lp + watch[t].late >= watch[t].ran
        OBVIOUS
      <4>1. Calm(t) /\ x.phase # "none"
        BY <1>1, <2>2 DEF Calm
      <4>2. CASE x.phase = "running"
        <5>1. Counting(x)
          BY <1>1, <2>4, <4>2 DEF Counting, Calm
        <5>2. x.lq + now + watch[t].late >= watch[t].ran
          BY <1>3, <4>1, <5>1 DEF Final
        <5>3. Larger(x.lp, x.lq + now) \in Int /\ Larger(x.lp, x.lq + now) >= x.lq + now
          BY <2>3, LargerFacts
        <5>4. QED
          BY <2>2, <2>3, <4>2, <5>2, <5>3, Typed
      <4>3. CASE x.phase # "running"
        BY <1>3, <2>2, <4>1, <4>3 DEF Final, Counting
      <4>4. QED
        BY <4>2, <4>3
    <3>2. ~Counting(y)'
      BY <2>2 DEF Counting
    <3>3. watch'[t].mode \in {"none", "ended"} => y.phase = "none"
      BY <1>1, <1>3, <2>2 DEF Final
    <3>4. watch'[t].mode # "running"
      BY <1>1
    <3>5. QED
      BY <1>0, <1>1, <1>3, <2>2, <3>1, <3>2, <3>3, <3>4 DEF Final
  <2>7. QED
    BY <2>1, <2>5, <2>6
<1>4. QED
  BY <1>b, <1>0, <1>2, <1>3, MeterCalled

LEMMA MeterResume ==
    ASSUME TypeOK, TypeOK', NEW t \in Timer, Meter(t), TrackTimerResume(t)
    PROVE  Meter(t)'
<1>b. PICK b \in Block : b = [op |-> "resume", timer |-> t, time |-> now]
  BY DEF TypeOK, Block, TimerOp
<1>0. Call(b) /\ UNCHANGED <<app, now>>
  BY <1>b DEF TrackTimerResume, TimerCall, Call
<1>1. /\ watch'[t].ran = watch[t].ran /\ watch'[t].late = watch[t].late
      /\ watch'[t].cut = watch[t].cut /\ watch[t].mode # "none"
      /\ watch'[t].mode = (IF watch[t].mode = "paused" THEN "running" ELSE watch[t].mode)
      /\ watch[t].behind => watch'[t].behind
  BY Typed DEF TrackTimerResume, TypeOK, Watch
<1>2. Grown(t) /\ Unhidden(t)'
  BY <1>0, <1>1 DEF Grown, Unhidden, Meter
<1>3. ASSUME NEW x \in Mark, NEW y \in Mark, y = NextMark(b, t, x), Within(t, x), Final(t, x)
      PROVE  Within(t, y)' /\ Final(t, y)' /\ ~Own(b, t, "end")
  <2>1. /\ ~Opens(b, t, x) /\ ~Adds(b, t, x) /\ (Anew(b, t, x) <=> x.phase = "paused")
        /\ Own(b, t, "resume") /\ ~Own(b, t, "end") /\ ~Own(b, t, "remove")
        /\ ~Own(b, t, "pause")
    BY <1>b DEF Opens, Anew, Adds, Own
  <2>2. /\ y.phase = IF x.phase = "none" THEN "none" ELSE "running"
        /\ y.away <=> x.away
        /\ y.hp = x.hp /\ y.lp = x.lp
        /\ y.hq = IF x.phase = "paused" THEN x.hp - now ELSE x.hq
        /\ y.lq = IF x.phase = "paused" THEN x.lp - now ELSE x.lq
    BY <1>b, <1>3, <2>1 DEF NextMark, PhaseAfter
  <2>3. /\ x.hp \in Int /\ x.hq \in Int /\ x.lp \in Int /\ x.lq \in Int
        /\ x.phase \in Phase
    BY DEF Mark
  <2>4. Within(t, y)'
    BY <1>1, <1>3, <2>2 DEF Within
  <2>5. ~watch'[t].behind => ~watch[t].behind
    BY <1>1
  <2>6. CASE x.phase = "paused"
    <3>1. watch[t].mode = "paused" /\ watch'[t].mode = "running"
      BY <1>1, <1>3, <2>6, Typed DEF Final, Mode
    <3>2. ~Counting(x)
      BY <2>6 DEF Counting
    <3>3. Calm(t)' => x.lp + watch[t].late >= watch[t].ran
      BY <1>1, <1>3, <2>5, <2>6, <3>2 DEF Final, Calm
    <3>4. y.hq + now = x.hp /\ y.lq + now = x.lp
      BY <2>2, <2>3, <2>6, Typed
    <3>5. Final(t, y)'
      BY <1>0, <1>1, <1>3, <2>2, <2>5, <2>6, <3>1, <3>3, <3>4 DEF Final, Within
    <3>6. QED
      BY <2>1, <2>4, <3>5
  <2>7. CASE x.phase # "paused"
    <3>1. y.phase = x.phase /\ y.hq = x.hq /\ y.lq = x.lq
      BY <2>2, <2>3, <2>7 DEF Phase
    <3>2. /\ Counting(y)' <=> Counting(x)
          /\ Calm(t)' => Calm(t)
      BY <1>0, <1>1, <3>1 DEF Counting, Calm
    <3>3. /\ watch'[t].mode \in {"none", "ended"} => y.phase = "none"
          /\ watch'[t].mode = "paused" => y.phase # "running"
          /\ y.phase # "paused"
      BY <1>1, <1>3, <2>7, <3>1 DEF Final
    <3>4. Final(t, y)'
      BY <1>0, <1>1, <1>3, <2>2, <2>5, <3>1, <3>2, <3>3 DEF Final
    <3>5. QED
      BY <2>1, <2>4, <3>4
  <2>8. QED
    BY <2>6, <2>7
<1>4. QED
  BY <1>b, <1>0, <1>2, <1>3, MeterCalled

LEMMA MeterEnd ==
    ASSUME TypeOK, TypeOK', NEW t \in Timer, Meter(t), TrackTimerEnd(t) \/ RemoveCall(t)
    PROVE  Meter(t)'
<1>b. PICK b \in Block : /\ b.timer = t /\ b.time = now /\ b.op \in {"end", "remove"}
                         /\ Call(b) /\ UNCHANGED <<app, now>>
                         /\ (b.op = "end" => TrackTimerEnd(t))
  <2>1. /\ [op |-> "end", timer |-> t, time |-> now] \in Block
        /\ [op |-> "remove", timer |-> t, time |-> now] \in Block
    BY DEF TypeOK, Block, TimerOp
  <2>2. QED
    BY <2>1 DEF TrackTimerEnd, RemoveCall, TimerCall, Call
<1>1. /\ watch'[t].ran = watch[t].ran /\ watch'[t].late = watch[t].late
      /\ watch'[t].cut = watch[t].cut /\ watch[t].mode # "none"
      /\ watch'[t].mode = "ended"
      /\ watch[t].behind => watch'[t].behind
      /\ b.op = "end" /\ watch[t].mode = "running" /\ app \in Hidden => watch'[t].behind
  BY <1>b, Typed DEF TrackTimerEnd, RemoveCall, TypeOK, Watch
<1>2. Grown(t) /\ Unhidden(t)'
  BY <1>b, <1>1 DEF Grown, Unhidden, Meter
<1>3. ASSUME NEW x \in Mark, NEW y \in Mark, y = NextMark(b, t, x), Within(t, x), Final(t, x)
      PROVE  Within(t, y)' /\ Final(t, y)' /\ (Own(b, t, "end") => EndsWell(t, x, y)')
  <2>1. /\ ~Opens(b, t, x) /\ ~Anew(b, t, x)
        /\ Adds(b, t, x) <=> b.op = "end" /\ x.phase = "running"
        /\ Own(b, t, "end") \/ Own(b, t, "remove")
    BY <1>b DEF Opens, Anew, Adds, Own
  <2>2. /\ y.phase = "none"
        /\ y.away <=> x.away
        /\ y.hp = IF Adds(b, t, x) THEN Larger(x.hp, x.hq + now) ELSE x.hp
        /\ y.lp = IF Adds(b, t, x) THEN Larger(x.lp, x.lq + now) ELSE x.lp
    BY <1>b, <1>3, <2>1 DEF NextMark, PhaseAfter
  <2>3. /\ x.hp \in Int /\ x.hq + now \in Int /\ x.lp \in Int /\ x.lq + now \in Int
        /\ x.phase \in Phase
    BY Typed DEF Mark
  <2>4. x.phase = "running" => watch[t].mode = "running"
    BY <1>3, Typed DEF Final, Mode
  <2>5. Within(t, y)'
    BY <1>1, <1>3, <2>1, <2>2, <2>3, <2>4, LargerFacts, Typed DEF Within, Final, Counting
  <2>6. Final(t, y)'
    BY <1>b, <1>1, <1>3, <2>2 DEF Final, Counting
  <2>7. ASSUME b.op = "end", x.phase # "none", Calm(t)'
        PROVE  y.lp + watch[t].late >= watch[t].ran
    <3>1. Calm(t)
      BY <1>1, <2>7 DEF Calm
    <3>2. CASE x.phase = "running"
      <4>1. Counting(x)
        BY <1>1, <2>4, <2>7, <3>2 DEF Counting, Calm
      <4>2. x.lq + now + watch[t].late >= watch[t].ran
        BY <1>3, <3>1, <4>1 DEF Final
      <4>3. Larger(x.lp, x.lq + now) \in Int /\ Larger(x.lp, x.lq + now) >= x.lq + now
        BY <2>3, LargerFacts
      <4>4. QED
        BY <2>1, <2>2, <2>3, <2>7, <3>2, <4>2, <4>3, Typed
    <3>3. CASE x.phase # "running"
      BY <1>3, <2>1, <2>2, <2>7, <3>1, <3>3 DEF Final, Counting
    <3>4. QED
      BY <3>2, <3>3
  <2>8. Own(b, t, "end") => EndsWell(t, x, y)'
    BY <1>1, <2>7 DEF EndsWell, Own
  <2>9. QED
    BY <2>5, <2>6, <2>8
<1>4. QED
  BY <1>b, <1>2, <1>3, MeterCalled

LEMMA MeterLifeCycle ==
    ASSUME TypeOK, TypeOK', NEW t \in Timer, Meter(t), LifeCycle
    PROVE  Meter(t)'
<1>b. PICK b \in Block :
         /\ Call(b) /\ b.op \notin TimerOp
         /\ \/ app # "active" /\ app' = "active" /\ b.op = "become"
            \/ app = "active" /\ app' = "inactive" /\ b.op = "resign"
            \/ app = "inactive" /\ app' = "background" /\ b.op = "background"
  <2>1. /\ [op |-> "become"] \in Block /\ [op |-> "resign"] \in Block
        /\ [op |-> "background"] \in Block
    BY DEF Block, Op
  <2>2. QED
    BY <2>1 DEF LifeCycle, TimerOp
<1>0. UNCHANGED now
  BY <1>b DEF Call
<1>1. /\ watch'[t].ran = watch[t].ran /\ watch'[t].late = watch[t].late
      /\ watch'[t].mode = watch[t].mode /\ watch'[t].behind = watch[t].behind
      /\ watch[t].cut => watch'[t].cut
      /\ app = "inactive" /\ app' = "active" /\ watch[t].mode = "running" => watch'[t].cut
  <2>1. watch[t] \in Watch
    BY DEF TypeOK
  <2>2. CASE UNCHANGED watch /\ app' # "active"
    BY <2>2
  <2>3. CASE watch' = [u \in Timer |-> [watch[u] EXCEPT !.cut =
                          @ \/ (app = "inactive" /\ watch[u].mode = "running")]]
    <3> DEFINE c == watch[t].cut \/ (app = "inactive" /\ watch[t].mode = "running")
    <3>1. watch'[t] = [watch[t] EXCEPT !.cut = c]
      BY <2>3
    <3>2. c \in BOOLEAN
      BY Typed
    <3>3. /\ watch'[t].ran = watch[t].ran /\ watch'[t].late = watch[t].late
          /\ watch'[t].mode = watch[t].mode /\ watch'[t].behind = watch[t].behind
          /\ watch'[t].cut = c
      <4> HIDE DEF c
      <4>1. QED
        BY <2>1, <3>1 DEF Watch
    <3>4. QED
      BY <3>3
  <2>4. QED
    BY <1>b, <2>2, <2>3 DEF LifeCycle
<1>2. Grown(t) /\ Unhidden(t)'
  BY <1>b, <1>1 DEF Grown, Unhidden, Meter
<1>3. ASSUME NEW x \in Mark, NEW y \in Mark, y = NextMark(b, t, x), Within(t, x), Final(t, x)
      PROVE  Within(t, y)' /\ Final(t, y)' /\ ~Own(b, t, "end")
  <2>1. /\ ~Opens(b, t, x) /\ ~Own(b, t, "end") /\ ~Own(b, t, "remove")
        /\ ~Own(b, t, "pause") /\ ~Own(b, t, "resume")
        /\ Anew(b, t, x) <=> b.op = "become" /\ x.away /\ x.phase = "running"
        /\ Adds(b, t, x) <=> b.op = "background" /\ x.phase = "running"
    BY <1>b DEF Opens, Anew, Adds, Own, TimerOp
  <2>2. /\ y.phase = x.phase
        /\ y.away <=> x.away \/ b.op \in {"resign", "background"}
    BY <1>b, <1>3, <2>1 DEF NextMark, PhaseAfter
  <2>3. /\ x.hp \in Int /\ x.hq \in Int /\ x.lp \in Int /\ x.lq \in Int
        /\ x.hq + now \in Int /\ x.lq + now \in Int /\ x.phase \in Phase
    BY Typed DEF Mark
  <2>4. x.phase = "running" => watch[t].mode = "running"
    BY <1>3, Typed DEF Final, Mode
  <2>5. /\ watch'[t].mode \in {"none", "ended"} => y.phase = "none"
        /\ watch'[t].mode = "running" => y.phase # "paused"
        /\ watch'[t].mode = "paused" => y.phase # "running"
    BY <1>1, <1>3, <2>2 DEF Final
  <2>6. app' = "background" => y.away
    BY <1>b, <2>2
  <2>7. ~watch[t].behind => app # "hidden" \/ watch[t].mode = "none"
    BY DEF Meter, Unhidden
  <2>8. CASE b.op = "background" /\ x.phase = "running"
    <3>1. /\ y.hp = Larger(x.hp, x.hq + now) /\ y.lp = Larger(x.lp, x.lq + now)
          /\ Counting(x) /\ ~Counting(y)' /\ app' = "background"
      BY <1>b, <1>3, <2>1, <2>8 DEF NextMark, Counting, Hidden
    <3>2. /\ Larger(x.hp, x.hq + now) = x.hp \/ Larger(x.hp, x.hq + now) = x.hq + now
          /\ Larger(x.lp, x.lq + now) \in Int /\ Larger(x.lp, x.lq + now) >= x.lq + now
      BY <2>3, LargerFacts
    <3>3. Within(t, y)'
      BY <1>1, <1>3, <2>2, <2>8, <3>1, <3>2 DEF Within, Final
    <3>4. Calm(t)' => y.lp + watch[t].late >= watch[t].ran
      <4>1. Calm(t)' => x.lq + now + watch[t].late >= watch[t].ran
        BY <1>1, <1>3, <3>1 DEF Final, Calm
      <4>2. QED
        BY <2>3, <3>1, <3>2, <4>1, Typed
    <3>5. Final(t, y)'
      BY <1>1, <2>5, <2>6, <3>1, <3>4 DEF Final
    <3>6. QED
      BY <2>1, <3>3, <3>5
  <2>9. CASE Anew(b, t, x)
    <3>1. /\ y.hp = x.hp /\ y.lp = x.lp /\ y.hq = x.hp - now /\ y.lq = x.lp - now
          /\ Counting(y)' /\ app' = "active" /\ app # "launched"
      BY <1>b, <1>3, <2>1, <2>2, <2>9 DEF NextMark, Counting, Hidden, Final
    <3>2. Within(t, y)'
      BY <1>1, <1>3, <2>2, <3>1 DEF Within
    <3>3. y.hq + now = x.hp /\ y.lq + now = x.lp
      BY <2>3, <3>1, Typed
    <3>4. Calm(t)' => x.lp + watch[t].late >= watch[t].ran
      <4> SUFFICES ASSUME Calm(t)' PROVE x.lp + watch[t].late >= watch[t].ran
        OBVIOUS
      <4>1. Calm(t) /\ app = "background"
        BY <1>b, <1>1, <2>1, <2>4, <2>7, <2>9, <3>1, Typed DEF Calm, App
      <4>2. ~Counting(x) /\ x.phase # "none"
        BY <2>1, <2>9, <4>1 DEF Counting, Hidden
      <4>3. QED
        BY <1>3, <4>1, <4>2 DEF Final
    <3>5. Final(t, y)'
      BY <1>0, <1>1, <1>3, <2>2, <2>5, <3>1, <3>3, <3>4 DEF Final, Within
    <3>6. QED
      BY <2>1, <3>2, <3>5
  <2>10. CASE ~(b.op = "background" /\ x.phase = "running") /\ ~Anew(b, t, x)
    <3>1. /\ y.hp = x.hp /\ y.lp = x.lp
          /\ x.phase = "running" => y.hq = x.hq /\ y.lq = x.lq
      BY <1>3, <2>1, <2>10 DEF NextMark
    <3>2. Within(t, y)'
      BY <1>1, <1>3, <2>2, <3>1 DEF Within
    <3>3. ~watch[t].behind /\ x.phase = "running" => Counting(x) /\ Counting(y)'
      BY <1>b, <1>3, <2>1, <2>2, <2>4, <2>7, <2>10, Typed DEF Counting, Hidden, Final, App
    <3>4. x.phase # "running" => ~Counting(x) /\ ~Counting(y)'
      BY <2>2 DEF Counting
    <3>5. app' # "launched"
      BY <1>b
    <3>6. Calm(t)' => Calm(t)
      BY <1>1 DEF Calm
    <3>7. Final(t, y)'
      BY <1>0, <1>1, <1>3, <2>2, <2>5, <2>6, <3>1, <3>3, <3>4, <3>5, <3>6 DEF Final, Calm
    <3>8. QED
      BY <2>1, <3>2, <3>7
  <2>11. QED
    BY <2>8, <2>9, <2>10
<1>4. QED
  BY <1>b, <1>2, <1>3, MeterCalled

LEMMA CallMeters ==
    ASSUME TypeOK, TypeOK', Metered,
           \/ \E t \in Timer : \/ TrackTimerStart(t) \/ TrackTimerPause(t) \/ TrackTimerResume(t)
                               \/ TrackTimerEnd(t) \/ RemoveCall(t)
           \/ OtherCall \/ LifeCycle
    PROVE  Metered'
<1>1. Stamped /\ CountsForeground /\ \A t \in Timer : Meter(t)
  BY DEF Metered
<1>2. PICK b \in Block : Call(b) /\ (b.op \in TimerOp => b.time = now)
  <2>1. ASSUME NEW t \in Timer, NEW op \in TimerOp, TimerCall(op, t)
        PROVE  \E b \in Block : Call(b) /\ (b.op \in TimerOp => b.time = now)
    <3>1. [op |-> op, timer |-> t, time |-> now] \in Block
      BY DEF TypeOK, Block
    <3>2. QED
      BY <2>1, <3>1 DEF TimerCall
  <2>2. ASSUME NEW op \in Op, Call([op |-> op])
        PROVE  \E b \in Block : Call(b) /\ (b.op \in TimerOp => b.time = now)
    <3>1. [op |-> op] \in Block /\ op \notin TimerOp
      BY DEF Block, Op, TimerOp
    <3>2. QED
      BY <2>2, <3>1
  <2>3. CASE OtherCall \/ LifeCycle
    BY <2>2, <2>3 DEF OtherCall, LifeCycle, Op
  <2>4. CASE ~(OtherCall \/ LifeCycle)
    BY <2>1, <2>4 DEF TrackTimerStart, TrackTimerPause, TrackTimerResume, TrackTimerEnd,
                      RemoveCall, TimerOp
  <2>5. QED
    BY <2>3, <2>4
<1>3. Stamped'
  <2>1. now # 0 /\ queue \in Seq(Block) /\ queue' = Append(queue, b)
    BY <1>2 DEF TypeOK, Call
  <2>2. \A i \in DOMAIN queue' : (i \in DOMAIN queue /\ queue'[i] = queue[i]) \/ queue'[i] = b
    BY <2>1
  <2>3. QED
    BY <1>1, <1>2, <2>1, <2>2 DEF Stamped
<1>4. CountsForeground'
  BY <1>1, <1>2 DEF Call, CountsForeground, NoLongerThanForeground, NoShorterThanForeground
<1>5. ASSUME NEW t \in Timer
      PROVE  Meter(t)'
  <2>1. CASE \/ TrackTimerStart(t) \/ TrackTimerPause(t) \/ TrackTimerResume(t)
             \/ TrackTimerEnd(t) \/ RemoveCall(t)
    BY <1>1, <2>1, MeterStart, MeterPause, MeterResume, MeterEnd
  <2>2. CASE LifeCycle
    BY <1>1, <2>2, MeterLifeCycle
  <2>3. CASE OtherCall
    <3>1. PICK op \in {"clear", "enable", "disable"} : Call([op |-> op])
      BY <2>3 DEF OtherCall
    <3>2. [op |-> op] \in Block /\ [op |-> op].op = op
      BY DEF Block, Op
    <3>3. UNCHANGED <<app, watch>>
      BY <2>3 DEF OtherCall
    <3>4. op \notin TimerOp /\ op \notin {"become", "resign", "background"}
      BY DEF TimerOp
    <3>5. QED
      BY <1>1, <3>1, <3>2, <3>3, <3>4, MeterIdleCall
  <2>4. ASSUME NEW u \in Timer, u # t,
               \/ TrackTimerStart(u) \/ TrackTimerPause(u) \/ TrackTimerResume(u)
               \/ TrackTimerEnd(u) \/ RemoveCall(u)
        PROVE  Meter(t)'
    <3>1. PICK op \in TimerOp : TimerCall(op, u)
      BY <2>4 DEF TrackTimerStart, TrackTimerPause, TrackTimerResume, TrackTimerEnd,
                  RemoveCall, TimerOp
    <3>2. PICK c \in Block : c = [op |-> op, timer |-> u, time |-> now]
      BY DEF TypeOK, Block
    <3>3. Call(c) /\ app' = app /\ c.op = op /\ c.timer = u /\ c.time = now
      BY <3>1, <3>2 DEF TimerCall
    <3>4. watch'[t] = watch[t]
      BY <2>4 DEF TrackTimerStart, TrackTimerPause, TrackTimerResume, TrackTimerEnd,
                  RemoveCall, TypeOK
    <3>5. op \notin {"become", "resign", "background"}
      BY DEF TimerOp
    <3>6. QED
      BY <1>1, <2>4, <3>3, <3>4, <3>5, MeterIdleCall
  <2>5. QED
    BY <2>1, <2>2, <2>3, <2>4
<1>6. QED
  BY <1>3, <1>4, <1>5 DEF Metered

(* The blocks up to i that read the clock when they run. *)
WaitingTo(i) == {j \in Waiting : j <= i}

LEMMA WaitingToFacts ==
    ASSUME TypeOK
    PROVE  /\ \A i \in 0..Len(queue) : /\ Cardinality(WaitingTo(i)) \in Nat
                                       /\ Cardinality(WaitingTo(i)) <= Cardinality(Waiting)
           /\ Cardinality(WaitingTo(0)) = 0
           /\ Cardinality(WaitingTo(Len(queue))) = Cardinality(Waiting)
           /\ \A i \in 1..Len(queue) : Cardinality(WaitingTo(i)) =
                 Cardinality(WaitingTo(i - 1))
                   + (IF queue[i].op \in {"become", "background"} THEN 1 ELSE 0)
<1>1. IsFiniteSet(Waiting) /\ Waiting \subseteq 1..Len(queue) /\ Len(queue) \in Nat
  BY WaitingFinite DEF Waiting, TypeOK
<1>2. ASSUME NEW i \in 0..Len(queue)
      PROVE  /\ IsFiniteSet(WaitingTo(i)) /\ Cardinality(WaitingTo(i)) \in Nat
             /\ Cardinality(WaitingTo(i)) <= Cardinality(Waiting)
  <2>1. WaitingTo(i) \in SUBSET Waiting
    BY DEF WaitingTo
  <2>2. QED
    BY <1>1, <2>1, FS_Subset, FS_CardinalityType
<1>w. \A j \in Waiting : j >= 1 /\ j <= Len(queue) /\ ~(j <= 0)
  BY <1>1
<1>3. WaitingTo(0) = {}
  BY <1>w DEF WaitingTo
<1>4. WaitingTo(Len(queue)) = Waiting
  BY <1>w DEF WaitingTo
<1>5. ASSUME NEW i \in 1..Len(queue)
      PROVE  Cardinality(WaitingTo(i)) = Cardinality(WaitingTo(i - 1))
                + (IF queue[i].op \in {"become", "background"} THEN 1 ELSE 0)
  <2>1. i - 1 \in 0..Len(queue) /\ i \in DOMAIN queue
    BY <1>1 DEF TypeOK
  <2>2. IsFiniteSet(WaitingTo(i - 1)) /\ Cardinality(WaitingTo(i - 1)) \in Nat
    BY <1>2, <2>1
  <2>3. i \notin WaitingTo(i - 1)
    BY <1>1 DEF WaitingTo
  <2>4. CASE queue[i].op \in {"become", "background"}
    <3>1. WaitingTo(i) = WaitingTo(i - 1) \cup {i}
      BY <1>1, <2>1, <2>4 DEF WaitingTo, Waiting
    <3>2. QED
      BY <2>2, <2>3, <2>4, <3>1, FS_AddElement
  <2>5. CASE queue[i].op \notin {"become", "background"}
    <3>1. WaitingTo(i) = WaitingTo(i - 1)
      BY <1>1, <2>1, <2>5 DEF WaitingTo, Waiting
    <3>2. QED
      BY <2>2, <2>5, <3>1
  <2>6. QED
    BY <2>4, <2>5
<1>6. QED
  BY <1>2, <1>3, <1>4, <1>5, FS_EmptySet

(* A tick moves the bounds of a mark apart by the blocks before it. *)
Apart(x, n) == [phase |-> x.phase, col |-> x.col, away |-> x.away,
                hp |-> x.hp + n, hq |-> x.hq + n, lp |-> x.lp - n, lq |-> x.lq - n]

LEMMA ApartFacts ==
    ASSUME NEW x \in Mark, NEW n \in Nat
    PROVE  /\ Apart(x, n) \in Mark
           /\ Apart(x, n).phase = x.phase /\ Apart(x, n).col = x.col /\ Apart(x, n).away = x.away
           /\ Apart(x, n).hp = x.hp + n /\ Apart(x, n).hq = x.hq + n
           /\ Apart(x, n).lp = x.lp - n /\ Apart(x, n).lq = x.lq - n
BY DEF Apart, Mark

LEMMA LeadsApart ==
    ASSUME NEW b \in Block, NEW t, NEW x \in Mark, NEW y \in Mark, Leads(b, t, x, y),
           now \in Nat, now' = now + 1, NEW m \in Nat, NEW n \in Nat,
           n = m + (IF b.op \in {"become", "background"} THEN 1 ELSE 0),
           NEW v \in Mark, NEW w \in Mark, v = Apart(x, m), w = Apart(y, n)
    PROVE  Leads(b, t, v, w)'
<1>1. /\ x.hp \in Int /\ x.hq \in Int /\ x.lp \in Int /\ x.lq \in Int
      /\ y.hp \in Int /\ y.hq \in Int /\ y.lp \in Int /\ y.lq \in Int
  BY DEF Mark
<1>2. /\ v.phase = x.phase /\ v.col = x.col /\ v.away = x.away
      /\ v.hp = x.hp + m /\ v.hq = x.hq + m /\ v.lp = x.lp - m /\ v.lq = x.lq - m
  BY ApartFacts
<1>3. /\ w.phase = y.phase /\ w.col = y.col /\ w.away = y.away
      /\ w.hp = y.hp + n /\ w.hq = y.hq + n /\ w.lp = y.lp - n /\ w.lq = y.lq - n
  BY ApartFacts
<1>4. /\ Opens(b, t, v)' <=> Opens(b, t, x)
      /\ Adds(b, t, v)' <=> Adds(b, t, x)
      /\ Anew(b, t, v)' <=> Anew(b, t, x)
      /\ PhaseAfter(b, t, v)' = PhaseAfter(b, t, x)
  BY <1>2 DEF Opens, Adds, Anew, Own, PhaseAfter
<1>5. Counts(b, t, v, w)'
  <2>1. CASE Opens(b, t, x)
    <3>1. b.op = "start" /\ b.time \in Nat
      BY <2>1, BlockFields DEF Opens, Own, TimerOp
    <3>2. y.hp >= 0 /\ y.lp <= 0 /\ y.hq >= -b.time /\ y.lq <= -b.time
      BY <2>1 DEF Leads, Counts
    <3>3. w.hp >= 0 /\ w.lp <= 0 /\ w.hq >= -b.time /\ w.lq <= -b.time
      BY <1>1, <1>3, <3>1, <3>2
    <3>4. QED
      BY <1>4, <2>1, <3>3 DEF Counts
  <2>2. CASE ~Opens(b, t, x) /\ x.phase # "none"
    <3>1. PICK k \in {0, 1} : n = m + k /\ (k = 1 <=> b.op \in {"become", "background"})
      <4>1. CASE b.op \in {"become", "background"}
        BY <4>1
      <4>2. CASE b.op \notin {"become", "background"}
        BY <4>2
      <4>3. QED
        BY <4>1, <4>2
    <3>2. ASSUME Adds(b, t, x) \/ Anew(b, t, x) \/ b.op = "background"
          PROVE  Time(b) \in Nat /\ Time(b)' = Time(b) + k
      <4>1. CASE k = 1
        BY <3>1, <4>1 DEF Time
      <4>2. CASE k = 0
        <5>1. b.op \in TimerOp /\ b.op \notin {"become", "background"}
          BY <3>1, <3>2, <4>2 DEF Adds, Anew, Own, TimerOp
        <5>2. b.time \in Nat
          BY <5>1, BlockFields
        <5>3. QED
          BY <4>2, <5>1, <5>2 DEF Time
      <4>3. QED
        BY <4>1, <4>2
    <3>3. PICK c, d : c = Time(b) /\ d = Time(b)'
      OBVIOUS
    <3>4. /\ y.hp >= x.hp
          /\ Adds(b, t, x) => y.hp >= x.hq + c
          /\ y.lp <= x.lp \/ (Adds(b, t, x) /\ y.lp <= x.lq + c)
          /\ Anew(b, t, x) => y.hq >= x.hp - c /\ y.lq <= x.lp - c
          /\ ~Anew(b, t, x) =>
              /\ y.hq >= x.hq
              /\ b.op = "background" => y.hq >= x.hp - c
              /\ y.lq <= x.lq \/ (b.op = "background" /\ y.lq <= x.lp - c)
      BY <2>2, <3>3 DEF Leads, Counts
    <3>5. Anew(b, t, x) \/ Adds(b, t, x) \/ b.op = "background" => c \in Nat /\ d = c + k
      BY <3>2, <3>3
    <3>6. b.op = "background" => k = 1
      BY <3>1
    <3>7. w.hp >= v.hp /\ (Adds(b, t, x) => w.hp >= v.hq + d)
      BY <1>1, <1>2, <1>3, <3>1, <3>4, <3>5
    <3>8. w.lp <= v.lp \/ (Adds(b, t, x) /\ w.lp <= v.lq + d)
      BY <1>1, <1>2, <1>3, <3>1, <3>4, <3>5
    <3>9. Anew(b, t, x) => w.hq >= v.hp - d /\ w.lq <= v.lp - d
      BY <1>1, <1>2, <1>3, <3>1, <3>4, <3>5
    <3>10. ~Anew(b, t, x) => /\ w.hq >= v.hq
                             /\ b.op = "background" => w.hq >= v.hp - d
      BY <1>1, <1>2, <1>3, <3>1, <3>4, <3>5, <3>6
    <3>11. ~Anew(b, t, x) => w.lq <= v.lq \/ (b.op = "background" /\ w.lq <= v.lp - d)
      BY <1>1, <1>2, <1>3, <3>1, <3>4, <3>5, <3>6
    <3>12. QED
      BY <1>2, <1>4, <2>2, <3>3, <3>7, <3>8, <3>9, <3>10, <3>11 DEF Counts
  <2>3. CASE ~Opens(b, t, x) /\ x.phase = "none"
    BY <1>2, <1>4, <2>3 DEF Counts
  <2>4. QED
    BY <2>1, <2>2, <2>3
<1>6. QED
  BY <1>2, <1>3, <1>4, <1>5 DEF Leads

LEMMA TickWatch ==
    ASSUME TypeOK, Tick, NEW t \in Timer
    PROVE  /\ watch'[t].mode = watch[t].mode /\ watch'[t].behind = watch[t].behind
           /\ watch'[t].cut = watch[t].cut
           /\ watch'[t].ran = watch[t].ran
                + (IF watch[t].mode = "running" /\ app \notin Hidden THEN 1 ELSE 0)
           /\ watch'[t].late = watch[t].late
                + (IF watch[t].mode = "none" THEN 0 ELSE Cardinality(Waiting))
<1>1. watch[t] \in Watch
  BY DEF TypeOK
<1>2. watch[t].ran \in Nat /\ watch[t].late \in Nat
  BY Typed
<1> DEFINE r == IF watch[t].mode = "running" /\ app \notin Hidden
                THEN watch[t].ran + 1 ELSE watch[t].ran
           l == IF watch[t].mode # "none"
                THEN watch[t].late + Cardinality(Waiting) ELSE watch[t].late
<1>3. watch'[t] = [watch[t] EXCEPT !.ran = r, !.late = l]
  BY DEF Tick
<1>4. /\ r = watch[t].ran
             + (IF watch[t].mode = "running" /\ app \notin Hidden THEN 1 ELSE 0)
      /\ l = watch[t].late + (IF watch[t].mode = "none" THEN 0 ELSE Cardinality(Waiting))
  BY <1>2
<1> HIDE DEF r, l
<1>5. /\ watch'[t].mode = watch[t].mode /\ watch'[t].behind = watch[t].behind
      /\ watch'[t].cut = watch[t].cut /\ watch'[t].ran = r /\ watch'[t].late = l
  BY <1>1, <1>3 DEF Watch
<1>6. QED
  BY <1>4, <1>5

(* The arithmetic of a tick: k blocks wait, c of them before a mark. *)
LEMMA TickSums ==
    ASSUME NEW r \in Nat, NEW l \in Nat, NEW m \in Nat, NEW c \in Nat, NEW k \in Nat,
           NEW j \in Nat, NEW h \in Int
    PROVE  /\ c <= k /\ h <= r + l => h + c <= (r + j) + (l + k)
           /\ c <= k /\ h + l >= r => (h - c) + (l + k) >= r
           /\ h + m <= r + l => (h + k) + (m + 1) <= (r + 1) + (l + k)
           /\ h + m + l >= r => (h - k) + (m + 1) + (l + k) >= r + 1
OBVIOUS

(* A timer the app has not started yet has no bounds to keep. *)
LEMMA MeterTickIdle ==
    ASSUME TypeOK, NEW t \in Timer, Meter(t), Tick, watch[t].mode = "none"
    PROVE  Meter(t)'
<1>1. PICK tr \in [0..Len(queue) -> Mark] : Course(t, tr)
  BY DEF Meter
<1>2. /\ UNCHANGED <<timers, enabled, away, queue, app>>
      /\ watch'[t].mode = "none" /\ watch'[t].behind = watch[t].behind
      /\ watch'[t].cut = watch[t].cut
      /\ watch'[t].ran = watch[t].ran /\ watch'[t].late = watch[t].late
  <2>1. watch[t].ran \in Nat /\ watch[t].late \in Nat
    BY Typed
  <2>2. /\ watch'[t].ran = watch[t].ran + 0 /\ watch'[t].late = watch[t].late + 0
        /\ watch'[t].mode = "none" /\ watch'[t].behind = watch[t].behind
        /\ watch'[t].cut = watch[t].cut
    BY TickWatch
  <2>3. watch[t].ran + 0 = watch[t].ran /\ watch[t].late + 0 = watch[t].late
    BY <2>1
  <2>4. QED
    BY <2>2, <2>3 DEF Tick
<1>3. Len(queue) \in Nat
  BY DEF TypeOK
<1>4. \A i \in 0..Len(queue) : tr[i].phase = "none"
  BY <1>1 DEF Course, Within
<1>5. Linked(t, tr[0])'
  BY <1>1, <1>2 DEF Course, Linked, Measured, Short
<1>6. ASSUME NEW i \in 1..Len(queue)
      PROVE  /\ Leads(queue[i], t, tr[i - 1], tr[i])'
             /\ (Own(queue[i], t, "end") => EndsWell(t, tr[i - 1], tr[i]))'
  <2>1. PICK b, x, y : b = queue[i] /\ x = tr[i - 1] /\ y = tr[i]
    OBVIOUS
  <2>2. x.phase = "none" /\ Leads(b, t, x, y) /\ (Own(b, t, "end") => EndsWell(t, x, y))
    BY <1>1, <1>3, <1>4, <2>1 DEF Course
  <2>3. Leads(b, t, x, y)'
    BY <2>2 DEF Leads, Counts, Opens, Adds, Anew, Own, PhaseAfter
  <2>4. (Own(b, t, "end") => EndsWell(t, x, y))'
    BY <1>2, <2>2 DEF Own, EndsWell, Calm
  <2>5. QED
    BY <1>2, <2>1, <2>3, <2>4
<1>7. \A i \in 0..Len(queue) : Within(t, tr[i])'
  BY <1>1, <1>2 DEF Course, Within
<1>8. Final(t, tr[Len(queue)])'
  <2>1. PICK x : x = tr[Len(queue)]
    OBVIOUS
  <2>2. x.phase = "none" /\ Final(t, x)
    BY <1>1, <1>3, <1>4, <2>1 DEF Course
  <2>3. Final(t, x)'
    BY <1>2, <2>2 DEF Final, Counting
  <2>4. QED
    BY <1>2, <2>1, <2>3
<1>9. Course(t, tr)'
  BY <1>2, <1>5, <1>6, <1>7, <1>8 DEF Course
<1>10. QED
  BY <1>2, <1>9 DEF Meter, Unhidden

LEMMA MeterTick ==
    ASSUME TypeOK, NEW t \in Timer, Meter(t), Tick, watch[t].mode # "none"
    PROVE  Meter(t)'
<1>1. PICK tr \in [0..Len(queue) -> Mark] : Course(t, tr)
  BY DEF Meter
<1>2. PICK n \in Nat : n = Len(queue)
  BY DEF TypeOK
<1>3. PICK k \in Nat : k = Cardinality(Waiting)
  BY WaitingFinite
<1>4. PICK C \in [0..n -> Nat] :
         /\ C[0] = 0 /\ C[n] = k /\ \A i \in 0..n : C[i] <= k
         /\ \A i \in 1..n : C[i] = C[i - 1]
                              + (IF queue[i].op \in {"become", "background"} THEN 1 ELSE 0)
  <2> DEFINE C == [i \in 0..n |-> Cardinality(WaitingTo(i))]
  <2>1. C \in [0..n -> Nat] /\ \A i \in 0..n : C[i] <= k
    BY <1>2, <1>3, WaitingToFacts
  <2>2. C[0] = 0 /\ C[n] = k
    BY <1>2, <1>3, WaitingToFacts
  <2>3. ASSUME NEW i \in 1..n
        PROVE  C[i] = C[i - 1] + (IF queue[i].op \in {"become", "background"} THEN 1 ELSE 0)
    <3>1. i - 1 \in 0..n /\ i \in 0..n
      OBVIOUS
    <3>2. QED
      BY <1>2, <3>1, WaitingToFacts
  <2> HIDE DEF C
  <2>4. QED
    BY <2>1, <2>2, <2>3
<1>5. /\ UNCHANGED <<timers, enabled, away, queue, app>> /\ now' = now + 1 /\ now \in Nat
      /\ watch[t].ran \in Nat /\ watch[t].late \in Nat
  BY Typed DEF Tick
<1>6. PICK j \in Nat : j \in {0, 1} /\ (j = 1 <=> watch[t].mode = "running" /\ app \notin Hidden)
  <2>0. 0 \in Nat /\ 1 \in Nat
    OBVIOUS
  <2>1. CASE watch[t].mode = "running" /\ app \notin Hidden
    BY <2>0, <2>1
  <2>2. CASE ~(watch[t].mode = "running" /\ app \notin Hidden)
    BY <2>0, <2>2
  <2>3. QED
    BY <2>1, <2>2
<1>7. /\ watch'[t].mode = watch[t].mode /\ watch'[t].behind = watch[t].behind
      /\ watch'[t].cut = watch[t].cut
      /\ watch'[t].ran = watch[t].ran + j /\ watch'[t].late = watch[t].late + k
  BY <1>3, <1>5, <1>6, TickWatch
<1>8. PICK q \in [0..n -> Mark] : \A i \in 0..n : q[i] = Apart(tr[i], C[i])
  <2>1. \A i \in 0..n : Apart(tr[i], C[i]) \in Mark
    BY <1>1, <1>2, ApartFacts
  <2>2. [i \in 0..n |-> Apart(tr[i], C[i])] \in [0..n -> Mark]
    BY <2>1
  <2>3. QED
    BY <2>2
<1>9. Linked(t, q[0])'
  <2>1. PICK x, y \in Mark : x = tr[0] /\ y = q[0]
    BY <1>1, <1>2, <1>8
  <2>2. y.phase = x.phase /\ y.col = x.col /\ y.away = x.away
        /\ y.hp = x.hp /\ y.hq = x.hq /\ y.lp = x.lp /\ y.lq = x.lq
    <3>1. y = Apart(x, 0) /\ 0 \in Nat
      BY <1>4, <1>8, <2>1
    <3>2. x.hp \in Int /\ x.hq \in Int /\ x.lp \in Int /\ x.lq \in Int
      BY DEF Mark
    <3>3. /\ y.phase = x.phase /\ y.col = x.col /\ y.away = x.away
          /\ y.hp = x.hp + 0 /\ y.hq = x.hq + 0 /\ y.lp = x.lp - 0 /\ y.lq = x.lq - 0
      BY <3>1, ApartFacts
    <3>4. QED
      BY <3>2, <3>3
  <2>3. Linked(t, x)
    BY <1>1, <2>1 DEF Course
  <2>4. Short(t)' => Short(t)
    BY <1>5, <1>7, EventTimerAssumption DEF Short
  <2>5. Linked(t, y)'
    BY <1>5, <2>2, <2>3, <2>4 DEF Linked, Measured
  <2>6. QED
    BY <2>1, <2>5
<1>10. ASSUME NEW i \in 1..n
       PROVE  /\ Leads(queue[i], t, q[i - 1], q[i])'
              /\ (Own(queue[i], t, "end") => EndsWell(t, q[i - 1], q[i]))'
  <2>1. i - 1 \in 0..n /\ i \in 0..n
    OBVIOUS
  <2>2. PICK b \in Block : b = queue[i]
    BY <1>2 DEF TypeOK
  <2>3. PICK x, y, v, w \in Mark : x = tr[i - 1] /\ y = tr[i] /\ v = q[i - 1] /\ w = q[i]
    BY <1>1, <1>2, <1>8, <2>1
  <2>4. Leads(b, t, x, y) /\ (Own(b, t, "end") => EndsWell(t, x, y))
    BY <1>1, <1>2, <2>2, <2>3 DEF Course
  <2>5. /\ C[i - 1] \in Nat /\ C[i] \in Nat /\ C[i] <= k
        /\ C[i] = C[i - 1] + (IF b.op \in {"become", "background"} THEN 1 ELSE 0)
        /\ v = Apart(x, C[i - 1]) /\ w = Apart(y, C[i])
    BY <1>4, <1>8, <2>1, <2>2, <2>3
  <2>6. Leads(b, t, v, w)'
    BY <1>5, <2>4, <2>5, LeadsApart
  <2>7. (Own(b, t, "end") => EndsWell(t, v, w))'
    <3> SUFFICES ASSUME Own(b, t, "end") PROVE EndsWell(t, v, w)'
      BY DEF Own
    <3>1. EndsWell(t, x, y) /\ j = 0
      BY <1>6, <2>4 DEF EndsWell
    <3>2. v.phase = x.phase /\ w.lp = y.lp - C[i] /\ y.lp \in Int
      BY <2>5, ApartFacts DEF Mark
    <3>3. Calm(t)' <=> Calm(t)
      BY <1>7 DEF Calm
    <3>4. y.lp + watch[t].late >= watch[t].ran
          => (y.lp - C[i]) + (watch[t].late + k) >= watch[t].ran
      BY <1>5, <2>5, <3>2, TickSums
    <3>5. QED
      BY <1>5, <1>7, <3>1, <3>2, <3>3, <3>4 DEF EndsWell
  <2>8. QED
    BY <1>5, <2>2, <2>3, <2>6, <2>7
<1>11. ASSUME NEW i \in 0..n PROVE Within(t, q[i])'
  <2>1. PICK x, y \in Mark : x = tr[i] /\ y = q[i]
    BY <1>1, <1>2, <1>8
  <2>2. /\ C[i] \in Nat /\ C[i] <= k /\ y.hp = x.hp + C[i] /\ x.hp \in Int
        /\ y.phase = x.phase /\ Within(t, x)
    <3>1. y = Apart(x, C[i]) /\ C[i] \in Nat /\ C[i] <= k /\ Within(t, x)
      BY <1>1, <1>2, <1>4, <1>8, <2>1 DEF Course
    <3>2. x.hp \in Int
      BY DEF Mark
    <3>3. QED
      BY <3>1, <3>2, ApartFacts
  <2>3. x.hp <= watch[t].ran + watch[t].late
        => x.hp + C[i] <= (watch[t].ran + j) + (watch[t].late + k)
    BY <1>5, <2>2, TickSums
  <2>4. Within(t, y)'
    BY <1>7, <2>2, <2>3 DEF Within
  <2>5. QED
    BY <2>1, <2>4
<1>12. Final(t, q[n])'
  <2>1. PICK x, y \in Mark : x = tr[n] /\ y = q[n]
    BY <1>1, <1>2, <1>8
  <2>2. /\ y.phase = x.phase /\ y.away = x.away
        /\ y.hq = x.hq + k /\ y.lp = x.lp - k /\ y.lq = x.lq - k
        /\ x.hq \in Int /\ x.lp \in Int /\ x.lq \in Int /\ x.phase \in Phase
    <3>1. y = Apart(x, k)
      BY <1>4, <1>8, <2>1
    <3>2. x.hq \in Int /\ x.lp \in Int /\ x.lq \in Int /\ x.phase \in Phase
      BY DEF Mark
    <3>3. QED
      BY <3>1, <3>2, ApartFacts
  <2>3. Final(t, x)
    BY <1>1, <1>2, <2>1 DEF Course
  <2>4. /\ Counting(y)' <=> Counting(x)
        /\ Calm(t)' <=> Calm(t)
    BY <1>5, <1>7, <2>2 DEF Counting, Calm
  <2>5. x.phase # "none" => (j = 1 <=> Counting(x))
    BY <1>6, <2>2, <2>3, Typed DEF Final, Counting, Mode, Phase
  <2>6. Counting(x) => j = 1 /\ x.phase # "none"
    BY <2>5 DEF Counting
  <2>7. Counting(x) /\ ~watch[t].behind => y.hq + now' <= watch'[t].ran + watch'[t].late
    <3>1. x.hq + now <= watch[t].ran + watch[t].late
          => (x.hq + k) + (now + 1) <= (watch[t].ran + 1) + (watch[t].late + k)
      BY <1>5, <2>2, TickSums
    <3>2. QED
      BY <1>5, <1>7, <2>2, <2>3, <2>6, <3>1 DEF Final
  <2>8. Counting(x) /\ Calm(t) => y.lq + now' + watch'[t].late >= watch'[t].ran
    <3>1. x.lq + now + watch[t].late >= watch[t].ran
          => (x.lq - k) + (now + 1) + (watch[t].late + k) >= watch[t].ran + 1
      BY <1>5, <2>2, TickSums
    <3>2. QED
      BY <1>5, <1>7, <2>2, <2>3, <2>6, <3>1 DEF Final
  <2>9. x.phase # "none" /\ ~Counting(x) /\ Calm(t)
        => y.lp + watch'[t].late >= watch'[t].ran
    BY <1>5, <1>6, <1>7, <2>2, <2>3, <2>5 DEF Final
  <2>10. Final(t, y)'
    BY <1>5, <1>7, <2>2, <2>3, <2>4, <2>7, <2>8, <2>9 DEF Final
  <2>11. QED
    BY <2>1, <2>10
<1>13. Course(t, q)'
  BY <1>2, <1>5, <1>9, <1>10, <1>11, <1>12 DEF Course
<1>14. QED
  BY <1>2, <1>5, <1>7, <1>13 DEF Meter, Unhidden

(***************************************************************************)
(* A duration is the time the timer ran in the foreground, up to the time  *)
(* the session's blocks waited, for any number of calls, returns and       *)
(* blocks in the queue: each of them shifts it by its own wait at most.    *)
(***************************************************************************)
THEOREM DurationsCountForeground == Spec => []CountsForeground
<1>1. Init => Metered
  <2> SUFFICES ASSUME Init PROVE Metered
    OBVIOUS
  <2>1. Stamped /\ CountsForeground /\ Len(queue) = 0
    BY DEF Init, Stamped, CountsForeground, NoLongerThanForeground, NoShorterThanForeground
  <2>2. ASSUME NEW t \in Timer
        PROVE  Meter(t)
    <3>1. watch[t] = [mode |-> "none", ran |-> 0, late |-> 0, cut |-> FALSE, behind |-> FALSE]
      BY DEF Init
    <3>2. PICK x \in Mark : /\ x.phase = "none" /\ x.col = enabled /\ x.away = FALSE
                            /\ x.hp = 0
      <4> DEFINE x == [phase |-> "none", col |-> enabled, away |-> FALSE,
                       hp |-> 0, hq |-> 0, lp |-> 0, lq |-> 0]
      <4>1. x \in Mark
        BY DEF Init, Mark, Phase
      <4>2. QED
        BY <4>1
    <3>3. PICK tr \in [0..0 -> Mark] : tr[0] = x
      <4>1. [i \in 0..0 |-> x] \in [0..0 -> Mark] /\ [i \in 0..0 |-> x][0] = x
        OBVIOUS
      <4>2. QED
        BY <4>1
    <3>4. Linked(t, x) /\ Within(t, x) /\ Final(t, x)
      BY <3>1, <3>2 DEF Init, Linked, Within, Final, Counting
    <3>5. \A i \in 0..0 : i = 0
      OBVIOUS
    <3>6. \A i \in 1..0 : FALSE
      OBVIOUS
    <3>7. Course(t, tr)
      BY <2>1, <3>3, <3>4, <3>5, <3>6 DEF Course
    <3>8. QED
      BY <2>1, <3>1, <3>7 DEF Meter, Unhidden
  <2>3. QED
    BY <2>1, <2>2 DEF Metered
<1>2. TypeOK /\ TypeOK' /\ Metered /\ [Next]_vars => Metered'
  <2> SUFFICES ASSUME TypeOK, TypeOK', Metered, [Next]_vars PROVE Metered'
    OBVIOUS
  <2>1. CASE Tick
    <3>1. Stamped' /\ CountsForeground'
      BY <2>1 DEF Tick, Metered, Stamped, CountsForeground, NoLongerThanForeground,
                  NoShorterThanForeground
    <3>2. \A t \in Timer : Meter(t)'
      BY <2>1, MeterTick, MeterTickIdle DEF Metered
    <3>3. QED
      BY <3>1, <3>2 DEF Metered
  <2>2. CASE UNCHANGED vars
    BY <2>2 DEF vars, env, Metered, Stamped, CountsForeground, NoLongerThanForeground,
                NoShorterThanForeground, Meter, Unhidden, Course, Linked, Measured, Short,
                Leads, Counts, Opens, Anew, Adds, Own, Time, PhaseAfter, Within, EndsWell,
                Calm, Final, Counting
  <2>3. QED
    BY <2>1, <2>2, BlockMeters, CallMeters DEF Next
<1>3. Metered => CountsForeground
  BY DEF Metered
<1>4. QED
  BY <1>1, <1>2, <1>3, TypeCorrect, PTL DEF Spec

=============================================================================
