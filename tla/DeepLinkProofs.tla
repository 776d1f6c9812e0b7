---------------------------- MODULE DeepLinkProofs ----------------------------
(***************************************************************************)
(* Theorems about DeepLink, for any links and any number of calls and      *)
(* failures.                                                               *)
(***************************************************************************)
EXTENDS DeepLink, TLAPS

Bag == [Stage -> [Link -> Nat]]

LEMMA Threads == Thread = {"main", "growing"} /\ "main" # "growing"
  BY DEF Thread

LEMMA FrameTypes ==
    /\ Idle \in Frame
    /\ \A s \in Replay : Run(s) \in Frame
    /\ \A s \in Handling \cup Block, l \in Link : Do(s, l) \in Frame
  BY DEF Frame, Idle, Run, Do

LEMMA GotoType ==
    ASSUME TypeOK, NEW t \in Thread, NEW f \in Frame, Goto(t, f)
    PROVE  /\ at' \in [Thread -> Frame]
           /\ at'[t] = f
           /\ \A u \in Thread \ {t} : at'[u] = at[u]
  BY DEF TypeOK, Goto

LEMMA EndType ==
    ASSUME TypeOK, NEW t \in Thread, End(t)
    PROVE  /\ at' \in [Thread -> Frame]
           /\ at'[t] = Finished(t)
           /\ Finished(t) \in {Idle, Run("forget")}
           /\ \A u \in Thread \ {t} : at'[u] = at[u]
  <1>1. Finished(t) \in {Idle, Run("forget")}
    BY DEF Finished
  <1>2. Finished(t) \in Frame
    BY <1>1, FrameTypes DEF Replay
  <1>3. QED
    BY <1>1, <1>2, GotoType DEF End

(* A frame whose step handles a link has one. *)
LEMMA LinkOf ==
    ASSUME TypeOK, NEW t \in Thread
    PROVE  /\ at[t] \in Frame
           /\ at[t].step \in Handling \cup Block => at[t].link \in Link
           /\ at[t].link \in Link \cup {NoLink}
           /\ at[t] = Do(at[t].step, at[t].link)
  <1>1. at[t] \in Frame
    BY DEF TypeOK
  <1>2. QED
    BY <1>1 DEF Frame, Handling, Block, Replay, Do

LEMMA PutType ==
    ASSUME work \in Bag, NEW s \in Stage, NEW l \in Link, Put(s, l)
    PROVE  /\ work' \in Bag
           /\ work'[s][l] = work[s][l] + 1
           /\ \A u \in Stage, k \in Link : u # s \/ k # l => work'[u][k] = work[u][k]
  BY DEF Bag, Put

LEMMA TakeType ==
    ASSUME work \in Bag, NEW s \in Stage, NEW l \in Link, Take(s, l)
    PROVE  /\ work' \in Bag
           /\ work[s][l] > 0 /\ work'[s][l] = work[s][l] - 1
           /\ \A u \in Stage, k \in Link : u # s \/ k # l => work'[u][k] = work[u][k]
  BY DEF Bag, Take

LEMMA MoveType ==
    ASSUME work \in Bag, NEW s \in Stage, NEW v \in Stage \ {s}, NEW l \in Link, Move(s, v, l)
    PROVE  /\ work' \in Bag
           /\ work[s][l] > 0 /\ work'[s][l] = work[s][l] - 1
           /\ work'[v][l] = work[v][l] + 1
           /\ \A u \in Stage, k \in Link : (u # s /\ u # v) \/ k # l => work'[u][k] = work[u][k]
  <1> DEFINE w == [work EXCEPT ![s][l] = @ - 1]
  <1>1. work[s][l] > 0 /\ work' = [w EXCEPT ![v][l] = @ + 1]
    BY DEF Move
  <1>2. /\ w \in Bag /\ w[s][l] = work[s][l] - 1
        /\ \A u \in Stage, k \in Link : u # s \/ k # l => w[u][k] = work[u][k]
    BY <1>1 DEF Bag
  <1> HIDE DEF w
  <1>3. /\ work' \in Bag /\ work'[v][l] = w[v][l] + 1
        /\ \A u \in Stage, k \in Link : u # v \/ k # l => work'[u][k] = w[u][k]
    BY <1>1, <1>2 DEF Bag
  <1>4. QED
    BY <1>1, <1>2, <1>3

LEMMA CountType ==
    ASSUME NEW h \in [Link -> Nat], NEW l \in Link
    PROVE  /\ Count(h, l) \in [Link -> Nat]
           /\ Count(h, l)[l] = h[l] + 1
           /\ \A k \in Link \ {l} : Count(h, l)[k] = h[k]
  BY DEF Count

LEMMA ExcuseType == \A l : Excuse(l) \subseteq Link
  BY DEF Excuse

LEMMA FailType == errors \in Nat /\ Fail => errors' \in Nat
  BY DEF Fail

-----------------------------------------------------------------------------
(* Types *)

LEMMA InitType == Init => TypeOK
  <1> SUFFICES ASSUME Init
               PROVE  TypeOK
    OBVIOUS
  <1>1. Zero \in [Link -> Nat]
    BY DEF Zero
  <1>2. work \in [Stage -> [Link -> Nat]] /\ at \in [Thread -> Frame]
    BY <1>1, FrameTypes DEF Init
  <1>3. QED
    BY <1>1, <1>2 DEF Init, TypeOK

LEMMA HandleType ==
    ASSUME TypeOK, NEW t \in Thread, KeepUrl(t) \/ Track(t) \/ ClearUrl(t) \/ Report(t)
    PROVE  TypeOK'
  <1>1. CASE KeepUrl(t)
    <2>1. at[t].link \in Link
      BY <1>1, LinkOf DEF KeepUrl, At, Handling
    <2>2. at' \in [Thread -> Frame]
      BY <1>1, <2>1, GotoType, FrameTypes DEF KeepUrl, Handling
    <2>3. excused' \subseteq Link
      BY <1>1, ExcuseType DEF KeepUrl, TypeOK
    <2>4. QED
      BY <1>1, <2>1, <2>2, <2>3 DEF KeepUrl, TypeOK
  <1>2. CASE Track(t)
    <2>1. at[t].link \in Link
      BY <1>2, LinkOf DEF Track, At, Handling
    <2>2. at' \in [Thread -> Frame]
      BY <1>2, <2>1, GotoType, EndType, FrameTypes DEF Track, Handling, Block
    <2>3. work' \in Bag
      BY <1>2, <2>1, PutType DEF Track, TypeOK, Bag, Stage
    <2>4. excused' \subseteq Link
      BY <1>2, <2>1 DEF Track, TypeOK
    <2>5. QED
      BY <1>2, <2>2, <2>3, <2>4 DEF Track, TypeOK, Bag
  <1>3. CASE ClearUrl(t)
    <2>1. at[t].link \in Link
      BY <1>3, LinkOf DEF ClearUrl, At, Handling
    <2>2. at' \in [Thread -> Frame]
      BY <1>3, <2>1, GotoType, FrameTypes DEF ClearUrl, Handling
    <2>3. excused' \subseteq Link
      BY <1>3, ExcuseType DEF ClearUrl, TypeOK
    <2>4. QED
      BY <1>3, <2>2, <2>3 DEF ClearUrl, TypeOK
  <1>4. CASE Report(t)
    <2>1. at[t].link \in Link
      BY <1>4, LinkOf DEF Report, At, Handling
    <2>2. at' \in [Thread -> Frame]
      BY <1>4, EndType DEF Report
    <2>3. work' \in Bag
      BY <1>4, <2>1, PutType DEF Report, TypeOK, Bag, Stage
    <2>4. reports' \in [Link -> Nat] /\ told' \in [Link -> Nat]
      BY <1>4, <2>1, CountType DEF Report, TypeOK
    <2>5. QED
      BY <1>4, <2>2, <2>3, <2>4 DEF Report, TypeOK, Bag
  <1>5. QED
    BY <1>1, <1>2, <1>3, <1>4

LEMMA WorkType ==
    ASSUME TypeOK, Work
    PROVE  TypeOK'
  <1>1. ASSUME NEW l \in Link, Open(l)
        PROVE  TypeOK'
    <2>1. "main" \in Thread /\ Begins(l) \in Frame
      BY FrameTypes, Threads DEF Begins, Handling
    <2>2. at' \in [Thread -> Frame]
      BY <1>1, <2>1, GotoType DEF Open, TypeOK
    <2>3. told' \in [Link -> Nat]
      BY <1>1, CountType DEF Open, TypeOK
    <2>4. opened' \subseteq Link
      BY <1>1 DEF Open, TypeOK
    <2>5. QED
      BY <1>1, <2>2, <2>3, <2>4 DEF Open, TypeOK
  <1>2. ASSUME NEW l \in Link, NEW s \in Block, Begin(s, l)
        PROVE  TypeOK'
    <2>1. at' \in [Thread -> Frame]
      BY <1>2, GotoType, FrameTypes, Threads DEF Begin
    <2>2. work' \in Bag
      BY <1>2, TakeType DEF Begin, TypeOK, Bag, Block, Stage
    <2>3. QED
      BY <1>2, <2>1, <2>2 DEF Begin, TypeOK, Bag, history
  <1>3. ASSUME NEW l \in Link, UserAgentArrives(l)
        PROVE  TypeOK'
    <2>1. work' \in Bag
      BY <1>3, MoveType DEF UserAgentArrives, TypeOK, Bag, Stage
    <2>2. errors' \in Nat
      BY <1>3, FailType DEF UserAgentArrives, TypeOK
    <2>3. QED
      BY <1>3, <2>1, <2>2 DEF UserAgentArrives, TypeOK, Bag
  <1>4. ASSUME NEW l \in Link, Answered(l)
        PROVE  TypeOK'
    <2>1. work' \in Bag
      BY <1>4, MoveType DEF Answered, TypeOK, Bag, Stage
    <2>2. told' \in [Link -> Nat]
      BY <1>4, CountType DEF Answered, TypeOK
    <2>3. QED
      BY <1>4, <2>1, <2>2 DEF Answered, TypeOK, Bag
  <1>5. ASSUME NEW l \in Link, AnsweredInPart(l) \/ RequestFails(l)
        PROVE  TypeOK'
    <2>1. work' \in Bag
      BY <1>5, TakeType DEF AnsweredInPart, RequestFails, TypeOK, Bag, Stage
    <2>2. told' \in [Link -> Nat]
      BY <1>5, CountType DEF AnsweredInPart, RequestFails, TypeOK
    <2>3. errors' \in Nat
      BY <1>5, FailType DEF AnsweredInPart, RequestFails, TypeOK
    <2>4. QED
      BY <1>5, <2>1, <2>2, <2>3 DEF AnsweredInPart, RequestFails, TypeOK, Bag
  <1>6. QED
    BY <1>1, <1>2, <1>3, <1>4, <1>5 DEF Work

LEMMA GrowingType ==
    ASSUME TypeOK, Growing
    PROVE  TypeOK'
  <1>0. "growing" \in Thread /\ work \in Bag
    BY Threads DEF TypeOK, Bag
  <1>1. at["growing"].step \in Handling \cup Block => at["growing"].link \in Link
    BY <1>0, LinkOf
  <1>2. CASE ShortLink
    <2>1. at["growing"].link \in Link
      BY <1>1, <1>2 DEF ShortLink, At, Block
    <2>2. at' \in [Thread -> Frame]
      BY <1>0, <1>2, <2>1, GotoType, EndType, FrameTypes DEF ShortLink, Block
    <2>3. work' \in Bag
      BY <1>0, <1>2, <2>1, PutType DEF ShortLink, Stage
    <2>4. QED
      BY <1>2, <2>2, <2>3 DEF ShortLink, TypeOK, Bag, history
  <1>3. CASE PreRequest
    <2>1. at["growing"].link \in Link
      BY <1>1, <1>3 DEF PreRequest, At, Block
    <2>2. at' \in [Thread -> Frame]
      BY <1>0, <1>3, EndType DEF PreRequest
    <2>3. work' \in Bag
      BY <1>0, <1>3, <2>1, PutType DEF PreRequest, Stage
    <2>4. excused' \subseteq Link
      BY <1>3, <2>1, ExcuseType DEF PreRequest, TypeOK
    <2>5. QED
      BY <1>3, <2>2, <2>3, <2>4 DEF PreRequest, TypeOK, Bag
  <1>4. CASE NoUserAgent
    <2>1. at["growing"].link \in Link
      BY <1>1, <1>4 DEF NoUserAgent, At, Block
    <2>2. at' \in [Thread -> Frame]
      BY <1>0, <1>4, EndType DEF NoUserAgent
    <2>3. excused' \subseteq Link
      BY <1>4, <2>1, ExcuseType DEF NoUserAgent, TypeOK
    <2>4. QED
      BY <1>4, <2>2, <2>3 DEF NoUserAgent, TypeOK
  <1>5. CASE GenerateAppReengage
    <2>1. at["growing"].link \in Link
      BY <1>1, <1>5 DEF GenerateAppReengage, At, Block
    <2>2. at' \in [Thread -> Frame]
      BY <1>0, <1>5, EndType DEF GenerateAppReengage
    <2>3. reports' \in [Link -> Nat]
      BY <1>5, <2>1, CountType DEF GenerateAppReengage, TypeOK
    <2>4. QED
      BY <1>5, <2>2, <2>3 DEF GenerateAppReengage, TypeOK
  <1>6. CASE SetDataCollectionEnabled
    <2>1. at' \in [Thread -> Frame]
      BY <1>0, <1>6, GotoType, FrameTypes DEF SetDataCollectionEnabled, TypeOK, Replay
    <2>2. QED
      BY <1>6, <2>1 DEF SetDataCollectionEnabled, TypeOK
  <1>7. CASE ReadUrl
    <2>1. at' \in [Thread -> Frame]
      BY <1>0, <1>7, GotoType, FrameTypes DEF ReadUrl, Replay
    <2>2. QED
      BY <1>7, <2>1 DEF ReadUrl, TypeOK, history
  <1>8. CASE CopyUrl
    <2>1. (IF deeplinkUrl = NoLink THEN Run("forget") ELSE Do("url", deeplinkUrl)) \in Frame
      BY FrameTypes DEF TypeOK, Replay, Handling
    <2>2. at' \in [Thread -> Frame]
      BY <1>0, <1>8, <2>1, GotoType DEF CopyUrl
    <2>3. QED
      BY <1>8, <2>2 DEF CopyUrl, TypeOK, history
  <1>9. CASE ForgetUrl
    <2>1. at' \in [Thread -> Frame]
      BY <1>0, <1>9, GotoType, FrameTypes DEF ForgetUrl
    <2>2. excused' \subseteq Link
      BY <1>9, ExcuseType DEF ForgetUrl, TypeOK
    <2>3. QED
      BY <1>9, <2>1, <2>2 DEF ForgetUrl, TypeOK
  <1>10. QED
    BY <1>2, <1>3, <1>4, <1>5, <1>6, <1>7, <1>8, <1>9 DEF Growing

LEMMA NextType == TypeOK /\ [Next]_vars => TypeOK'
  <1>1. TypeOK /\ UNCHANGED vars => TypeOK'
    BY DEF TypeOK, vars, history
  <1>2. QED
    BY <1>1, HandleType, WorkType, GrowingType DEF Next, Handle

(* The variables have their types, and a thread that handles a link has one. *)
THEOREM TypeCorrect == Spec => []TypeOK
  <1>1. QED
    BY InitType, NextType, PTL DEF Spec

-----------------------------------------------------------------------------
(* What each thread may be doing *)

(* Only GrowingThread changes enabled, so a replay runs with it on. *)
Shape ==
    /\ at["main"].step \in Handling \cup {"idle"}
    /\ \A t \in Thread : at[t].step \in {"clear", "report"} => at[t].link \in Complete \cup Partial
    /\ at["growing"].step \in Handling \cup {"forget"} => replaying
    /\ replaying => enabled /\ at["growing"].step \in Handling \cup {"short", "agent", "forget"}
    /\ at["growing"].step \in Replay => enabled

(* The frames before and after each step; the other thread keeps its own. *)
LEMMA KeepUrlAt ==
    ASSUME TypeOK, NEW t \in Thread, KeepUrl(t)
    PROVE  /\ at[t].step = "url" /\ at[t].link \in Link
           /\ at'[t] = Do("track", at[t].link)
           /\ \A u \in Thread \ {t} : at'[u] = at[u]
  <1>1. at[t].step = "url" /\ at[t].link \in Link
    BY LinkOf DEF KeepUrl, At, Handling
  <1>2. QED
    BY <1>1, GotoType, FrameTypes DEF KeepUrl, Handling

LEMMA TrackAt ==
    ASSUME TypeOK, NEW t \in Thread, Track(t)
    PROVE  /\ at[t].step = "track" /\ at[t].link \in Link
           /\ \/ /\ at'[t] = Finished(t)
                 /\ ~enabled \/ at[t].link \in Other \/ (at[t].link \in Short /\ t = "main")
              \/ /\ enabled /\ at[t].link \in Short
                 /\ t = "growing" /\ at'[t] = Do("short", at[t].link)
              \/ /\ enabled /\ at[t].link \in Complete \cup Partial
                 /\ at'[t] = Do("clear", at[t].link)
           /\ \A u \in Thread \ {t} : at'[u] = at[u]
  <1>1. at[t].step = "track" /\ at[t].link \in Link
    BY LinkOf DEF Track, At, Handling
  <1>2. QED
    BY <1>1, GotoType, EndType, FrameTypes DEF Track, Handling, Block

LEMMA ClearUrlAt ==
    ASSUME TypeOK, NEW t \in Thread, ClearUrl(t)
    PROVE  /\ at[t].step = "clear" /\ at[t].link \in Link
           /\ at'[t] = Do("report", at[t].link)
           /\ \A u \in Thread \ {t} : at'[u] = at[u]
  <1>1. at[t].step = "clear" /\ at[t].link \in Link
    BY LinkOf DEF ClearUrl, At, Handling
  <1>2. QED
    BY <1>1, GotoType, FrameTypes DEF ClearUrl, Handling

LEMMA ReportAt ==
    ASSUME TypeOK, NEW t \in Thread, Report(t)
    PROVE  /\ at[t].step = "report" /\ at[t].link \in Link
           /\ at'[t] = Finished(t)
           /\ \A u \in Thread \ {t} : at'[u] = at[u]
  <1>1. at[t].step = "report" /\ at[t].link \in Link
    BY LinkOf DEF Report, At, Handling
  <1>2. QED
    BY <1>1, EndType DEF Report

LEMMA OpenAt ==
    ASSUME TypeOK, NEW l \in Link, Open(l)
    PROVE  /\ at["main"] = Idle /\ at'["growing"] = at["growing"]
           /\ \/ l \in Foreign /\ at'["main"] = Idle
              \/ l \notin Foreign /\ at'["main"] = Begins(l)
  <1>1. at["main"] = Idle /\ Begins(l) \in Frame
    BY FrameTypes DEF Open, Begins, Handling
  <1>2. QED
    BY <1>1, GotoType, Threads DEF Open

LEMMA BeginAt ==
    ASSUME TypeOK, NEW l \in Link, NEW s \in Block, Begin(s, l)
    PROVE  /\ at["growing"] = Idle /\ at'["growing"] = Do(s, l)
           /\ at'["main"] = at["main"]
  BY GotoType, FrameTypes, Threads DEF Begin

LEMMA BlockAt ==
    ASSUME TypeOK, ShortLink \/ PreRequest \/ NoUserAgent \/ GenerateAppReengage
    PROVE  /\ at["growing"].step \in Block /\ at["growing"].link \in Link
           /\ \/ at'["growing"] = Finished("growing")
              \/ /\ at["growing"].step = "short"
                 /\ at'["growing"] = Do("agent", at["growing"].link)
           /\ at'["main"] = at["main"]
  <1>1. at["growing"].step \in Block
    BY DEF ShortLink, PreRequest, NoUserAgent, GenerateAppReengage, At, Block
  <1>2. at["growing"].link \in Link
    BY <1>1, LinkOf, Threads
  <1>3. QED
    BY <1>1, <1>2, GotoType, EndType, FrameTypes, Threads
    DEF ShortLink, PreRequest, NoUserAgent, GenerateAppReengage, At, Block

LEMMA ToggleAt ==
    ASSUME TypeOK, SetDataCollectionEnabled
    PROVE  /\ at["growing"] = Idle /\ at'["main"] = at["main"]
           /\ \/ enabled /\ enabled' = FALSE /\ at'["growing"] = Idle
              \/ ~enabled /\ enabled' = TRUE /\ at'["growing"] = Run("read")
  <1>1. at["growing"] = Idle /\ enabled' = ~enabled /\ enabled \in BOOLEAN
    BY DEF SetDataCollectionEnabled, TypeOK
  <1>2. QED
    BY <1>1, GotoType, FrameTypes, Threads DEF SetDataCollectionEnabled, Replay

LEMMA ReadUrlAt ==
    ASSUME TypeOK, ReadUrl
    PROVE  /\ at["growing"].step = "read" /\ at'["main"] = at["main"]
           /\ \/ deeplinkUrl = NoLink /\ at'["growing"] = Idle
              \/ deeplinkUrl # NoLink /\ at'["growing"] = Run("copy")
  BY GotoType, FrameTypes, Threads DEF ReadUrl, At, Replay

LEMMA CopyUrlAt ==
    ASSUME TypeOK, CopyUrl
    PROVE  /\ at["growing"].step = "copy" /\ at'["main"] = at["main"]
           /\ \/ deeplinkUrl = NoLink /\ at'["growing"] = Run("forget")
              \/ deeplinkUrl \in Link /\ at'["growing"] = Do("url", deeplinkUrl)
  BY GotoType, FrameTypes, Threads DEF CopyUrl, At, Replay, Handling, TypeOK

LEMMA ForgetUrlAt ==
    ASSUME TypeOK, ForgetUrl
    PROVE  /\ at["growing"].step = "forget" /\ at'["growing"] = Idle
           /\ at'["main"] = at["main"]
  BY GotoType, FrameTypes, Threads DEF ForgetUrl, At

LEMMA ShapeStep ==
    ASSUME TypeOK, Shape, Next
    PROVE  Shape'
  <1>1. ASSUME NEW t \in Thread, KeepUrl(t)
        PROVE  Shape'
    <2>1. UNCHANGED <<enabled, replaying>>
      BY <1>1 DEF KeepUrl
    <2>2. QED
      BY <1>1, <2>1, KeepUrlAt, Threads DEF Shape, Do, Handling, Replay
  <1>2. ASSUME NEW t \in Thread, Track(t)
        PROVE  Shape'
    <2>1. UNCHANGED <<enabled, replaying>>
      BY <1>2 DEF Track
    <2>2. QED
      BY <1>2, <2>1, TrackAt, Threads DEF Shape, Do, Idle, Run, Finished, Handling, Replay
  <1>3. ASSUME NEW t \in Thread, ClearUrl(t)
        PROVE  Shape'
    <2>1. UNCHANGED <<enabled, replaying>>
      BY <1>3 DEF ClearUrl
    <2>2. QED
      BY <1>3, <2>1, ClearUrlAt, Threads DEF Shape, Do, Handling, Replay
  <1>4. ASSUME NEW t \in Thread, Report(t)
        PROVE  Shape'
    <2>1. UNCHANGED <<enabled, replaying>>
      BY <1>4 DEF Report
    <2>2. QED
      BY <1>4, <2>1, ReportAt, Threads DEF Shape, Idle, Run, Finished, Handling, Replay
  <1>5. ASSUME NEW l \in Link, Open(l)
        PROVE  Shape'
    <2>1. UNCHANGED <<enabled, replaying>>
      BY <1>5 DEF Open
    <2>a. at'["main"] \in {Idle, Begins(l)} /\ at'["growing"] = at["growing"]
      BY <1>5, OpenAt
    <2>2. at'["main"].step \in {"idle", "url", "track"} /\ at'["growing"] = at["growing"]
      BY <2>a DEF Begins, Idle, Do
    <2>3. QED
      BY <2>1, <2>2, Threads DEF Shape, Handling
  <1>6. ASSUME NEW l \in Link, NEW s \in Block, Begin(s, l)
        PROVE  Shape'
    <2>1. UNCHANGED <<enabled, replaying>>
      BY <1>6 DEF Begin
    <2>a. at["growing"] = Idle /\ at'["growing"] = Do(s, l) /\ at'["main"] = at["main"]
      BY <1>6, BeginAt
    <2>2. at["growing"].step = "idle" /\ at'["growing"].step = s /\ at'["main"] = at["main"]
      BY <2>a DEF Idle, Do
    <2>3. QED
      BY <2>1, <2>2, Threads DEF Shape, Handling, Replay, Block
  <1>7. ASSUME NEW l \in Link,
               UserAgentArrives(l) \/ Answered(l) \/ AnsweredInPart(l) \/ RequestFails(l)
        PROVE  Shape'
    <2>1. UNCHANGED <<enabled, replaying, at>>
      BY <1>7 DEF UserAgentArrives, Answered, AnsweredInPart, RequestFails
    <2>2. QED
      BY <2>1 DEF Shape
  <1>8. CASE ShortLink \/ PreRequest \/ NoUserAgent \/ GenerateAppReengage
    <2>1. UNCHANGED <<enabled, replaying>>
      BY <1>8 DEF ShortLink, PreRequest, NoUserAgent, GenerateAppReengage
    <2>2. QED
      BY <1>8, <2>1, BlockAt, Threads DEF Shape, Do, Idle, Run, Finished, Handling, Replay, Block
  <1>9. CASE SetDataCollectionEnabled
    <2>1. ~replaying /\ UNCHANGED replaying
      BY <1>9, ToggleAt DEF SetDataCollectionEnabled, Shape, Idle, Handling
    <2>a. at'["growing"] = Idle \/ (at'["growing"] = Run("read") /\ enabled' = TRUE)
      BY <1>9, ToggleAt
    <2>0. at'["growing"].step = "idle" \/ (at'["growing"].step = "read" /\ enabled' = TRUE)
      BY <2>a DEF Idle, Run
    <2>2. at'["growing"].step \notin Handling \cup {"forget"}
      BY <2>0 DEF Handling
    <2>3. at'["growing"].step \in Replay => enabled'
      BY <2>0 DEF Replay
    <2>4. \A t \in Thread : at'[t].step \in {"clear", "report"} => at'[t].link \in Complete \cup Partial
      BY <1>9, <2>2, ToggleAt, Threads DEF Shape, Handling
    <2>5. at'["main"].step \in Handling \cup {"idle"}
      BY <1>9, ToggleAt DEF Shape
    <2>6. QED
      BY <2>1, <2>2, <2>3, <2>4, <2>5 DEF Shape
  <1>10. CASE ReadUrl
    <2>1. UNCHANGED <<enabled, replaying>>
      BY <1>10 DEF ReadUrl
    <2>2. QED
      BY <1>10, <2>1, ReadUrlAt, Threads DEF Shape, Idle, Run, Handling, Replay
  <1>11. CASE CopyUrl
    <2>1. UNCHANGED enabled /\ replaying' = TRUE
      BY <1>11 DEF CopyUrl
    <2>2. QED
      BY <1>11, <2>1, CopyUrlAt, Threads DEF Shape, Do, Run, Handling, Replay
  <1>12. CASE ForgetUrl
    <2>1. UNCHANGED enabled /\ replaying' = FALSE
      BY <1>12 DEF ForgetUrl
    <2>2. QED
      BY <1>12, <2>1, ForgetUrlAt, Threads DEF Shape, Idle, Handling, Replay
  <1>13. QED
    BY <1>1, <1>2, <1>3, <1>4, <1>5, <1>6, <1>7, <1>8, <1>9, <1>10, <1>11, <1>12
    DEF Next, Handle, Work, Growing

LEMMA ShapeStart == Init => Shape
  BY Threads DEF Init, Shape, Idle, Handling, Replay

Types == TypeOK /\ Shape

LEMMA TypesAlways == Spec => []Types
  <1>1. Init => Types
    BY InitType, ShapeStart DEF Types
  <1>2. Types /\ UNCHANGED vars => Types'
    BY NextType DEF Types, vars, Shape
  <1>3. Types /\ Next => Types'
    BY NextType, ShapeStep DEF Types
  <1>4. QED
    BY <1>1, <1>2, <1>3, PTL DEF Spec

-----------------------------------------------------------------------------
(* What is kept *)

LEMMA Kinds ==
    /\ \A l \in Promised \cup Partial :
          l \in Link /\ l \notin Other \cup Foreign /\ l # NoLink
    /\ Complete \cup Partial \subseteq Link
    /\ \A l \in Complete \cup Partial : l \notin Short
  BY DeepLinkAssumption DEF Promised, Link

(* Whoever will clear deeplinkUrl, when collection is on and a link is kept. *)
Leads(l) ==
    \/ at["main"] \in {Do("track", l), Do("clear", l)}
    \/ \E s \in {"short", "waiting", "agent", "noAgent"} : work[s][l] > 0
    \/ at["growing"].step \in {"read", "copy"}
    \/ replaying
    \/ at["growing"] \in {Do("short", l), Do("agent", l), Do("noAgent", l)}

Cleared == enabled /\ deeplinkUrl \in Promised \cup Partial => Leads(deeplinkUrl)

LEMMA ClearedHandle ==
    ASSUME Types, Cleared, NEW t \in Thread, KeepUrl(t) \/ Track(t) \/ ClearUrl(t) \/ Report(t)
    PROVE  Cleared'
  <1> USE DEF Types
  <1> DEFINE l == at[t].link
  <1>1. CASE t = "growing"
    <2>1. at["growing"].step \in Handling
      BY <1>1 DEF KeepUrl, Track, ClearUrl, Report, At, Handling
    <2>2. replaying /\ UNCHANGED replaying
      BY <2>1 DEF Shape, KeepUrl, Track, ClearUrl, Report
    <2>3. QED
      BY <2>2 DEF Cleared, Leads
  <1>2. CASE t = "main"
    <2>1. CASE KeepUrl(t)
      <3>1. deeplinkUrl' = l /\ at'["main"] = Do("track", l)
        BY <1>2, <2>1, KeepUrlAt DEF KeepUrl
      <3>2. QED
        BY <3>1 DEF Cleared, Leads
    <2>2. CASE Track(t)
      <3> SUFFICES ASSUME enabled, deeplinkUrl \in Promised \cup Partial
                   PROVE  Leads(deeplinkUrl)'
        BY <2>2 DEF Cleared, Track
      <3>1. Leads(deeplinkUrl)
        BY DEF Cleared
      <3>2. UNCHANGED <<deeplinkUrl, replaying>> /\ at'["growing"] = at["growing"]
        BY <1>2, <2>2, TrackAt, Threads DEF Track
      <3>3. at[t].step = "track" /\ l \in Link
        BY <2>2, TrackAt
      <3>4. work' = work \/ Put("short", l)
        BY <2>2 DEF Track
      <3>5. \A s \in Stage, k \in Link : work'[s][k] >= work[s][k]
        <4>1. work \in Bag
          BY DEF TypeOK, Bag
        <4>2. CASE work' = work
          BY <4>1, <4>2 DEF Bag
        <4>3. CASE Put("short", l)
          <5>1. /\ work'["short"][l] = work["short"][l] + 1
                /\ \A u \in Stage, k \in Link : u # "short" \/ k # l => work'[u][k] = work[u][k]
            BY <3>3, <4>1, <4>3, PutType DEF Stage
          <5>2. QED
            BY <4>1, <5>1 DEF Bag
        <4>4. QED
          BY <3>4, <4>2, <4>3
      <3>6. deeplinkUrl \in Link
        BY Kinds
      <3>7. CASE at["main"] \in {Do("track", deeplinkUrl), Do("clear", deeplinkUrl)}
        <4>1. l = deeplinkUrl
          BY <1>2, <3>7 DEF Do
        <4>2. CASE l \in Short
          <5>1. Put("short", l)
            BY <1>2, <2>2, <4>1, <4>2, Kinds, Threads DEF Track
          <5>2. work \in Bag
            BY DEF TypeOK, Bag
          <5>3. work'["short"][l] = work["short"][l] + 1 /\ work["short"][l] \in Nat
            BY <3>3, <5>1, <5>2, PutType DEF Stage, Bag
          <5>4. QED
            BY <3>2, <4>1, <5>3 DEF Leads
        <4>3. CASE l \notin Short
          <5>1. at'["main"] = Do("clear", l)
            BY <1>2, <2>2, <4>1, <4>3, TrackAt, Kinds
          <5>2. QED
            BY <3>2, <4>1, <5>1 DEF Leads
        <4>4. QED
          BY <4>2, <4>3
      <3>8. CASE \E s \in {"short", "waiting", "agent", "noAgent"} : work[s][deeplinkUrl] > 0
        <4>1. PICK s \in {"short", "waiting", "agent", "noAgent"} : work[s][deeplinkUrl] > 0
          BY <3>8
        <4>2. s \in Stage
          BY DEF Stage
        <4>3. work'[s][deeplinkUrl] > 0
          <5>1. work'[s][deeplinkUrl] \in Nat /\ work[s][deeplinkUrl] \in Nat
            BY <2>2, <3>6, <4>2, NextType DEF Next, Handle, TypeOK
          <5>2. QED
            BY <3>5, <3>6, <4>1, <4>2, <5>1
        <4>4. QED
          BY <3>2, <4>3 DEF Leads
      <3>9. CASE \/ at["growing"].step \in {"read", "copy"} \/ replaying
                 \/ at["growing"] \in {Do("short", deeplinkUrl), Do("agent", deeplinkUrl),
                                       Do("noAgent", deeplinkUrl)}
        BY <3>2, <3>9 DEF Leads
      <3>10. QED
        BY <3>1, <3>7, <3>8, <3>9 DEF Leads
    <2>3. CASE ClearUrl(t)
      <3>1. deeplinkUrl' = NoLink
        BY <2>3 DEF ClearUrl
      <3>2. QED
        BY <3>1, Kinds DEF Cleared
    <2>4. CASE Report(t)
      <3>1. UNCHANGED <<enabled, deeplinkUrl, replaying>> /\ at'["growing"] = at["growing"]
        BY <1>2, <2>4, ReportAt, Threads DEF Report
      <3>2. at["main"].step = "report" /\ l \in Link
        BY <1>2, <2>4, ReportAt
      <3>3. work' = work \/ Put("reengage", l)
        BY <2>4 DEF Report
      <3>4. \A s \in Stage \ {"reengage"}, k \in Link : work'[s][k] = work[s][k]
        BY <3>2, <3>3, PutType DEF TypeOK, Bag, Stage
      <3>5. deeplinkUrl \in Promised \cup Partial =>
                \A s \in {"short", "waiting", "agent", "noAgent"} :
                    work'[s][deeplinkUrl] = work[s][deeplinkUrl]
        BY <3>4, Kinds DEF Stage
      <3>6. \A k : at["main"] \notin {Do("track", k), Do("clear", k)}
        BY <3>2 DEF Do
      <3>7. QED
        BY <3>1, <3>5, <3>6 DEF Cleared, Leads
    <2>5. QED
      BY <2>1, <2>2, <2>3, <2>4
  <1>3. QED
    BY <1>1, <1>2, Threads

LEMMA ClearedWork ==
    ASSUME Types, Cleared, Work
    PROVE  Cleared'
  <1> USE DEF Types
  <1> SUFFICES ASSUME enabled', deeplinkUrl' \in Promised \cup Partial
               PROVE  Leads(deeplinkUrl)'
    BY DEF Cleared
  <1>1. UNCHANGED <<enabled, deeplinkUrl, replaying>>
    BY DEF Work, Open, Begin, UserAgentArrives, Answered, AnsweredInPart, RequestFails
  <1>2. Leads(deeplinkUrl) /\ deeplinkUrl \in Link
    BY <1>1, Kinds DEF Cleared
  <1>3. work \in Bag
    BY DEF TypeOK, Bag
  <1>4. ASSUME NEW l \in Link, Open(l)
        PROVE  Leads(deeplinkUrl)'
    <2>1. at["main"] = Idle /\ at'["growing"] = at["growing"] /\ UNCHANGED work
      BY <1>4, OpenAt DEF Open
    <2>2. \A k : at["main"] \notin {Do("track", k), Do("clear", k)}
      BY <2>1 DEF Do, Idle
    <2>3. QED
      BY <1>1, <1>2, <2>1, <2>2 DEF Leads
  <1>5. ASSUME NEW l \in Link, NEW s \in Block, Begin(s, l)
        PROVE  Leads(deeplinkUrl)'
    <2>1. at["growing"] = Idle /\ at'["growing"] = Do(s, l) /\ at'["main"] = at["main"]
      BY <1>5, BeginAt
    <2>2. /\ at["growing"].step \notin {"read", "copy"}
          /\ \A u, k : u \in {"short", "agent", "noAgent"} => at["growing"] # Do(u, k)
      BY <2>1 DEF Do, Idle
    <2>3. Take(s, l) /\ s \in Stage
      BY <1>5 DEF Begin, Block, Stage
    <2>4. \A u \in Stage, k \in Link : u # s \/ k # l => work'[u][k] = work[u][k]
      BY <1>3, <2>3, TakeType
    <2>5. ASSUME NEW u \in {"short", "waiting", "agent", "noAgent"}, work[u][deeplinkUrl] > 0
          PROVE  Leads(deeplinkUrl)'
      <3>1. CASE u = s /\ deeplinkUrl = l
        <4>1. s \in {"short", "agent", "noAgent"}
          BY <3>1 DEF Block
        <4>2. QED
          BY <1>1, <2>1, <3>1, <4>1 DEF Leads
      <3>2. CASE ~(u = s /\ deeplinkUrl = l)
        <4>1. work'[u][deeplinkUrl] > 0
          BY <1>2, <2>4, <2>5, <3>2 DEF Stage
        <4>2. QED
          BY <1>1, <4>1 DEF Leads
      <3>3. QED
        BY <3>1, <3>2
    <2>6. QED
      BY <1>1, <1>2, <2>1, <2>2, <2>5 DEF Leads
  <1>6. ASSUME NEW l \in Link, UserAgentArrives(l)
        PROVE  Leads(deeplinkUrl)'
    <2>1. PICK v \in {"agent", "noAgent"} : Move("waiting", v, l)
      BY <1>6 DEF UserAgentArrives
    <2>2. /\ work' \in Bag /\ work'[v][l] = work[v][l] + 1
          /\ \A u \in Stage, k \in Link :
                (u # "waiting" /\ u # v) \/ k # l => work'[u][k] = work[u][k]
      BY <1>3, <2>1, MoveType DEF Stage
    <2>3. work[v][l] \in Nat
      BY <1>3 DEF Bag, Stage
    <2>4. ASSUME NEW u \in {"short", "waiting", "agent", "noAgent"}, work[u][deeplinkUrl] > 0
          PROVE  \E w \in {"short", "waiting", "agent", "noAgent"} : work'[w][deeplinkUrl] > 0
      <3>1. CASE deeplinkUrl = l /\ u \in {"waiting", v}
        BY <2>2, <2>3, <3>1
      <3>2. CASE ~(deeplinkUrl = l /\ u \in {"waiting", v})
        BY <1>2, <2>2, <2>4, <3>2 DEF Stage
      <3>3. QED
        BY <3>1, <3>2
    <2>5. UNCHANGED at
      BY <1>6 DEF UserAgentArrives
    <2>6. QED
      BY <1>1, <1>2, <2>4, <2>5 DEF Leads
  <1>7. ASSUME NEW l \in Link, Answered(l) \/ AnsweredInPart(l) \/ RequestFails(l)
        PROVE  Leads(deeplinkUrl)'
    <2>1. UNCHANGED at
      BY <1>7 DEF Answered, AnsweredInPart, RequestFails
    <2>2. Move("sent", "reengage", l) \/ Take("sent", l)
      BY <1>7 DEF Answered, AnsweredInPart, RequestFails
    <2>3. \A u \in {"short", "waiting", "agent", "noAgent"}, k \in Link : work'[u][k] = work[u][k]
      BY <1>3, <2>2, MoveType, TakeType DEF Stage
    <2>4. QED
      BY <1>1, <1>2, <2>1, <2>3 DEF Leads
  <1>8. QED
    BY <1>4, <1>5, <1>6, <1>7 DEF Work

LEMMA ClearedGrowing ==
    ASSUME Types, Cleared, Growing
    PROVE  Cleared'
  <1> USE DEF Types
  <1>1. work \in Bag
    BY DEF TypeOK, Bag
  <1>2. CASE ShortLink
    <2> SUFFICES ASSUME enabled, deeplinkUrl \in Promised \cup Partial
                 PROVE  Leads(deeplinkUrl)'
      BY <1>2 DEF ShortLink, Cleared
    <2> DEFINE l == at["growing"].link
    <2>1. UNCHANGED <<deeplinkUrl, replaying>> /\ at'["main"] = at["main"]
      BY <1>2, BlockAt DEF ShortLink
    <2>2. Leads(deeplinkUrl) /\ deeplinkUrl \in Link
      BY Kinds DEF Cleared
    <2>3. at["growing"].step = "short" /\ l \in Link
      BY <1>2, BlockAt DEF ShortLink, At
    <2>4. \/ at'["growing"] = Do("agent", l) /\ work' = work
          \/ Put("waiting", l)
      BY <1>2, GotoType, FrameTypes, Threads, <2>3 DEF ShortLink, Block
    <2>5. CASE at'["growing"] = Do("agent", l) /\ work' = work
      <3>1. at["growing"].step \notin {"read", "copy"}
        BY <2>3
      <3>2. at["growing"] \in {Do("short", deeplinkUrl), Do("agent", deeplinkUrl),
                               Do("noAgent", deeplinkUrl)} => l = deeplinkUrl
        BY DEF Do
      <3>3. QED
        BY <2>1, <2>2, <2>5, <3>1, <3>2 DEF Leads
    <2>6. CASE Put("waiting", l)
      <3>1. /\ work' \in Bag /\ work'["waiting"][l] = work["waiting"][l] + 1
            /\ \A u \in Stage, k \in Link : u # "waiting" \/ k # l => work'[u][k] = work[u][k]
        BY <1>1, <2>3, <2>6, PutType DEF Stage
      <3>2. work["waiting"][l] \in Nat
        BY <1>1, <2>3 DEF Bag, Stage
      <3>3. CASE l = deeplinkUrl
        <4>1. work'["waiting"][deeplinkUrl] > 0
          BY <3>1, <3>2, <3>3
        <4>2. QED
          BY <2>1, <4>1 DEF Leads
      <3>4. CASE l # deeplinkUrl
        <4>1. /\ at["growing"].step \notin {"read", "copy"}
              /\ at["growing"] \notin {Do("short", deeplinkUrl), Do("agent", deeplinkUrl),
                                       Do("noAgent", deeplinkUrl)}
          BY <2>3, <3>4 DEF Do
        <4>2. \A u \in {"short", "waiting", "agent", "noAgent"} :
                  work'[u][deeplinkUrl] = work[u][deeplinkUrl]
          BY <2>2, <3>1, <3>4 DEF Stage
        <4>3. QED
          BY <2>1, <2>2, <4>1, <4>2 DEF Leads
      <3>5. QED
        BY <3>3, <3>4
    <2>7. QED
      BY <2>4, <2>5, <2>6
  <1>3. CASE PreRequest \/ NoUserAgent
    <2>1. enabled' => deeplinkUrl' = NoLink
      BY <1>3 DEF PreRequest, NoUserAgent
    <2>2. QED
      BY <2>1, Kinds DEF Cleared
  <1>4. CASE GenerateAppReengage
    <2>1. /\ at["growing"].step = "reengage" /\ at'["main"] = at["main"]
          /\ UNCHANGED <<enabled, deeplinkUrl, replaying, work>>
      BY <1>4, BlockAt DEF GenerateAppReengage, At
    <2>2. \A k : at["growing"] \notin {Do("short", k), Do("agent", k), Do("noAgent", k)}
      BY <2>1 DEF Do
    <2>3. QED
      BY <2>1, <2>2 DEF Cleared, Leads
  <1>5. CASE SetDataCollectionEnabled
    <2>1. enabled' = FALSE \/ at'["growing"] = Run("read")
      BY <1>5, ToggleAt
    <2>2. at'["growing"] = Run("read") => at'["growing"].step = "read"
      BY DEF Run
    <2>3. QED
      BY <2>1, <2>2 DEF Cleared, Leads
  <1>6. CASE ReadUrl
    <2>1. UNCHANGED deeplinkUrl
      BY <1>6 DEF ReadUrl
    <2>2. deeplinkUrl = NoLink \/ at'["growing"] = Run("copy")
      BY <1>6, ReadUrlAt
    <2>3. at'["growing"] = Run("copy") => at'["growing"].step = "copy"
      BY DEF Run
    <2>4. QED
      BY <2>1, <2>2, <2>3, Kinds DEF Cleared, Leads
  <1>7. CASE CopyUrl
    BY <1>7 DEF CopyUrl, Cleared, Leads
  <1>8. CASE ForgetUrl
    BY <1>8, Kinds DEF ForgetUrl, Cleared
  <1>9. QED
    BY <1>2, <1>3, <1>4, <1>5, <1>6, <1>7, <1>8 DEF Growing

(* A link that was handled is not kept: whatever the two threads do, and however *)
(* often data collection is switched, no later replay finds it.                 *)
THEOREM Forgets == Spec => []HandledIsForgotten
  <1>1. Init => Cleared
    BY Kinds DEF Init, Cleared
  <1>2. Types /\ Cleared /\ [Next]_vars => Cleared'
    <2>1. Cleared /\ UNCHANGED vars => Cleared'
      BY DEF Cleared, Leads, vars
    <2>2. QED
      BY <2>1, ClearedHandle, ClearedWork, ClearedGrowing DEF Next, Handle
  <1>3. Types /\ Cleared => HandledIsForgotten
    <2> SUFFICES ASSUME Types, Cleared, Quiet, enabled, deeplinkUrl \in Promised \cup Partial
                 PROVE  FALSE
      BY DEF HandledIsForgotten
    <2>1. deeplinkUrl \in Link /\ Leads(deeplinkUrl)
      BY Kinds DEF Cleared
    <2>2. at["main"].step = "idle" /\ at["growing"].step = "idle"
      BY Threads DEF Quiet, Idle
    <2>3. ~replaying
      BY <2>2 DEF Types, Shape, Handling
    <2>4. \A s \in Stage : ~(work[s][deeplinkUrl] > 0)
      BY <2>1 DEF Quiet, Underway
    <2>5. \A k : /\ at["main"] \notin {Do("track", k), Do("clear", k)}
                 /\ at["growing"] \notin {Do("short", k), Do("agent", k), Do("noAgent", k)}
      BY <2>2 DEF Do
    <2>6. QED
      BY <2>1, <2>2, <2>3, <2>4, <2>5 DEF Leads, Stage
  <1>4. QED
    BY <1>1, <1>2, <1>3, TypesAlways, PTL DEF Spec

-----------------------------------------------------------------------------
(* What is due *)

(* Nothing is known of a link that was not opened. *)
New(l) ==
    /\ reports[l] = 0 /\ told[l] = 0
    /\ \A s \in Stage : work[s][l] = 0
    /\ \A t \in Thread : at[t].link # l
    /\ deeplinkUrl # l

Fresh == \A l \in Link \ opened : New(l)

(* An action on one link leaves the work of the others alone. *)
LEMMA OtherWork ==
    ASSUME TypeOK, NEW k \in Link, NEW l \in Link \ {k},
           \/ work' = work
           \/ \E s \in Stage : Put(s, k) \/ Take(s, k)
           \/ \E s \in Stage, u \in Stage : s # u /\ Move(s, u, k)
    PROVE  \A s \in Stage : work'[s][l] = work[s][l]
  <1>1. work \in Bag
    BY DEF TypeOK, Bag
  <1>2. QED
    BY <1>1, PutType, TakeType, MoveType

(* The link of a step of Handle, and what happens to the rest. *)
LEMMA HandleFrame ==
    ASSUME TypeOK, NEW t \in Thread, KeepUrl(t) \/ Track(t) \/ ClearUrl(t) \/ Report(t)
    PROVE  /\ at[t].link \in Link /\ at[t].step \in Handling
           /\ at'[t].link \in {at[t].link, NoLink}
           /\ \A u \in Thread \ {t} : at'[u] = at[u]
           /\ work' = work \/ \E s \in Stage : Put(s, at[t].link)
           /\ UNCHANGED <<enabled, replaying, opened, refused>>
           /\ deeplinkUrl' \in {deeplinkUrl, at[t].link, NoLink}
           /\ told' = told \/ told' = Count(told, at[t].link)
           /\ reports' = reports \/ reports' = Count(reports, at[t].link)
  <1>1. Finished(t).link = NoLink
    BY DEF Finished, Run, Idle
  <1>2. at[t].link \in Link /\ at[t].step \in Handling
    BY KeepUrlAt, TrackAt, ClearUrlAt, ReportAt DEF Handling
  <1>3. \A u \in Thread \ {t} : at'[u] = at[u]
    BY KeepUrlAt, TrackAt, ClearUrlAt, ReportAt
  <1>4. at'[t] \in {Finished(t), Do("track", at[t].link), Do("clear", at[t].link),
                    Do("report", at[t].link), Do("short", at[t].link)}
    BY KeepUrlAt, TrackAt, ClearUrlAt, ReportAt
  <1>5. at'[t].link \in {at[t].link, NoLink}
    BY <1>1, <1>4 DEF Do
  <1>6. work' = work \/ \E s \in Stage : Put(s, at[t].link)
    BY DEF KeepUrl, Track, ClearUrl, Report, Stage
  <1>7. QED
    BY <1>2, <1>3, <1>5, <1>6 DEF KeepUrl, Track, ClearUrl, Report

LEMMA WorkFrame ==
    ASSUME TypeOK, NEW k \in Link,
           UserAgentArrives(k) \/ Answered(k) \/ AnsweredInPart(k) \/ RequestFails(k)
    PROVE  /\ \/ \E s \in Stage : Take(s, k)
              \/ \E s \in Stage, u \in Stage : s # u /\ Move(s, u, k)
           /\ UNCHANGED <<enabled, deeplinkUrl, at, replaying, opened, reports>>
           /\ told' = told \/ told' = Count(told, k)
           /\ \E s \in Stage : work[s][k] > 0
  BY DEF UserAgentArrives, Answered, AnsweredInPart, RequestFails, Stage, Take, Move

LEMMA BlockFrame ==
    ASSUME TypeOK, ShortLink \/ PreRequest \/ NoUserAgent \/ GenerateAppReengage
    PROVE  /\ at["growing"].link \in Link /\ at["growing"].step \in Block
           /\ at'["growing"].link \in {at["growing"].link, NoLink}
           /\ at'["main"] = at["main"]
           /\ work' = work \/ \E s \in Stage : Put(s, at["growing"].link)
           /\ UNCHANGED <<enabled, replaying, opened, refused, told>>
           /\ deeplinkUrl' \in {deeplinkUrl, NoLink}
           /\ reports' = reports \/ reports' = Count(reports, at["growing"].link)
  <1>1. Finished("growing").link = NoLink
    BY DEF Finished, Run, Idle
  <1>2. /\ at["growing"].link \in Link /\ at["growing"].step \in Block
        /\ at'["main"] = at["main"]
        /\ at'["growing"] \in {Finished("growing"), Do("agent", at["growing"].link)}
    BY BlockAt
  <1>3. at'["growing"].link \in {at["growing"].link, NoLink}
    BY <1>1, <1>2 DEF Do
  <1>4. work' = work \/ \E s \in Stage : Put(s, at["growing"].link)
    BY DEF ShortLink, PreRequest, NoUserAgent, GenerateAppReengage, Stage
  <1>5. QED
    BY <1>2, <1>3, <1>4 DEF ShortLink, PreRequest, NoUserAgent, GenerateAppReengage, history

LEMMA ReplayFrame ==
    ASSUME TypeOK, SetDataCollectionEnabled \/ ReadUrl \/ CopyUrl \/ ForgetUrl
    PROVE  /\ at["growing"].link = NoLink
           /\ at'["growing"].link \in {NoLink, deeplinkUrl}
           /\ at'["main"] = at["main"]
           /\ UNCHANGED <<work, opened, reports, told, refused>>
           /\ deeplinkUrl' \in {deeplinkUrl, NoLink}
  <1>1. at["growing"].step \in Replay \cup {"idle"} /\ at'["main"] = at["main"]
    <2>1. \/ at["growing"] = Idle
          \/ at["growing"].step \in {"read", "copy", "forget"}
      BY ToggleAt, ReadUrlAt, CopyUrlAt, ForgetUrlAt
    <2>2. at'["main"] = at["main"]
      BY ToggleAt, ReadUrlAt, CopyUrlAt, ForgetUrlAt
    <2>3. QED
      BY <2>1, <2>2 DEF Replay, Idle
  <1>2. at["growing"].link = NoLink
    BY <1>1, LinkOf, Threads DEF Frame, Handling, Block, Replay
  <1>3. at'["growing"] \in {Idle, Run("read"), Run("copy"), Run("forget"), Do("url", deeplinkUrl)}
    BY ToggleAt, ReadUrlAt, CopyUrlAt, ForgetUrlAt
  <1>4. at'["growing"].link \in {NoLink, deeplinkUrl}
    BY <1>3 DEF Idle, Run, Do
  <1>5. QED
    BY <1>1, <1>2, <1>4 DEF SetDataCollectionEnabled, ReadUrl, CopyUrl, ForgetUrl, history

LEMMA NoLinkIsNone == NoLink \notin Link
  BY DeepLinkAssumption

LEMMA OtherCount ==
    ASSUME NEW h \in [Link -> Nat], NEW k \in Link, NEW l \in Link \ {k}
    PROVE  Count(h, k)[l] = h[l]
  BY CountType

LEMMA FreshStep ==
    ASSUME TypeOK, Fresh, Next
    PROVE  Fresh'
  <1> SUFFICES ASSUME NEW l \in Link, l \notin opened'
               PROVE  New(l)'
    BY DEF Fresh
  <1>1. reports \in [Link -> Nat] /\ told \in [Link -> Nat]
    BY DEF TypeOK
  <1>2. l # NoLink
    BY NoLinkIsNone
  <1>3. ASSUME NEW t \in Thread, KeepUrl(t) \/ Track(t) \/ ClearUrl(t) \/ Report(t)
        PROVE  New(l)'
    <2>1. opened' = opened
      BY <1>3, HandleFrame
    <2>2. New(l)
      BY <2>1 DEF Fresh
    <2>3. at[t].link \in Link \ {l}
      BY <1>3, <2>2, HandleFrame DEF New
    <2>4. \A s \in Stage : work'[s][l] = work[s][l]
      BY <1>3, <2>3, HandleFrame, OtherWork
    <2>5. reports'[l] = reports[l] /\ told'[l] = told[l]
      BY <1>1, <1>3, <2>3, HandleFrame, OtherCount
    <2>6. \A u \in Thread : at'[u].link # l
      BY <1>2, <1>3, <2>2, <2>3, HandleFrame DEF New
    <2>7. deeplinkUrl' # l
      BY <1>2, <1>3, <2>2, <2>3, HandleFrame DEF New
    <2>8. QED
      BY <2>2, <2>4, <2>5, <2>6, <2>7 DEF New
  <1>4. ASSUME NEW k \in Link, Open(k)
        PROVE  New(l)'
    <2>1. l # k /\ l \notin opened
      BY <1>4 DEF Open
    <2>2. New(l)
      BY <2>1 DEF Fresh
    <2>3. UNCHANGED <<work, reports, deeplinkUrl>> /\ told'[l] = told[l]
      BY <1>1, <1>4, <2>1, OtherCount DEF Open
    <2>4. at'["main"] \in {Idle, Do("url", k), Do("track", k)} /\ at'["growing"] = at["growing"]
      BY <1>4, OpenAt DEF Begins
    <2>5. at'["main"].link \in {NoLink, k}
      BY <2>4 DEF Idle, Do
    <2>6. QED
      BY <1>2, <2>1, <2>2, <2>3, <2>4, <2>5, Threads DEF New
  <1>5. ASSUME NEW k \in Link, NEW s \in Block, Begin(s, k)
        PROVE  New(l)'
    <2>1. UNCHANGED <<deeplinkUrl, opened, reports, told>> /\ Take(s, k) /\ s \in Stage
      BY <1>5 DEF Begin, history, Block, Stage
    <2>2. New(l)
      BY <2>1 DEF Fresh
    <2>3. k \in Link \ {l}
      BY <2>1, <2>2 DEF New, Take
    <2>4. \A u \in Stage : work'[u][l] = work[u][l]
      BY <2>1, <2>3, OtherWork
    <2>5. at'["growing"] = Do(s, k) /\ at'["main"] = at["main"]
      BY <1>5, BeginAt
    <2>6. at'["growing"].link = k
      BY <2>5 DEF Do
    <2>7. QED
      BY <2>1, <2>2, <2>3, <2>4, <2>5, <2>6, Threads DEF New
  <1>6. ASSUME NEW k \in Link,
               UserAgentArrives(k) \/ Answered(k) \/ AnsweredInPart(k) \/ RequestFails(k)
        PROVE  New(l)'
    <2>1. opened' = opened
      BY <1>6, WorkFrame
    <2>2. New(l)
      BY <2>1 DEF Fresh
    <2>3. k \in Link \ {l}
      BY <1>6, <2>2, WorkFrame DEF New
    <2>4. \A s \in Stage : work'[s][l] = work[s][l]
      BY <1>6, <2>3, WorkFrame, OtherWork
    <2>5. told'[l] = told[l]
      BY <1>1, <1>6, <2>3, WorkFrame, OtherCount
    <2>6. QED
      BY <1>6, <2>2, <2>4, <2>5, WorkFrame DEF New
  <1>7. CASE ShortLink \/ PreRequest \/ NoUserAgent \/ GenerateAppReengage
    <2> DEFINE k == at["growing"].link
    <2>1. opened' = opened
      BY <1>7, BlockFrame
    <2>2. New(l)
      BY <2>1 DEF Fresh
    <2>3. k \in Link \ {l}
      BY <1>7, <2>2, BlockFrame, Threads DEF New
    <2>4. \A s \in Stage : work'[s][l] = work[s][l]
      BY <1>7, <2>3, BlockFrame, OtherWork
    <2>5. reports'[l] = reports[l] /\ told'[l] = told[l]
      BY <1>1, <1>7, <2>3, BlockFrame, OtherCount
    <2>6. \A u \in Thread : at'[u].link # l
      BY <1>2, <1>7, <2>2, <2>3, BlockFrame, Threads DEF New
    <2>7. deeplinkUrl' # l
      BY <1>2, <1>7, <2>2, BlockFrame DEF New
    <2>8. QED
      BY <2>2, <2>4, <2>5, <2>6, <2>7 DEF New
  <1>8. CASE SetDataCollectionEnabled \/ ReadUrl \/ CopyUrl \/ ForgetUrl
    <2>1. opened' = opened
      BY <1>8, ReplayFrame
    <2>2. New(l)
      BY <2>1 DEF Fresh
    <2>3. QED
      BY <1>2, <1>8, <2>2, ReplayFrame, Threads DEF New
  <1>9. QED
    BY <1>3, <1>4, <1>5, <1>6, <1>7, <1>8 DEF Next, Handle, Work, Growing

LEMMA FreshStart == Init => Fresh
  <1> SUFFICES ASSUME Init, NEW l \in Link
               PROVE  New(l)
    BY DEF Fresh
  <1>1. \A t \in Thread : at[t].link = NoLink
    BY DEF Init, Idle
  <1>2. \A s \in Stage : work[s][l] = 0
    BY DEF Init, Zero
  <1>3. QED
    BY <1>1, <1>2, NoLinkIsNone DEF Init, New, Zero

LEMMA FreshAlways == Spec => []Fresh
  <1>1. TypeOK /\ Fresh /\ [Next]_vars => Fresh'
    <2>1. Fresh /\ UNCHANGED vars => Fresh'
      BY DEF Fresh, New, vars, history
    <2>2. QED
      BY <2>1, FreshStep
  <1>2. QED
    BY <1>1, FreshStart, TypeCorrect, PTL DEF Spec

(* The links whose event is due, and how each will come to it. *)
Owed == {l \in (opened \cap Promised) \ (excused \cup refused) : reports[l] = 0}

OnWay(l) == Underway(l) \/ (deeplinkUrl = l /\ at["growing"].step \in {"read", "copy"})

OffWay(l) ==
    /\ \A s \in Stage : work[s][l] = 0
    /\ at["growing"].link # l
    /\ \/ at["main"] = Do("url", l)
       \/ at["main"] = Do("track", l) /\ (l \in Manual \/ deeplinkUrl = l)
       \/ at["main"].link # l /\ deeplinkUrl = l

Way(l) == (enabled => OnWay(l)) /\ (~enabled => OffWay(l))

Due == \A l \in Owed : Way(l)

LEMMA Grows ==
    ASSUME TypeOK, Next
    PROVE  /\ excused \subseteq excused' /\ refused \subseteq refused'
           /\ \A l \in Link : reports'[l] >= reports[l]
  <1>1. excused \subseteq excused' /\ refused \subseteq refused'
    BY DEF Next, Handle, Work, Growing, KeepUrl, Track, ClearUrl, Report, Open, Begin,
           UserAgentArrives, Answered, AnsweredInPart, RequestFails, ShortLink, PreRequest,
           NoUserAgent, GenerateAppReengage, SetDataCollectionEnabled, ReadUrl, CopyUrl,
           ForgetUrl, history
  <1>2. reports' = reports \/ \E k \in Link : reports' = Count(reports, k)
    <2>1. CASE Handle
      BY <2>1, HandleFrame DEF Handle
    <2>2. CASE Work
      BY <2>2 DEF Work, Open, Begin, UserAgentArrives, Answered, AnsweredInPart, RequestFails,
                  history
    <2>3. CASE Growing
      BY <2>3, BlockFrame, ReplayFrame DEF Growing
    <2>4. QED
      BY <2>1, <2>2, <2>3 DEF Next
  <1>3. reports \in [Link -> Nat]
    BY DEF TypeOK
  <1>4. \A k \in Link, l \in Link : Count(reports, k)[l] >= reports[l]
    BY <1>3 DEF Count
  <1>5. QED
    BY <1>1, <1>2, <1>3, <1>4

LEMMA OwedBefore ==
    ASSUME TypeOK, Next, NEW l \in Owed'
    PROVE  /\ l \in Promised /\ l \in Link /\ l \notin excused' \cup refused'
           /\ l \in opened' /\ reports'[l] = 0
           /\ l \in opened => l \in Owed
  <1>1. /\ l \in Promised /\ l \in Link /\ l \notin excused' \cup refused'
        /\ l \in opened' /\ reports'[l] = 0
    BY Kinds DEF Owed, Promised
  <1>2. ASSUME l \in opened
        PROVE  l \in Owed
    <2>1. reports[l] \in Nat
      BY <1>1 DEF TypeOK
    <2>2. reports[l] = 0
      BY <1>1, <2>1, Grows
    <2>3. QED
      BY <1>1, <1>2, <2>2, Grows DEF Owed
  <1>3. QED
    BY <1>1, <1>2

(* deeplinkUrl is replaced, and the link that it held is not excused. *)
LEMMA NotExcused ==
    ASSUME NEW k, NEW l \in Link \ {k}, deeplinkUrl = l, l \notin Excuse(k)
    PROVE  Underway(l)
  BY DEF Excuse

LEMMA PutMore ==
    ASSUME TypeOK, NEW k \in Link, work' = work \/ \E s \in Stage : Put(s, k)
    PROVE  \A s \in Stage, l \in Link : work[s][l] > 0 => work'[s][l] > 0
  <1>1. work \in Bag
    BY DEF TypeOK, Bag
  <1>2. ASSUME NEW s \in Stage, Put(s, k)
        PROVE  \A u \in Stage, l \in Link : work[u][l] > 0 => work'[u][l] > 0
    <2>1. /\ work'[s][k] = work[s][k] + 1
          /\ \A u \in Stage, l \in Link : u # s \/ l # k => work'[u][l] = work[u][l]
      BY <1>1, <1>2, PutType
    <2>2. \A u \in Stage, l \in Link : work[u][l] \in Nat
      BY <1>1 DEF Bag
    <2>3. QED
      BY <2>1, <2>2
  <1>3. QED
    BY <1>2

LEMMA PutDone ==
    ASSUME TypeOK, NEW k \in Link, NEW s \in Stage, Put(s, k)
    PROVE  work'[s][k] > 0
  <1>1. work \in Bag
    BY DEF TypeOK, Bag
  <1>2. work'[s][k] = work[s][k] + 1 /\ work[s][k] \in Nat
    BY <1>1, PutType DEF Bag
  <1>3. QED
    BY <1>2

LEMMA DueHandle ==
    ASSUME Types, Due, NEW t \in Thread, KeepUrl(t) \/ Track(t) \/ ClearUrl(t) \/ Report(t)
    PROVE  Due'
  <1> USE DEF Types
  <1> SUFFICES ASSUME NEW l \in Owed'
               PROVE  Way(l)'
    BY DEF Due
  <1> DEFINE k == at[t].link
  <1>1. Next
    BY DEF Next, Handle
  <1>2. /\ k \in Link /\ at[t].step \in Handling
        /\ \A u \in Thread \ {t} : at'[u] = at[u]
        /\ work' = work \/ \E s \in Stage : Put(s, k)
        /\ UNCHANGED <<enabled, replaying, opened, refused>>
        /\ at'[t].link \in {k, NoLink}
    BY HandleFrame
  <1>3. l \in Promised /\ l \in Link /\ l \notin excused' /\ reports'[l] = 0 /\ Way(l)
    <2>1. /\ l \in Promised /\ l \in Link /\ l \notin excused' \cup refused'
          /\ l \in opened' /\ reports'[l] = 0
          /\ l \in opened => l \in Owed
      BY <1>1, OwedBefore
    <2>2. QED
      BY <1>2, <2>1 DEF Due
  <1>4. l # NoLink
    BY <1>3, NoLinkIsNone
  <1>5. \A s \in Stage : work[s][l] > 0 => work'[s][l] > 0
    BY <1>2, <1>3, PutMore
  <1>6. ASSUME enabled
        PROVE  OnWay(l)'
    <2>1. OnWay(l)
      BY <1>3, <1>6 DEF Way
    <2>2. (\E s \in Stage : work[s][l] > 0) => OnWay(l)'
      BY <1>5 DEF OnWay, Underway
    <2>3. (\E u \in Thread \ {t} : at[u].link = l) => OnWay(l)'
      BY <1>2 DEF OnWay, Underway
    <2>4. ASSUME k = l
          PROVE  OnWay(l)'
      <3>1. CASE at'[t].link = l
        BY <3>1 DEF OnWay, Underway
      <3>2. CASE at'[t].link # l
        <4>1. at'[t].link = NoLink
          BY <1>2, <2>4, <3>2
        <4>2. CASE KeepUrl(t) \/ ClearUrl(t)
          <5>1. at'[t] \in {Do("track", l), Do("report", l)}
            BY <2>4, <4>2, KeepUrlAt, ClearUrlAt
          <5>2. QED
            BY <3>2, <5>1 DEF Do
        <4>3. CASE Track(t)
          <5>1. l \in Short \/ l \in Complete
            BY <1>3 DEF Promised
          <5>2. \/ at'[t] = Finished(t) /\ t = "main" /\ l \in Short
                \/ at'[t] \in {Do("short", l), Do("clear", l)}
            BY <1>3, <1>6, <2>4, <4>3, <5>1, TrackAt, Kinds
          <5>3. at'[t] \notin {Do("short", l), Do("clear", l)}
            BY <3>2 DEF Do
          <5>4. t = "main" /\ l \in Short
            BY <5>2, <5>3
          <5>5. Put("short", l)
            BY <1>3, <1>6, <2>4, <4>3, <5>4, Kinds DEF Track
          <5>6. work'["short"][l] > 0
            BY <1>3, <5>5, PutDone DEF Stage
          <5>7. QED
            BY <5>6 DEF OnWay, Underway, Stage
        <4>4. CASE Report(t)
          <5>1. l \notin Partial
            <6>1. at[t].step = "report"
              BY <4>4, ReportAt
            <6>2. l \in Complete \cup Partial
              BY <2>4, <6>1 DEF Shape
            <6>3. l \notin Short
              BY <6>2, Kinds
            <6>4. QED
              BY <1>3, <6>3, DeepLinkAssumption DEF Promised
          <5>2. reports' = Count(reports, l) \/ Put("reengage", l)
            BY <2>4, <4>4, <5>1 DEF Report
          <5>3. reports' # Count(reports, l)
            <6>1. reports \in [Link -> Nat]
              BY DEF TypeOK
            <6>2. Count(reports, l)[l] = reports[l] + 1 /\ reports[l] \in Nat
              BY <1>3, <6>1, CountType
            <6>3. QED
              BY <1>3, <6>2
          <5>4. work'["reengage"][l] > 0
            BY <1>3, <5>2, <5>3, PutDone DEF Stage
          <5>5. QED
            BY <5>4 DEF OnWay, Underway, Stage
        <4>5. QED
          BY <4>2, <4>3, <4>4
      <3>3. QED
        BY <3>1, <3>2
    <2>5. ASSUME k # l, deeplinkUrl = l, at["growing"].step \in {"read", "copy"}
          PROVE  OnWay(l)'
      <3>1. t = "main" /\ at'["growing"] = at["growing"]
        BY <1>2, <2>5, Threads DEF Handling
      <3>2. CASE deeplinkUrl' = deeplinkUrl
        BY <2>5, <3>1, <3>2 DEF OnWay
      <3>3. CASE deeplinkUrl' # deeplinkUrl
        <4>1. excused' = excused \cup Excuse(k)
          BY <3>3 DEF KeepUrl, Track, ClearUrl, Report
        <4>2. Underway(l)
          BY <1>3, <2>5, <4>1, NotExcused
        <4>3. QED
          BY <2>2, <2>3, <2>5, <4>2 DEF Underway
      <3>4. QED
        BY <3>2, <3>3
    <2>6. QED
      BY <2>1, <2>2, <2>3, <2>4, <2>5 DEF OnWay, Underway
  <1>7. ASSUME ~enabled
        PROVE  OffWay(l)'
    <2>1. OffWay(l)
      BY <1>3, <1>7 DEF Way
    <2>2. t = "main"
      BY <1>2, <1>7, Threads DEF Shape
    <2>3. at'["growing"] = at["growing"]
      BY <1>2, <2>2, Threads
    <2>4. ~Underway(l) \/ k = l
      BY <2>1, <2>2, Threads DEF OffWay, Underway
    <2>5. CASE KeepUrl(t)
      <3>1. /\ deeplinkUrl' = k /\ excused' = excused \cup Excuse(k) /\ UNCHANGED work
            /\ at["main"].step = "url" /\ at'["main"] = Do("track", k)
        BY <2>2, <2>5, KeepUrlAt DEF KeepUrl
      <3>2. at["main"] # Do("track", l)
        BY <3>1 DEF Do
      <3>3. k = l
        <4>1. CASE at["main"] = Do("url", l)
          BY <2>2, <4>1 DEF Do
        <4>2. CASE deeplinkUrl = l /\ k # l
          BY <1>3, <2>4, <3>1, <4>2, NotExcused
        <4>3. QED
          BY <2>1, <2>2, <3>2, <4>1, <4>2 DEF OffWay
      <3>4. QED
        BY <2>1, <2>3, <3>1, <3>3 DEF OffWay
    <2>6. CASE Track(t)
      <3>1. /\ at'["main"] = Idle /\ at["main"].step = "track"
            /\ UNCHANGED <<work, deeplinkUrl>>
            /\ k \in Manual => k \in excused'
        BY <1>7, <2>2, <2>6, EndType, Threads DEF Track, At, End, Finished, Goto, TypeOK
      <3>2. at["main"] # Do("url", l) /\ (at["main"] = Do("track", l) => k = l)
        BY <2>2, <3>1 DEF Do
      <3>3. deeplinkUrl = l
        BY <1>3, <2>1, <3>1, <3>2 DEF OffWay
      <3>4. at'["main"].link # l
        BY <1>4, <3>1 DEF Idle
      <3>5. QED
        BY <2>1, <2>3, <3>1, <3>3, <3>4 DEF OffWay
    <2>7. CASE ClearUrl(t)
      <3>1. excused' = excused \cup Excuse(k) /\ at["main"].step = "clear"
        BY <2>2, <2>7, ClearUrlAt DEF ClearUrl
      <3>2. at["main"] # Do("url", l) /\ at["main"] # Do("track", l)
        BY <3>1 DEF Do
      <3>3. k # l /\ deeplinkUrl = l
        BY <2>1, <2>2, <3>2 DEF OffWay
      <3>4. QED
        BY <1>3, <2>4, <3>1, <3>3, NotExcused
    <2>8. CASE Report(t)
      <3>1. /\ at["main"].step = "report" /\ at'["main"] = Finished(t)
            /\ UNCHANGED deeplinkUrl
        BY <2>2, <2>8, ReportAt DEF Report
      <3>2. at["main"] # Do("url", l) /\ at["main"] # Do("track", l)
        BY <3>1 DEF Do
      <3>3. k # l /\ deeplinkUrl = l
        BY <2>1, <2>2, <3>2 DEF OffWay
      <3>4. \A s \in Stage : work'[s][l] = 0
        BY <1>2, <1>3, <2>1, <3>3, OtherWork DEF OffWay
      <3>5. at'["main"].link # l
        BY <1>4, <2>2, <3>1 DEF Finished, Idle, Run
      <3>6. QED
        BY <2>1, <2>3, <3>1, <3>3, <3>4, <3>5 DEF OffWay
    <2>9. QED
      BY <2>5, <2>6, <2>7, <2>8
  <1>8. QED
    BY <1>2, <1>6, <1>7 DEF Way

LEMMA DueWork ==
    ASSUME Types, Fresh, Due, Work
    PROVE  Due'
  <1> USE DEF Types
  <1> SUFFICES ASSUME NEW l \in Owed'
               PROVE  Way(l)'
    BY DEF Due
  <1>1. Next
    BY DEF Next
  <1>2. /\ l \in Promised /\ l \in Link /\ l \notin excused' \cup refused'
        /\ l \in opened' /\ reports'[l] = 0
        /\ l \in opened => l \in Owed
    BY <1>1, OwedBefore
  <1>3. l # NoLink /\ work \in Bag
    BY <1>2, NoLinkIsNone DEF TypeOK, Bag
  <1>4. ASSUME NEW k \in Link, Open(k)
        PROVE  Way(l)'
    <2>1. /\ at["main"] = Idle /\ at'["growing"] = at["growing"]
          /\ \/ k \in Foreign /\ at'["main"] = Idle
             \/ k \notin Foreign /\ at'["main"] = Begins(k)
      BY <1>4, OpenAt
    <2>2. /\ UNCHANGED <<enabled, work, deeplinkUrl>>
          /\ k \notin opened /\ opened' = opened \cup {k}
      BY <1>4 DEF Open
    <2>3. at["main"].link # l /\ at["main"] # Do("url", l) /\ at["main"] # Do("track", l)
      BY <1>3, <2>1 DEF Idle, Do
    <2>4. CASE k = l
      <3>1. /\ \/ at'["main"] = Do("url", l)
               \/ at'["main"] = Do("track", l) /\ l \in Manual
            /\ at'["main"].link = l
        BY <1>2, <2>1, <2>4, Kinds DEF Begins, Do
      <3>2. (\A s \in Stage : work'[s][l] = 0) /\ at'["growing"].link # l
        BY <1>2, <2>1, <2>2, <2>4, Threads DEF Fresh, New
      <3>3. QED
        BY <3>1, <3>2, Threads DEF Way, OnWay, OffWay, Underway
    <2>5. CASE k # l
      <3>1. Way(l)
        BY <1>2, <2>2, <2>5 DEF Due
      <3>2. at'["main"].link # l
        BY <1>3, <2>1, <2>5 DEF Idle, Begins, Do
      <3>3. enabled => OnWay(l)'
        BY <2>1, <2>2, <2>3, <3>1, Threads DEF Way, OnWay, Underway
      <3>4. ~enabled => OffWay(l)'
        BY <2>1, <2>2, <2>3, <3>1, <3>2 DEF Way, OffWay
      <3>5. QED
        BY <2>2, <3>3, <3>4 DEF Way
    <2>6. QED
      BY <2>4, <2>5
  <1>5. ASSUME NEW k \in Link, NEW s \in Block, Begin(s, k)
        PROVE  Way(l)'
    <2>1. at["growing"] = Idle /\ at'["growing"] = Do(s, k) /\ at'["main"] = at["main"]
      BY <1>5, BeginAt
    <2>2. UNCHANGED <<enabled, deeplinkUrl, opened>> /\ Take(s, k) /\ s \in Stage
      BY <1>5 DEF Begin, history, Block, Stage
    <2>3. Way(l) /\ work[s][k] > 0
      BY <1>2, <2>2 DEF Due, Take
    <2>4. at'["growing"].link = k /\ at["growing"].link # l
      BY <1>3, <2>1 DEF Do, Idle
    <2>5. at["growing"].step \notin {"read", "copy"}
      BY <2>1 DEF Idle
    <2>6. CASE k = l
      <3>1. enabled
        BY <1>2, <2>2, <2>3, <2>6 DEF Way, OffWay
      <3>2. QED
        BY <2>2, <2>4, <2>6, <3>1, Threads DEF Way, OnWay, Underway
    <2>7. CASE k # l
      <3>1. \A u \in Stage : work'[u][l] = work[u][l]
        BY <1>2, <2>2, <2>7, OtherWork
      <3>2. enabled => OnWay(l)'
        BY <2>1, <2>2, <2>3, <2>4, <2>5, <3>1, Threads DEF Way, OnWay, Underway
      <3>3. ~enabled => OffWay(l)'
        BY <2>1, <2>2, <2>3, <2>4, <2>7, <3>1 DEF Way, OffWay
      <3>4. QED
        BY <2>2, <3>2, <3>3 DEF Way
    <2>8. QED
      BY <2>6, <2>7
  <1>6. ASSUME NEW k \in Link,
               UserAgentArrives(k) \/ Answered(k) \/ AnsweredInPart(k) \/ RequestFails(k)
        PROVE  Way(l)'
    <2>1. /\ UNCHANGED <<enabled, deeplinkUrl, at, opened>>
          /\ \E s \in Stage : work[s][k] > 0
      BY <1>6, WorkFrame
    <2>2. Way(l)
      BY <1>2, <2>1 DEF Due
    <2>3. CASE k = l
      <3>1. enabled = TRUE
        <4>1. PICK s \in Stage : work[s][l] > 0
          BY <2>1, <2>3
        <4>2. work[s][l] # 0
          BY <4>1
        <4>3. QED
          BY <2>2, <4>2 DEF Way, OffWay
      <3>2. PICK s \in Stage, v \in Stage : s # v /\ Move(s, v, l)
        BY <1>2, <1>6, <2>3
        DEF UserAgentArrives, Answered, AnsweredInPart, RequestFails, Stage
      <3>3. work'[v][l] = work[v][l] + 1 /\ work[v][l] \in Nat
        BY <1>2, <1>3, <3>2, MoveType DEF Bag
      <3>4. work'[v][l] > 0
        BY <3>3
      <3>5. QED
        BY <2>1, <3>1, <3>4 DEF Way, OnWay, Underway
    <2>4. CASE k # l
      <3>1. \A s \in Stage : work'[s][l] = work[s][l]
        BY <1>2, <1>6, <2>4, WorkFrame, OtherWork
      <3>2. QED
        BY <2>1, <2>2, <3>1 DEF Way, OnWay, OffWay, Underway
    <2>5. QED
      BY <2>3, <2>4
  <1>7. QED
    BY <1>4, <1>5, <1>6 DEF Work

LEMMA DueGrowing ==
    ASSUME Types, Due, Growing
    PROVE  Due'
  <1> USE DEF Types
  <1> SUFFICES ASSUME NEW l \in Owed'
               PROVE  Way(l)'
    BY DEF Due
  <1> DEFINE k == at["growing"].link
  <1>1. Next
    BY DEF Next
  <1>2. opened' = opened
    BY BlockFrame, ReplayFrame DEF Growing
  <1>3. /\ l \in Promised /\ l \in Link /\ l \notin excused' \cup refused'
        /\ l \in opened' /\ reports'[l] = 0
        /\ l \in opened => l \in Owed
    BY <1>1, OwedBefore
  <1>4. Way(l) /\ reports[l] = 0 /\ l \in opened
    BY <1>2, <1>3 DEF Due, Owed
  <1>5. l # NoLink
    BY <1>3, NoLinkIsNone
  <1>6. CASE ShortLink \/ PreRequest \/ NoUserAgent \/ GenerateAppReengage
    <2>1. /\ k \in Link /\ at["growing"].step \in Block
          /\ at'["growing"].link \in {k, NoLink}
          /\ at'["main"] = at["main"]
          /\ work' = work \/ \E s \in Stage : Put(s, k)
          /\ UNCHANGED enabled
      BY <1>6, BlockFrame
    <2>2. \A s \in Stage : work[s][l] > 0 => work'[s][l] > 0
      BY <1>3, <2>1, PutMore
    <2>3. at["growing"].step \notin {"read", "copy"}
      BY <2>1 DEF Block
    <2>4. ASSUME enabled
          PROVE  OnWay(l)'
      <3>1. (\E s \in Stage : work[s][l] > 0) \/ at["main"].link = l => OnWay(l)'
        BY <2>1, <2>2, Threads DEF OnWay, Underway
      <3>2. ASSUME k = l
            PROVE  OnWay(l)'
        <4>1. CASE ShortLink
          <5>1. at'["growing"] = Do("agent", l) \/ Put("waiting", l)
            BY <1>3, <2>4, <3>2, <4>1, GotoType, FrameTypes, Threads DEF ShortLink, Block
          <5>2. CASE at'["growing"] = Do("agent", l)
            <6>1. at'["growing"].link = l
              BY <5>2 DEF Do
            <6>2. QED
              BY <6>1, Threads DEF OnWay, Underway
          <5>3. CASE Put("waiting", l)
            BY <1>3, <5>3, PutDone DEF OnWay, Underway, Stage
          <5>4. QED
            BY <5>1, <5>2, <5>3
        <4>2. CASE PreRequest
          <5>1. Put("sent", l)
            BY <1>3, <2>4, <3>2, <4>2 DEF PreRequest
          <5>2. QED
            BY <1>3, <5>1, PutDone DEF OnWay, Underway, Stage
        <4>3. CASE NoUserAgent
          BY <1>3, <2>4, <3>2, <4>3 DEF NoUserAgent
        <4>4. CASE GenerateAppReengage
          <5>1. reports' = Count(reports, l)
            BY <2>4, <3>2, <4>4 DEF GenerateAppReengage
          <5>2. reports \in [Link -> Nat]
            BY DEF TypeOK
          <5>3. reports'[l] = reports[l] + 1
            BY <1>3, <5>1, <5>2, CountType
          <5>4. QED
            BY <1>3, <1>4, <5>3
        <4>5. QED
          BY <1>6, <4>1, <4>2, <4>3, <4>4
      <3>3. OnWay(l)
        BY <1>4, <2>4 DEF Way
      <3>4. QED
        BY <2>3, <3>1, <3>2, <3>3, Threads DEF OnWay, Underway
    <2>5. ASSUME ~enabled
          PROVE  OffWay(l)'
      <3>1. OffWay(l) /\ k # l
        BY <1>4, <2>5 DEF Way, OffWay
      <3>2. UNCHANGED deeplinkUrl
        BY <1>6, <2>5 DEF ShortLink, PreRequest, NoUserAgent, GenerateAppReengage
      <3>3. \A s \in Stage : work'[s][l] = work[s][l]
        BY <1>3, <2>1, <3>1, OtherWork
      <3>4. QED
        BY <1>5, <2>1, <3>1, <3>2, <3>3 DEF OffWay
    <2>6. QED
      BY <2>1, <2>4, <2>5 DEF Way
  <1>7. CASE SetDataCollectionEnabled
    <2>1. /\ at["growing"] = Idle /\ at'["main"] = at["main"]
          /\ \/ enabled /\ enabled' = FALSE /\ at'["growing"] = Idle
             \/ ~enabled /\ enabled' = TRUE /\ at'["growing"] = Run("read")
      BY <1>7, ToggleAt
    <2>2. ~enabled
      BY <1>3, <1>4, <1>7 DEF SetDataCollectionEnabled
    <2>3. OffWay(l) /\ enabled' = TRUE /\ at'["growing"] = Run("read")
      BY <1>4, <2>1, <2>2 DEF Way
    <2>4. UNCHANGED deeplinkUrl /\ at'["growing"].step = "read"
      BY <1>7, <2>3 DEF SetDataCollectionEnabled, Run
    <2>5. at["main"] = Do("url", l) \/ at["main"] = Do("track", l) => at'["main"].link = l
      BY <2>1 DEF Do
    <2>6. OnWay(l)'
      BY <2>3, <2>4, <2>5, Threads DEF OffWay, OnWay, Underway
    <2>7. QED
      BY <2>3, <2>6 DEF Way
  <1>8. CASE ReadUrl \/ CopyUrl \/ ForgetUrl
    <2>1. at["growing"].step \in {"read", "copy", "forget"}
      BY <1>8, ReadUrlAt, CopyUrlAt, ForgetUrlAt
    <2>2. enabled
      BY <2>1 DEF Shape, Replay
    <2>3. /\ k = NoLink /\ at'["main"] = at["main"] /\ UNCHANGED <<enabled, work>>
      BY <1>8, ReplayFrame DEF ReadUrl, CopyUrl, ForgetUrl
    <2>4. OnWay(l)
      BY <1>4, <2>2 DEF Way
    <2>5. Underway(l) => OnWay(l)'
      BY <1>5, <2>3, Threads DEF OnWay, Underway
    <2>6. ASSUME deeplinkUrl = l, at["growing"].step \in {"read", "copy"}
          PROVE  OnWay(l)'
      <3>1. CASE ReadUrl
        <4>1. at'["growing"] = Run("copy") /\ UNCHANGED deeplinkUrl
          BY <1>5, <2>6, <3>1, ReadUrlAt DEF ReadUrl
        <4>2. at'["growing"].step = "copy"
          BY <4>1 DEF Run
        <4>3. QED
          BY <2>6, <4>1, <4>2 DEF OnWay
      <3>2. CASE CopyUrl
        <4>1. at'["growing"] = Do("url", l)
          BY <1>5, <2>6, <3>2, CopyUrlAt
        <4>2. at'["growing"].link = l
          BY <4>1 DEF Do
        <4>3. QED
          BY <4>2, Threads DEF OnWay, Underway
      <3>3. CASE ForgetUrl
        BY <2>6, <3>3, ForgetUrlAt
      <3>4. QED
        BY <1>8, <3>1, <3>2, <3>3
    <2>7. OnWay(l)'
      BY <2>4, <2>5, <2>6 DEF OnWay
    <2>8. QED
      BY <2>2, <2>3, <2>7 DEF Way
  <1>9. QED
    BY <1>6, <1>7, <1>8 DEF Growing

LEMMA DueAlways == Spec => []Due
  <1>1. Init => Due
    BY DEF Init, Due, Owed
  <1>2. Types /\ Fresh /\ Due /\ [Next]_vars => Due'
    <2>1. Due /\ UNCHANGED vars => Due'
      BY DEF Due, Owed, Way, OnWay, OffWay, Underway, vars, history
    <2>2. QED
      BY <2>1, DueHandle, DueWork, DueGrowing DEF Next, Handle
  <1>3. QED
    BY <1>1, <1>2, TypesAlways, FreshAlways, PTL DEF Spec

(* Whatever the two threads do, a link that was opened, before collection was   *)
(* turned on or after, has its event once all is done, short of the exceptions. *)
THEOREM ForgetsNone == Spec => []NothingForgotten
  <1>1. Types /\ Due => NothingForgotten
    <2> SUFFICES ASSUME Types, Due, Quiet, enabled,
                        NEW l \in (opened \cap Promised) \ (excused \cup refused),
                        ~(reports[l] > 0)
                 PROVE  FALSE
      BY DEF NothingForgotten
    <2>1. l \in Link /\ l \in Owed
      <3>1. l \in Link
        BY Kinds DEF Promised
      <3>2. reports[l] \in Nat
        BY <3>1 DEF Types, TypeOK
      <3>3. QED
        BY <3>1, <3>2 DEF Owed
    <2>2. at["growing"].step = "idle"
      BY Threads DEF Quiet, Idle
    <2>3. QED
      BY <2>1, <2>2 DEF Quiet, Due, Way, OnWay
  <1>2. QED
    BY <1>1, TypesAlways, DueAlways, PTL

-----------------------------------------------------------------------------
(* How often a link is reported *)

Waits(l) == work["short"][l] + work["waiting"][l] + work["agent"][l]
            + work["noAgent"][l] + work["sent"][l] + work["reengage"][l]

OnMain(l)    == IF at["main"].link = l THEN 1 ELSE 0
OnGrowing(l) == IF at["growing"].link = l THEN 1 ELSE 0
ToKeep(l)    == IF at["main"] = Do("url", l) THEN 1 ELSE 0
ToReplay(l)  == IF deeplinkUrl = l /\ ~replaying THEN 1 ELSE 0

(* The events of a link, and those that it may still have. *)
Chances(l) == reports[l] + Waits(l) + OnMain(l) + OnGrowing(l) + ToKeep(l) + ToReplay(l)

Limit(l) == IF l \in Manual THEN 1 ELSE 2

Twice == \A l \in Link : Chances(l) <= Limit(l)

LEMMA OneOrNone ==
    \A l : /\ OnMain(l) \in {0, 1} /\ OnGrowing(l) \in {0, 1}
           /\ ToKeep(l) \in {0, 1} /\ ToReplay(l) \in {0, 1}
           /\ OnMain(l)' \in {0, 1} /\ OnGrowing(l)' \in {0, 1}
           /\ ToKeep(l)' \in {0, 1} /\ ToReplay(l)' \in {0, 1}
  BY DEF OnMain, OnGrowing, ToKeep, ToReplay

LEMMA WaitsType ==
    ASSUME TypeOK, NEW l \in Link
    PROVE  Waits(l) \in Nat /\ reports[l] \in Nat
  <1>1. \A s \in Stage : work[s][l] \in Nat
    BY DEF TypeOK
  <1>2. QED
    BY <1>1 DEF Waits, Stage, TypeOK

LEMMA WaitsSame ==
    ASSUME NEW l \in Link, \A s \in Stage : work'[s][l] = work[s][l]
    PROVE  Waits(l)' = Waits(l)
  BY DEF Waits, Stage

LEMMA WaitsPut ==
    ASSUME TypeOK, NEW s \in Stage, NEW l \in Link, Put(s, l)
    PROVE  Waits(l)' = Waits(l) + 1
  <1>1. /\ work'[s][l] = work[s][l] + 1
        /\ \A u \in Stage : u # s => work'[u][l] = work[u][l]
    BY PutType DEF TypeOK, Bag
  <1>2. \A u \in Stage : work[u][l] \in Nat
    BY DEF TypeOK
  <1>3. QED
    BY <1>1, <1>2 DEF Waits, Stage

LEMMA WaitsTake ==
    ASSUME TypeOK, NEW s \in Stage, NEW l \in Link, Take(s, l)
    PROVE  Waits(l)' = Waits(l) - 1
  <1>1. /\ work'[s][l] = work[s][l] - 1
        /\ \A u \in Stage : u # s => work'[u][l] = work[u][l]
    BY TakeType DEF TypeOK, Bag
  <1>2. \A u \in Stage : work[u][l] \in Nat
    BY DEF TypeOK
  <1>3. QED
    BY <1>1, <1>2 DEF Waits, Stage

LEMMA WaitsMove ==
    ASSUME TypeOK, NEW l \in Link,
           NEW s \in {"waiting", "sent"}, NEW v \in {"agent", "noAgent", "reengage"}, Move(s, v, l)
    PROVE  Waits(l)' = Waits(l)
  <1>1. s \in Stage /\ v \in Stage \ {s}
    BY DEF Stage
  <1>2. /\ work'[s][l] = work[s][l] - 1 /\ work'[v][l] = work[v][l] + 1
        /\ \A u \in Stage : u # s /\ u # v => work'[u][l] = work[u][l]
    BY <1>1, MoveType DEF TypeOK, Bag
  <1>3. \A u \in Stage : work[u][l] \in Nat
    BY DEF TypeOK
  <1>4. CASE s = "waiting"
    <2>1. CASE v = "agent"
      BY <1>2, <1>3, <1>4, <2>1 DEF Waits, Stage
    <2>2. CASE v = "noAgent"
      BY <1>2, <1>3, <1>4, <2>2 DEF Waits, Stage
    <2>3. CASE v = "reengage"
      BY <1>2, <1>3, <1>4, <2>3 DEF Waits, Stage
    <2>4. QED
      BY <2>1, <2>2, <2>3
  <1>5. CASE s = "sent"
    BY <1>2, <1>3, <1>5 DEF Waits, Stage
  <1>6. QED
    BY <1>4, <1>5

LEMMA TwiceHandle ==
    ASSUME Types, NEW t \in Thread, KeepUrl(t) \/ Track(t) \/ ClearUrl(t) \/ Report(t),
           NEW l \in Link
    PROVE  Chances(l)' <= Chances(l)
  <1> USE DEF Types
  <1> DEFINE k == at[t].link
  <1>1. /\ k \in Link /\ at[t].step \in Handling
        /\ at'[t].link \in {k, NoLink}
        /\ \A u \in Thread \ {t} : at'[u] = at[u]
        /\ work' = work \/ \E s \in Stage : Put(s, k)
        /\ UNCHANGED <<enabled, replaying, opened, refused>>
        /\ deeplinkUrl' \in {deeplinkUrl, k, NoLink}
        /\ reports' = reports \/ reports' = Count(reports, k)
    BY HandleFrame
  <1>2. l # NoLink /\ Waits(l) \in Nat /\ reports[l] \in Nat /\ reports \in [Link -> Nat]
    BY NoLinkIsNone, WaitsType DEF TypeOK
  <1>3. at'[t].step # "url"
    <2>1. at'[t] \in {Idle, Run("forget"), Do("track", k), Do("clear", k), Do("report", k),
                      Do("short", k)}
      BY KeepUrlAt, TrackAt, ClearUrlAt, ReportAt DEF Finished
    <2>2. QED
      BY <2>1 DEF Idle, Run, Do
  <1>4. ToKeep(l)' <= ToKeep(l)
    <2>1. CASE t = "main"
      <3>1. at'["main"] # Do("url", l)
        BY <1>3, <2>1 DEF Do
      <3>2. QED
        BY <3>1, OneOrNone DEF ToKeep
    <2>2. CASE t = "growing"
      BY <1>1, <2>2, OneOrNone, Threads DEF ToKeep
    <2>3. QED
      BY <2>1, <2>2, Threads
  <1>5. CASE k # l
    <2>1. Waits(l)' = Waits(l)
      BY <1>1, <1>5, OtherWork, WaitsSame
    <2>2. reports'[l] = reports[l]
      BY <1>1, <1>2, <1>5, OtherCount
    <2>3. OnMain(l)' <= OnMain(l) /\ OnGrowing(l)' <= OnGrowing(l)
      BY <1>1, <1>2, <1>5, OneOrNone, Threads DEF OnMain, OnGrowing
    <2>4. ToReplay(l)' <= ToReplay(l)
      BY <1>1, <1>2, <1>5, OneOrNone DEF ToReplay
    <2>5. QED
      BY <1>2, <1>4, <2>1, <2>2, <2>3, <2>4, OneOrNone DEF Chances
  <1>6. CASE k = l
    <2>1. OnMain(l)' <= OnMain(l) /\ OnGrowing(l)' <= OnGrowing(l)
      BY <1>1, <1>2, <1>6, OneOrNone, Threads DEF OnMain, OnGrowing
    <2>2. CASE KeepUrl(t)
      <3>1. UNCHANGED <<work, reports>> /\ at[t].step = "url" /\ at[t] = Do("url", l)
        BY <1>6, <2>2, LinkOf, KeepUrlAt DEF KeepUrl
      <3>2. ToKeep(l)' + ToReplay(l)' <= ToKeep(l) + ToReplay(l)
        <4>1. CASE t = "main"
          <5>1. ToKeep(l) = 1 /\ ToKeep(l)' = 0
            BY <1>3, <3>1, <4>1 DEF ToKeep, Do
          <5>2. QED
            BY <5>1, OneOrNone
        <4>2. CASE t = "growing"
          <5>1. replaying'
            BY <1>1, <4>2 DEF Shape
          <5>2. ToReplay(l)' = 0
            BY <5>1 DEF ToReplay
          <5>3. QED
            BY <1>4, <5>2, OneOrNone
        <4>3. QED
          BY <4>1, <4>2, Threads
      <3>3. Waits(l)' = Waits(l) /\ reports'[l] = reports[l]
        BY <3>1 DEF Waits
      <3>4. QED
        BY <1>2, <2>1, <3>2, <3>3, OneOrNone DEF Chances
    <2>3. CASE Track(t) \/ ClearUrl(t) \/ Report(t)
      <3>1. ToReplay(l)' <= ToReplay(l)
        BY <1>1, <1>2, <2>3, OneOrNone DEF ToReplay, Track, ClearUrl, Report
      <3>2. CASE work' = work /\ reports' = reports
        <4>1. Waits(l)' = Waits(l) /\ reports'[l] = reports[l]
          BY <3>2 DEF Waits
        <4>2. QED
          BY <1>2, <1>4, <2>1, <3>1, <4>1, OneOrNone DEF Chances
      <3>3. CASE ~(work' = work /\ reports' = reports)
        <4>1. /\ at'[t] = Finished(t)
              /\ \/ reports' = reports /\ \E s \in Stage : Put(s, l)
                 \/ work' = work /\ reports' = Count(reports, l)
          <5>1. End(t)
            BY <2>3, <3>3 DEF Track, ClearUrl, Report
          <5>2. \/ reports' = reports /\ \E s \in Stage : Put(s, l)
                \/ work' = work /\ reports' = Count(reports, l)
            BY <1>6, <2>3, <3>3 DEF Track, ClearUrl, Report, Stage
          <5>3. QED
            BY <5>1, <5>2, EndType
        <4>2. at'[t].link = NoLink
          BY <4>1 DEF Finished, Idle, Run
        <4>3. OnMain(l)' + OnGrowing(l)' = OnMain(l) + OnGrowing(l) - 1
          <5>1. CASE t = "main"
            BY <1>1, <1>2, <1>6, <4>2, <5>1, Threads DEF OnMain, OnGrowing
          <5>2. CASE t = "growing"
            BY <1>1, <1>2, <1>6, <4>2, <5>2, Threads DEF OnMain, OnGrowing
          <5>3. QED
            BY <5>1, <5>2, Threads
        <4>4. reports'[l] + Waits(l)' = reports[l] + Waits(l) + 1
          <5>1. ASSUME NEW s \in Stage, Put(s, l), reports' = reports
                PROVE  reports'[l] + Waits(l)' = reports[l] + Waits(l) + 1
            <6>1. Waits(l)' = Waits(l) + 1
              BY <5>1, WaitsPut
            <6>2. QED
              BY <1>2, <5>1, <6>1
          <5>2. CASE work' = work /\ reports' = Count(reports, l)
            <6>1. Waits(l)' = Waits(l)
              BY <5>2 DEF Waits
            <6>2. reports'[l] = reports[l] + 1
              BY <1>2, <5>2, CountType
            <6>3. QED
              BY <1>2, <6>1, <6>2
          <5>3. QED
            BY <4>1, <5>1, <5>2
        <4>5. reports'[l] \in Nat /\ Waits(l)' \in Nat
          <5>1. TypeOK'
            BY HandleType
          <5>2. \A s \in Stage : work'[s][l] \in Nat
            BY <5>1 DEF TypeOK
          <5>3. QED
            BY <5>1, <5>2 DEF TypeOK, Waits, Stage
        <4>6. QED
          BY <1>2, <1>4, <3>1, <4>3, <4>4, <4>5, OneOrNone DEF Chances
      <3>4. QED
        BY <3>2, <3>3
    <2>4. QED
      BY <2>2, <2>3
  <1>7. QED
    BY <1>5, <1>6

LEMMA TwiceWork ==
    ASSUME Types, Fresh, Work, NEW l \in Link, Chances(l) <= Limit(l)
    PROVE  Chances(l)' <= Limit(l)
  <1> USE DEF Types
  <1>1. l # NoLink /\ Waits(l) \in Nat /\ reports[l] \in Nat
    BY NoLinkIsNone, WaitsType
  <1>2. ASSUME NEW k \in Link, Open(k)
        PROVE  Chances(l)' <= Limit(l)
    <2>1. /\ at["main"] = Idle /\ at'["growing"] = at["growing"]
          /\ at'["main"] \in {Idle, Begins(k)}
          /\ UNCHANGED <<work, reports, deeplinkUrl, replaying>> /\ k \notin opened
      BY <1>2, OpenAt DEF Open
    <2>2. /\ Waits(l)' = Waits(l) /\ reports'[l] = reports[l]
          /\ OnGrowing(l)' = OnGrowing(l) /\ ToReplay(l)' = ToReplay(l)
      BY <2>1 DEF Waits, OnGrowing, ToReplay
    <2>3. CASE k = l
      <3>1. New(l)
        BY <2>1, <2>3 DEF Fresh
      <3>2. reports[l] = 0 /\ Waits(l) = 0 /\ OnGrowing(l) = 0 /\ ToReplay(l) = 0
        BY <3>1, Threads DEF New, Waits, Stage, OnGrowing, ToReplay
      <3>3. l \in Manual => ToKeep(l)' = 0
        BY <2>1, <2>3 DEF Begins, Do, Idle, ToKeep
      <3>4. QED
        BY <2>2, <3>2, <3>3, OneOrNone DEF Chances, Limit
    <2>4. CASE k # l
      <3>1. at'["main"].link # l /\ at'["main"] # Do("url", l)
        BY <1>1, <2>1, <2>4 DEF Begins, Do, Idle
      <3>2. OnMain(l)' = 0 /\ ToKeep(l)' = 0
        BY <3>1 DEF OnMain, ToKeep
      <3>3. Chances(l)' <= Chances(l)
        BY <1>1, <2>2, <3>2, OneOrNone DEF Chances
      <3>4. Chances(l)' \in Int /\ Chances(l) \in Int /\ Limit(l) \in Int
        BY <1>1, <2>2, OneOrNone DEF Chances, Limit
      <3>5. QED
        BY <3>3, <3>4
    <2>5. QED
      BY <2>3, <2>4
  <1>3. ASSUME NEW k \in Link, NEW s \in Block, Begin(s, k)
        PROVE  Chances(l)' <= Limit(l)
    <2>1. /\ at["growing"] = Idle /\ at'["growing"] = Do(s, k) /\ at'["main"] = at["main"]
          /\ UNCHANGED <<reports, deeplinkUrl, replaying>> /\ Take(s, k) /\ s \in Stage
      BY <1>3, BeginAt DEF Begin, history, Block, Stage
    <2>2. /\ reports'[l] = reports[l] /\ OnMain(l)' = OnMain(l)
          /\ ToKeep(l)' = ToKeep(l) /\ ToReplay(l)' = ToReplay(l)
      BY <2>1 DEF OnMain, ToKeep, ToReplay
    <2>3. OnGrowing(l) = 0 /\ OnGrowing(l)' = IF k = l THEN 1 ELSE 0
      BY <1>1, <2>1 DEF OnGrowing, Idle, Do
    <2>4. Waits(l)' = IF k = l THEN Waits(l) - 1 ELSE Waits(l)
      <3>1. CASE k = l
        BY <2>1, <3>1, WaitsTake
      <3>2. CASE k # l
        BY <2>1, <3>2, OtherWork, WaitsSame
      <3>3. QED
        BY <3>1, <3>2
    <2>5. Chances(l)' = Chances(l)
      BY <1>1, <2>2, <2>3, <2>4, OneOrNone DEF Chances
    <2>6. QED
      BY <2>5
  <1>4. ASSUME NEW k \in Link,
               UserAgentArrives(k) \/ Answered(k) \/ AnsweredInPart(k) \/ RequestFails(k)
        PROVE  Chances(l)' <= Limit(l)
    <2>1. /\ UNCHANGED <<reports, deeplinkUrl, replaying, at>>
          /\ \/ \E s \in Stage : Take(s, k)
             \/ \E s \in Stage, u \in Stage : s # u /\ Move(s, u, k)
      BY <1>4, WorkFrame
    <2>2. /\ reports'[l] = reports[l] /\ OnMain(l)' = OnMain(l) /\ OnGrowing(l)' = OnGrowing(l)
          /\ ToKeep(l)' = ToKeep(l) /\ ToReplay(l)' = ToReplay(l)
      BY <2>1 DEF OnMain, OnGrowing, ToKeep, ToReplay
    <2>3. Waits(l)' = Waits(l) \/ Waits(l)' = Waits(l) - 1
      <3>1. CASE k # l
        BY <2>1, <3>1, OtherWork, WaitsSame
      <3>2. CASE k = l
        <4>1. \/ Move("waiting", "agent", l) \/ Move("waiting", "noAgent", l)
              \/ Move("sent", "reengage", l) \/ Take("sent", l)
          BY <1>4, <3>2 DEF UserAgentArrives, Answered, AnsweredInPart, RequestFails
        <4>2. "sent" \in Stage
          BY DEF Stage
        <4>3. QED
          BY <4>1, <4>2, WaitsMove, WaitsTake
      <3>3. QED
        BY <3>1, <3>2
    <2>4. Chances(l)' <= Chances(l)
      BY <1>1, <2>2, <2>3, OneOrNone DEF Chances
    <2>5. Chances(l)' \in Int /\ Chances(l) \in Int /\ Limit(l) \in Int
      BY <1>1, <2>2, <2>3, OneOrNone DEF Chances, Limit
    <2>6. QED
      BY <2>4, <2>5
  <1>5. QED
    BY <1>2, <1>3, <1>4 DEF Work

LEMMA TwiceGrowing ==
    ASSUME Types, Growing, NEW l \in Link
    PROVE  Chances(l)' <= Chances(l)
  <1> USE DEF Types
  <1> DEFINE k == at["growing"].link
  <1>1. l # NoLink /\ Waits(l) \in Nat /\ reports[l] \in Nat /\ reports \in [Link -> Nat]
    BY NoLinkIsNone, WaitsType DEF TypeOK
  <1>2. CASE ShortLink \/ PreRequest \/ NoUserAgent \/ GenerateAppReengage
    <2>1. /\ k \in Link /\ at'["growing"].link \in {k, NoLink}
          /\ at'["main"] = at["main"]
          /\ work' = work \/ \E s \in Stage : Put(s, k)
          /\ UNCHANGED replaying
          /\ deeplinkUrl' \in {deeplinkUrl, NoLink}
          /\ reports' = reports \/ reports' = Count(reports, k)
      BY <1>2, BlockFrame
    <2>2. OnMain(l)' = OnMain(l) /\ ToKeep(l)' = ToKeep(l)
      BY <2>1 DEF OnMain, ToKeep
    <2>3. ToReplay(l)' <= ToReplay(l)
      BY <1>1, <2>1, OneOrNone DEF ToReplay
    <2>4. OnGrowing(l)' <= OnGrowing(l)
      BY <1>1, <2>1, OneOrNone DEF OnGrowing
    <2>5. CASE k # l
      <3>1. Waits(l)' = Waits(l)
        BY <2>1, <2>5, OtherWork, WaitsSame
      <3>2. reports'[l] = reports[l]
        BY <1>1, <2>1, <2>5, OtherCount
      <3>3. QED
        BY <1>1, <2>2, <2>3, <2>4, <3>1, <3>2, OneOrNone DEF Chances
    <2>6. CASE k = l
      <3>1. CASE work' = work /\ reports' = reports
        <4>1. Waits(l)' = Waits(l) /\ reports'[l] = reports[l]
          BY <3>1 DEF Waits
        <4>2. QED
          BY <1>1, <2>2, <2>3, <2>4, <4>1, OneOrNone DEF Chances
      <3>2. CASE ~(work' = work /\ reports' = reports)
        <4>1. End("growing")
          BY <1>2, <3>2 DEF ShortLink, PreRequest, NoUserAgent, GenerateAppReengage, history
        <4>2. at'["growing"].link = NoLink
          BY <4>1, EndType, Threads DEF Idle, Run
        <4>3. OnGrowing(l) = 1 /\ OnGrowing(l)' = 0
          BY <1>1, <2>6, <4>2 DEF OnGrowing
        <4>4. \/ reports' = reports /\ \E s \in Stage : Put(s, l)
              \/ work' = work /\ reports' = Count(reports, l)
          BY <1>2, <2>6, <3>2
          DEF ShortLink, PreRequest, NoUserAgent, GenerateAppReengage, Stage, history
        <4>5. /\ reports'[l] + Waits(l)' = reports[l] + Waits(l) + 1
              /\ reports'[l] \in Nat /\ Waits(l)' \in Nat
          <5>1. ASSUME NEW s \in Stage, Put(s, l), reports' = reports
                PROVE  /\ reports'[l] + Waits(l)' = reports[l] + Waits(l) + 1
                       /\ reports'[l] \in Nat /\ Waits(l)' \in Nat
            <6>1. Waits(l)' = Waits(l) + 1
              BY <5>1, WaitsPut
            <6>2. QED
              BY <1>1, <5>1, <6>1
          <5>2. CASE work' = work /\ reports' = Count(reports, l)
            <6>1. Waits(l)' = Waits(l)
              BY <5>2 DEF Waits
            <6>2. reports'[l] = reports[l] + 1
              BY <1>1, <5>2, CountType
            <6>3. QED
              BY <1>1, <6>1, <6>2
          <5>3. QED
            BY <4>4, <5>1, <5>2
        <4>6. QED
          BY <1>1, <2>2, <2>3, <4>3, <4>5, OneOrNone DEF Chances
      <3>3. QED
        BY <3>1, <3>2
    <2>7. QED
      BY <2>5, <2>6
  <1>3. CASE SetDataCollectionEnabled \/ ReadUrl \/ CopyUrl \/ ForgetUrl
    <2>1. /\ k = NoLink /\ at'["growing"].link \in {NoLink, deeplinkUrl}
          /\ at'["main"] = at["main"]
          /\ UNCHANGED <<work, reports>>
          /\ deeplinkUrl' \in {deeplinkUrl, NoLink}
      BY <1>3, ReplayFrame
    <2>2. /\ Waits(l)' = Waits(l) /\ reports'[l] = reports[l]
          /\ OnMain(l)' = OnMain(l) /\ ToKeep(l)' = ToKeep(l) /\ OnGrowing(l) = 0
      BY <1>1, <2>1 DEF Waits, OnMain, ToKeep, OnGrowing
    <2>3. OnGrowing(l)' + ToReplay(l)' <= ToReplay(l)
      <3>1. CASE SetDataCollectionEnabled \/ ReadUrl
        <4>1. at'["growing"] \in {Idle, Run("read"), Run("copy")}
          BY <3>1, ToggleAt, ReadUrlAt
        <4>2. at'["growing"].link = NoLink /\ UNCHANGED <<deeplinkUrl, replaying>>
          BY <3>1, <4>1 DEF Idle, Run, SetDataCollectionEnabled, ReadUrl
        <4>3. QED
          BY <1>1, <4>2 DEF OnGrowing, ToReplay
      <3>2. CASE CopyUrl
        <4>1. at["growing"].step = "copy" /\ replaying'
          BY <3>2 DEF CopyUrl, At
        <4>2. ~replaying
          BY <4>1 DEF Shape, Handling
        <4>3. ToReplay(l)' = 0
          BY <4>1 DEF ToReplay
        <4>4. OnGrowing(l)' <= ToReplay(l)
          BY <1>1, <2>1, <4>2 DEF OnGrowing, ToReplay
        <4>5. QED
          BY <4>3, <4>4, OneOrNone
      <3>3. CASE ForgetUrl
        <4>1. at'["growing"] = Idle /\ deeplinkUrl' = NoLink
          BY <3>3, ForgetUrlAt DEF ForgetUrl
        <4>2. OnGrowing(l)' = 0 /\ ToReplay(l)' = 0
          BY <1>1, <4>1 DEF Idle, OnGrowing, ToReplay
        <4>3. QED
          BY <4>2, OneOrNone
      <3>4. QED
        BY <1>3, <3>1, <3>2, <3>3
    <2>4. QED
      BY <1>1, <2>2, <2>3, OneOrNone DEF Chances
  <1>4. QED
    BY <1>2, <1>3 DEF Growing

LEMMA ChancesType ==
    ASSUME NEW l \in Link
    PROVE  TypeOK => /\ Chances(l) \in Nat /\ Limit(l) \in Nat
                     /\ reports[l] \in Nat /\ reports[l] <= Chances(l)
  <1> SUFFICES ASSUME TypeOK
               PROVE  /\ Chances(l) \in Nat /\ Limit(l) \in Nat
                      /\ reports[l] \in Nat /\ reports[l] <= Chances(l)
    OBVIOUS
  <1>1. QED
    BY WaitsType, OneOrNone DEF Chances, Limit

LEMMA TwiceAlways == Spec => []Twice
  <1>1. Init => Twice
    <2> SUFFICES ASSUME Init, NEW l \in Link
                 PROVE  Chances(l) <= Limit(l)
      BY DEF Twice
    <2>1. New(l)
      BY FreshStart DEF Fresh, Init
    <2>2. reports[l] = 0 /\ Waits(l) = 0 /\ OnGrowing(l) = 0 /\ OnMain(l) = 0 /\ ToReplay(l) = 0
      BY <2>1, Threads DEF New, Waits, Stage, OnGrowing, OnMain, ToReplay
    <2>3. ToKeep(l) = 0
      BY <2>1, Threads DEF New, ToKeep, Do
    <2>4. QED
      BY <2>2, <2>3 DEF Chances, Limit
  <1>2. Types /\ Fresh /\ Twice /\ [Next]_vars => Twice'
    <2> SUFFICES ASSUME Types, Fresh, Twice, [Next]_vars, NEW l \in Link
                 PROVE  (Chances(l) <= Limit(l))'
      BY DEF Twice
    <2>1. Chances(l) <= Limit(l) /\ Limit(l)' = Limit(l)
      BY DEF Twice, Limit
    <2>2. TypeOK /\ TypeOK'
      BY NextType DEF Types
    <2>3. Chances(l) \in Nat /\ Chances(l)' \in Nat /\ Limit(l) \in Nat
      <3>1. TypeOK => Chances(l) \in Nat /\ Limit(l) \in Nat
        BY ChancesType
      <3>2. (\A s \in Stage : work'[s][l] \in Nat) /\ reports'[l] \in Nat
        BY <2>2 DEF TypeOK
      <3>3. Chances(l)' \in Nat
        BY <3>2, OneOrNone DEF Chances, Waits, Stage
      <3>4. QED
        BY <2>2, <3>1, <3>3
    <2>4. CASE Handle
      <3>1. Chances(l)' <= Chances(l)
        BY <2>4, TwiceHandle DEF Handle
      <3>2. QED
        BY <2>1, <2>3, <3>1
    <2>5. CASE Work
      <3>1. Chances(l)' <= Limit(l)
        BY <2>1, <2>5, TwiceWork
      <3>2. QED
        BY <2>1, <3>1
    <2>6. CASE Growing
      <3>1. Chances(l)' <= Chances(l)
        BY <2>6, TwiceGrowing
      <3>2. QED
        BY <2>1, <2>3, <3>1
    <2>7. CASE UNCHANGED vars
      <3>1. Chances(l)' = Chances(l)
        BY <2>7 DEF vars, history, Chances, Waits, OnMain, OnGrowing, ToKeep, ToReplay
      <3>2. QED
        BY <2>1, <3>1
    <2>8. QED
      BY <2>4, <2>5, <2>6, <2>7 DEF Next
  <1>3. QED
    BY <1>1, <1>2, TypesAlways, FreshAlways, PTL DEF Spec

(* A link that is opened is reported twice at most, one of the app once: only   *)
(* the call and one replay handle it, however often collection is switched.     *)
THEOREM TwiceAtMost == Spec => []HandledTwiceAtMost
  <1>1. TypeOK /\ Twice => HandledTwiceAtMost
    <2> SUFFICES ASSUME TypeOK, Twice, NEW l \in Link
                 PROVE  reports[l] <= Limit(l)
      BY DEF HandledTwiceAtMost, Limit
    <2>1. /\ Chances(l) <= Limit(l) /\ Chances(l) \in Nat /\ Limit(l) \in Nat
          /\ reports[l] \in Nat /\ reports[l] <= Chances(l)
      BY ChancesType DEF Twice
    <2>2. QED
      BY <2>1
  <1>2. QED
    BY <1>1, TypeCorrect, TwiceAlways, PTL

-----------------------------------------------------------------------------
(* How often the app is answered *)

(* A link of the app is never kept, so GrowingThread does not begin with it. *)
NeverKept ==
    /\ deeplinkUrl \notin Manual
    /\ \A t \in Thread : at[t].step = "url" => at[t].link \notin Manual

LEMMA NeverKeptStep ==
    ASSUME TypeOK, NeverKept, Next
    PROVE  NeverKept'
  <1>1. NoLink \notin Manual
    BY DeepLinkAssumption
  <1>2. ASSUME NEW t \in Thread, KeepUrl(t) \/ Track(t) \/ ClearUrl(t) \/ Report(t)
        PROVE  NeverKept'
    <2>1. deeplinkUrl' \notin Manual
      <3>1. CASE KeepUrl(t)
        BY <3>1, KeepUrlAt DEF KeepUrl, NeverKept
      <3>2. CASE Track(t) \/ ClearUrl(t) \/ Report(t)
        BY <1>1, <3>2 DEF Track, ClearUrl, Report, NeverKept
      <3>3. QED
        BY <1>2, <3>1, <3>2
    <2>2. at'[t].step # "url"
      <3>1. at'[t] \in {Idle, Run("forget"), Do("track", at[t].link), Do("clear", at[t].link),
                        Do("report", at[t].link), Do("short", at[t].link)}
        BY <1>2, KeepUrlAt, TrackAt, ClearUrlAt, ReportAt DEF Finished
      <3>2. QED
        BY <3>1 DEF Idle, Run, Do
    <2>3. \A u \in Thread \ {t} : at'[u] = at[u]
      BY <1>2, HandleFrame
    <2>4. QED
      BY <2>1, <2>2, <2>3 DEF NeverKept
  <1>3. ASSUME NEW k \in Link, Open(k)
        PROVE  NeverKept'
    <2>1. at'["main"] \in {Idle, Begins(k)} /\ at'["growing"] = at["growing"] /\ UNCHANGED deeplinkUrl
      BY <1>3, OpenAt DEF Open
    <2>2. at'["main"].step = "url" => at'["main"].link \notin Manual
      BY <2>1 DEF Begins, Do, Idle
    <2>3. QED
      BY <2>1, <2>2, Threads DEF NeverKept
  <1>4. ASSUME NEW k \in Link, NEW s \in Block, Begin(s, k)
        PROVE  NeverKept'
    <2>1. at'["growing"] = Do(s, k) /\ at'["main"] = at["main"] /\ UNCHANGED deeplinkUrl
      BY <1>4, BeginAt DEF Begin
    <2>2. at'["growing"].step # "url"
      BY <2>1 DEF Do, Block
    <2>3. QED
      BY <2>1, <2>2, Threads DEF NeverKept
  <1>5. ASSUME NEW k \in Link,
               UserAgentArrives(k) \/ Answered(k) \/ AnsweredInPart(k) \/ RequestFails(k)
        PROVE  NeverKept'
    BY <1>5, WorkFrame DEF NeverKept
  <1>6. CASE ShortLink \/ PreRequest \/ NoUserAgent \/ GenerateAppReengage
    <2>1. /\ at'["growing"] \in {Idle, Run("forget"), Do("agent", at["growing"].link)}
          /\ at'["main"] = at["main"]
      BY <1>6, BlockAt DEF Finished
    <2>2. at'["growing"].step # "url"
      BY <2>1 DEF Idle, Run, Do
    <2>3. deeplinkUrl' \in {deeplinkUrl, NoLink}
      BY <1>6, BlockFrame
    <2>4. QED
      BY <1>1, <2>1, <2>2, <2>3, Threads DEF NeverKept
  <1>7. CASE SetDataCollectionEnabled \/ ReadUrl \/ CopyUrl \/ ForgetUrl
    <2>1. at'["growing"] \in {Idle, Run("read"), Run("copy"), Run("forget"), Do("url", deeplinkUrl)}
      BY <1>7, ToggleAt, ReadUrlAt, CopyUrlAt, ForgetUrlAt
    <2>2. at'["growing"].step = "url" => at'["growing"].link = deeplinkUrl
      BY <2>1 DEF Idle, Run, Do
    <2>3. at'["main"] = at["main"] /\ deeplinkUrl' \in {deeplinkUrl, NoLink}
      BY <1>7, ReplayFrame
    <2>4. QED
      BY <1>1, <2>2, <2>3, Threads DEF NeverKept
  <1>8. QED
    BY <1>2, <1>3, <1>4, <1>5, <1>6, <1>7 DEF Next, Handle, Work, Growing

LEMMA NeverKeptAlways == Spec => []NeverKept
  <1>1. Init => NeverKept
    BY DeepLinkAssumption DEF Init, NeverKept, Idle
  <1>2. TypeOK /\ NeverKept /\ [Next]_vars => NeverKept'
    <2>1. NeverKept /\ UNCHANGED vars => NeverKept'
      BY DEF NeverKept, vars
    <2>2. QED
      BY <2>1, NeverKeptStep
  <1>3. QED
    BY <1>1, <1>2, TypeCorrect, PTL DEF Spec

(* The answers of a link: given, or still to come. *)
Asked(l) == work["short"][l] + work["waiting"][l] + work["agent"][l]
            + work["noAgent"][l] + work["sent"][l]

InBlock(l) == IF at["growing"].link = l /\ at["growing"].step # "reengage" THEN 1 ELSE 0

Answers(l) == told[l] + Asked(l) + OnMain(l) + InBlock(l)

(* An answer is given up only for a link that is excused, or that has none. *)
Kept(l) ==
    \/ Answers(l)' = Answers(l)
    \/ /\ Answers(l)' = Answers(l) - 1
       /\ l \in excused' \/ l \notin Promised \cup Foreign

AnswersKept ==
    /\ \A l \in refused : told[l] > 0
    /\ \A l \in Manual \cap opened :
          /\ Answers(l) <= 1
          /\ l \in (Promised \cup Foreign) \ excused => Answers(l) = 1
          /\ l \in Foreign => told[l] > 0

LEMMA AskedType ==
    ASSUME TypeOK, NEW l \in Link
    PROVE  /\ Asked(l) \in Nat /\ told[l] \in Nat
           /\ OnMain(l) \in {0, 1} /\ InBlock(l) \in {0, 1} /\ Answers(l) \in Nat
  <1>1. \A s \in Stage : work[s][l] \in Nat
    BY DEF TypeOK
  <1>2. Asked(l) \in Nat /\ told[l] \in Nat
    BY <1>1 DEF Asked, Stage, TypeOK
  <1>3. OnMain(l) \in {0, 1} /\ InBlock(l) \in {0, 1}
    BY DEF OnMain, InBlock
  <1>4. QED
    BY <1>2, <1>3 DEF Answers

LEMMA AskedSame ==
    ASSUME NEW l \in Link, \A s \in Stage \ {"reengage"} : work'[s][l] = work[s][l]
    PROVE  Asked(l)' = Asked(l)
  BY DEF Asked, Stage

LEMMA AskedPut ==
    ASSUME TypeOK, NEW s \in Stage \ {"reengage"}, NEW l \in Link, Put(s, l)
    PROVE  Asked(l)' = Asked(l) + 1
  <1>1. /\ work'[s][l] = work[s][l] + 1
        /\ \A u \in Stage : u # s => work'[u][l] = work[u][l]
    BY PutType DEF TypeOK, Bag
  <1>2. \A u \in Stage : work[u][l] \in Nat
    BY DEF TypeOK
  <1>3. QED
    BY <1>1, <1>2 DEF Asked, Stage

LEMMA AskedTake ==
    ASSUME TypeOK, NEW s \in Stage \ {"reengage"}, NEW l \in Link, Take(s, l)
    PROVE  Asked(l)' = Asked(l) - 1
  <1>1. /\ work'[s][l] = work[s][l] - 1
        /\ \A u \in Stage : u # s => work'[u][l] = work[u][l]
    BY TakeType DEF TypeOK, Bag
  <1>2. \A u \in Stage : work[u][l] \in Nat
    BY DEF TypeOK
  <1>3. QED
    BY <1>1, <1>2 DEF Asked, Stage

LEMMA AskedMove ==
    ASSUME TypeOK, NEW l \in Link
    PROVE  /\ Move("waiting", "agent", l) \/ Move("waiting", "noAgent", l)
                => Asked(l)' = Asked(l)
           /\ Move("sent", "reengage", l) => Asked(l)' = Asked(l) - 1
  <1>1. \A u \in Stage : work[u][l] \in Nat
    BY DEF TypeOK
  <1>2. ASSUME NEW v \in {"agent", "noAgent"}, Move("waiting", v, l)
        PROVE  Asked(l)' = Asked(l)
    <2>1. /\ work'["waiting"][l] = work["waiting"][l] - 1 /\ work'[v][l] = work[v][l] + 1
          /\ \A u \in Stage : u # "waiting" /\ u # v => work'[u][l] = work[u][l]
      BY <1>2, MoveType DEF TypeOK, Bag, Stage
    <2>2. work'["short"][l] = work["short"][l] /\ work'["sent"][l] = work["sent"][l]
      BY <2>1 DEF Stage
    <2>3. work'["agent"][l] + work'["noAgent"][l] = work["agent"][l] + work["noAgent"][l] + 1
      <3>1. CASE v = "agent"
        BY <1>1, <2>1, <3>1 DEF Stage
      <3>2. CASE v = "noAgent"
        BY <1>1, <2>1, <3>2 DEF Stage
      <3>3. QED
        BY <3>1, <3>2
    <2>4. \A u \in Stage : work'[u][l] \in Int
      <3>1. work' \in Bag
        BY <1>2, MoveType DEF TypeOK, Bag, Stage
      <3>2. QED
        BY <3>1 DEF Bag
    <2>5. QED
      BY <1>1, <2>1, <2>2, <2>3, <2>4 DEF Asked, Stage
  <1>3. ASSUME Move("sent", "reengage", l)
        PROVE  Asked(l)' = Asked(l) - 1
    <2>1. /\ work'["sent"][l] = work["sent"][l] - 1
          /\ \A u \in Stage : u # "sent" /\ u # "reengage" => work'[u][l] = work[u][l]
      BY <1>3, MoveType DEF TypeOK, Bag, Stage
    <2>2. QED
      BY <1>1, <2>1 DEF Asked, Stage
  <1>4. QED
    BY <1>2, <1>3

(* What a thread has of a link before and after a step. *)
LEMMA AtEnd ==
    ASSUME NEW t \in Thread, NEW l \in Link, at[t].link = l, at[t].step # "reengage",
           at'[t] = Finished(t), \A u \in Thread \ {t} : at'[u] = at[u]
    PROVE  OnMain(l)' + InBlock(l)' = OnMain(l) + InBlock(l) - 1
  <1>1. at'[t].link # l
    BY NoLinkIsNone DEF Finished, Idle, Run
  <1>2. CASE t = "main"
    BY <1>1, <1>2, Threads DEF OnMain, InBlock
  <1>3. CASE t = "growing"
    BY <1>1, <1>3, Threads DEF OnMain, InBlock
  <1>4. QED
    BY <1>2, <1>3, Threads

LEMMA AtGoes ==
    ASSUME NEW t \in Thread, NEW l \in Link, at[t].link = l, at[t].step # "reengage",
           NEW s, s # "reengage", at'[t] = Do(s, l), \A u \in Thread \ {t} : at'[u] = at[u]
    PROVE  OnMain(l)' = OnMain(l) /\ InBlock(l)' = InBlock(l)
  <1>1. at'[t].link = l /\ at'[t].step # "reengage"
    BY DEF Do
  <1>2. CASE t = "main"
    BY <1>1, <1>2, Threads DEF OnMain, InBlock
  <1>3. CASE t = "growing"
    BY <1>1, <1>3, Threads DEF OnMain, InBlock
  <1>4. QED
    BY <1>2, <1>3, Threads

LEMMA AtOther ==
    ASSUME NEW t \in Thread, NEW l \in Link, at[t].link # l, at'[t].link # l,
           \A u \in Thread \ {t} : at'[u] = at[u]
    PROVE  OnMain(l)' = OnMain(l) /\ InBlock(l)' = InBlock(l)
  <1>1. CASE t = "main"
    BY <1>1, Threads DEF OnMain, InBlock
  <1>2. CASE t = "growing"
    BY <1>2, Threads DEF OnMain, InBlock
  <1>3. QED
    BY <1>1, <1>2, Threads

LEMMA KeptHandle ==
    ASSUME Types, NeverKept, NEW t \in Thread,
           KeepUrl(t) \/ Track(t) \/ ClearUrl(t) \/ Report(t), NEW l \in Manual \cap Link
    PROVE  Kept(l)
  <1> USE DEF Types
  <1> DEFINE k == at[t].link
  <1>1. /\ k \in Link /\ at[t].step \in Handling
        /\ at'[t].link \in {k, NoLink}
        /\ \A u \in Thread \ {t} : at'[u] = at[u]
        /\ work' = work \/ \E s \in Stage : Put(s, k)
        /\ told' = told \/ told' = Count(told, k)
    BY HandleFrame
  <1>2. /\ l # NoLink /\ told \in [Link -> Nat]
        /\ Asked(l) \in Nat /\ told[l] \in Nat /\ OnMain(l) \in {0, 1} /\ InBlock(l) \in {0, 1}
    BY NoLinkIsNone, AskedType DEF TypeOK
  <1>3. OnMain(l)' \in {0, 1} /\ InBlock(l)' \in {0, 1}
    BY DEF OnMain, InBlock
  <1>4. CASE k # l
    <2>1. OnMain(l)' = OnMain(l) /\ InBlock(l)' = InBlock(l)
      BY <1>1, <1>2, <1>4, AtOther
    <2>2. Asked(l)' = Asked(l)
      BY <1>1, <1>4, OtherWork, AskedSame
    <2>3. told'[l] = told[l]
      BY <1>1, <1>2, <1>4, OtherCount
    <2>4. QED
      BY <2>1, <2>2, <2>3 DEF Kept, Answers
  <1>5. CASE k = l
    <2>1. at[t].link = l /\ at[t].step # "reengage"
      BY <1>1, <1>5 DEF Handling
    <2>2. CASE KeepUrl(t)
      BY <1>5, <2>2, KeepUrlAt DEF NeverKept
    <2>3. CASE ClearUrl(t)
      <3>1. at'[t] = Do("report", l) /\ UNCHANGED <<work, told>>
        BY <1>5, <2>3, ClearUrlAt DEF ClearUrl
      <3>2. OnMain(l)' = OnMain(l) /\ InBlock(l)' = InBlock(l)
        BY <1>1, <2>1, <3>1, AtGoes
      <3>3. QED
        BY <3>1, <3>2 DEF Kept, Answers, Asked
    <2>4. CASE Track(t)
      <3>1. UNCHANGED told
        BY <2>4 DEF Track
      <3>2. CASE at'[t] \in {Do("short", l), Do("clear", l)}
        <4>1. OnMain(l)' = OnMain(l) /\ InBlock(l)' = InBlock(l)
          BY <1>1, <2>1, <3>2, AtGoes
        <4>2. Finished(t).link = NoLink /\ at'[t].link = l
          BY <3>2 DEF Finished, Idle, Run, Do
        <4>3. ~End(t)
          BY <1>2, <4>2, EndType
        <4>4. work' = work
          BY <2>4, <4>3 DEF Track
        <4>5. QED
          BY <3>1, <4>1, <4>4 DEF Kept, Answers, Asked
      <3>3. CASE at'[t] \notin {Do("short", l), Do("clear", l)}
        <4>1. at'[t] = Finished(t)
          BY <1>5, <2>4, <3>3, TrackAt
        <4>2. OnMain(l)' + InBlock(l)' = OnMain(l) + InBlock(l) - 1
          BY <1>1, <2>1, <4>1, AtEnd
        <4>3. ~Goto(t, Do("short", l)) /\ ~Goto(t, Do("clear", l))
          BY <3>3, <1>5, GotoType, FrameTypes DEF Handling, Block
        <4>4. \/ Put("short", l)
              \/ work' = work /\ (l \in excused' \/ l \in Other)
          BY <1>5, <2>4, <4>3 DEF Track
        <4>5. CASE Put("short", l)
          <5>1. Asked(l)' = Asked(l) + 1
            BY <4>5, AskedPut DEF Stage
          <5>2. QED
            BY <1>2, <1>3, <3>1, <4>2, <5>1 DEF Kept, Answers
        <4>6. CASE work' = work /\ (l \in excused' \/ l \in Other)
          <5>1. l \in excused' \/ l \notin Promised \cup Foreign
            BY <4>6, DeepLinkAssumption DEF Promised
          <5>2. Asked(l)' = Asked(l)
            BY <4>6 DEF Asked
          <5>3. Answers(l)' = Answers(l) - 1
            BY <1>2, <1>3, <3>1, <4>2, <5>2 DEF Answers
          <5>4. QED
            BY <5>1, <5>3 DEF Kept
        <4>7. QED
          BY <4>4, <4>5, <4>6
      <3>4. QED
        BY <3>2, <3>3
    <2>5. CASE Report(t)
      <3>1. at'[t] = Finished(t)
        BY <2>5, ReportAt
      <3>2. OnMain(l)' + InBlock(l)' = OnMain(l) + InBlock(l) - 1
        BY <1>1, <2>1, <3>1, AtEnd
      <3>3. Asked(l)' = Asked(l)
        <4>1. work' = work \/ Put("reengage", l)
          BY <1>5, <2>5 DEF Report
        <4>2. \A s \in Stage \ {"reengage"} : work'[s][l] = work[s][l]
          BY <4>1, PutType DEF TypeOK, Bag, Stage
        <4>3. QED
          BY <4>2, AskedSame
      <3>4. CASE l \in Complete
        <4>1. told' = Count(told, l)
          BY <1>5, <2>5, <3>4, DeepLinkAssumption DEF Report
        <4>2. told'[l] = told[l] + 1
          BY <1>2, <4>1, CountType
        <4>3. QED
          BY <1>2, <1>3, <3>2, <3>3, <4>2 DEF Kept, Answers
      <3>5. CASE l \notin Complete
        <4>1. l \in Partial /\ told' = told
          BY <1>5, <2>5, <3>5 DEF Report
        <4>2. l \notin Promised \cup Foreign
          BY <4>1, DeepLinkAssumption DEF Promised
        <4>3. Answers(l)' = Answers(l) - 1
          BY <1>2, <1>3, <3>2, <3>3, <4>1 DEF Answers
        <4>4. QED
          BY <4>2, <4>3 DEF Kept
      <3>6. QED
        BY <3>4, <3>5
    <2>6. QED
      BY <2>2, <2>3, <2>4, <2>5
  <1>6. QED
    BY <1>4, <1>5

LEMMA KeptWork ==
    ASSUME Types, Work, NEW l \in Manual \cap opened
    PROVE  Kept(l)
  <1> USE DEF Types
  <1>1. /\ l \in Link /\ l # NoLink /\ told \in [Link -> Nat]
        /\ Asked(l) \in Nat /\ told[l] \in Nat /\ OnMain(l) \in {0, 1} /\ InBlock(l) \in {0, 1}
    <2>1. l \in Link
      BY DEF TypeOK
    <2>2. QED
      BY <2>1, NoLinkIsNone, AskedType DEF TypeOK
  <1>2. ASSUME NEW k \in Link, Open(k)
        PROVE  Kept(l)
    <2>1. /\ at["main"] = Idle /\ at'["growing"] = at["growing"]
          /\ at'["main"] \in {Idle, Begins(k)}
          /\ UNCHANGED work /\ (told' = told \/ told' = Count(told, k)) /\ k # l
      BY <1>2, OpenAt DEF Open
    <2>2. at["main"].link # l /\ at'["main"].link # l
      BY <1>1, <2>1 DEF Idle, Begins, Do
    <2>3. OnMain(l)' = OnMain(l) /\ InBlock(l)' = InBlock(l)
      BY <2>1, <2>2 DEF OnMain, InBlock
    <2>4. told'[l] = told[l]
      BY <1>1, <2>1, OtherCount
    <2>5. QED
      BY <2>1, <2>3, <2>4 DEF Kept, Answers, Asked
  <1>3. ASSUME NEW k \in Link, NEW s \in Block, Begin(s, k)
        PROVE  Kept(l)
    <2>1. /\ at["growing"] = Idle /\ at'["growing"] = Do(s, k) /\ at'["main"] = at["main"]
          /\ UNCHANGED told /\ Take(s, k) /\ s \in Stage
      BY <1>3, BeginAt DEF Begin, history, Block, Stage
    <2>2. OnMain(l)' = OnMain(l)
      BY <2>1 DEF OnMain
    <2>3. InBlock(l) = 0 /\ InBlock(l)' = IF k = l /\ s # "reengage" THEN 1 ELSE 0
      BY <1>1, <2>1 DEF InBlock, Idle, Do
    <2>4. Asked(l)' = IF k = l /\ s # "reengage" THEN Asked(l) - 1 ELSE Asked(l)
      <3>1. CASE k = l /\ s # "reengage"
        BY <2>1, <3>1, AskedTake
      <3>2. CASE k # l
        BY <1>1, <2>1, <3>2, OtherWork, AskedSame
      <3>3. CASE k = l /\ s = "reengage"
        <4>1. \A u \in Stage \ {"reengage"} : work'[u][l] = work[u][l]
          BY <2>1, <3>3, TakeType DEF TypeOK, Bag
        <4>2. QED
          BY <1>1, <3>3, <4>1, AskedSame
      <3>4. QED
        BY <3>1, <3>2, <3>3
    <2>5. QED
      BY <1>1, <2>1, <2>2, <2>3, <2>4 DEF Kept, Answers
  <1>4. ASSUME NEW k \in Link,
               UserAgentArrives(k) \/ Answered(k) \/ AnsweredInPart(k) \/ RequestFails(k)
        PROVE  Kept(l)
    <2>1. OnMain(l)' = OnMain(l) /\ InBlock(l)' = InBlock(l)
      BY <1>4, WorkFrame DEF OnMain, InBlock
    <2>2. CASE k # l
      <3>1. told'[l] = told[l]
        BY <1>1, <1>4, <2>2, WorkFrame, OtherCount
      <3>2. Asked(l)' = Asked(l)
        BY <1>1, <1>4, <2>2, WorkFrame, OtherWork, AskedSame
      <3>3. QED
        BY <2>1, <3>1, <3>2 DEF Kept, Answers
    <2>3. CASE k = l /\ UserAgentArrives(k)
      <3>1. Asked(l)' = Asked(l) /\ told' = told
        BY <1>1, <2>3, AskedMove DEF UserAgentArrives
      <3>2. QED
        BY <2>1, <3>1 DEF Kept, Answers
    <2>4. CASE k = l /\ ~UserAgentArrives(k)
      <3>1. Asked(l)' = Asked(l) - 1
        <4>1. Move("sent", "reengage", l) \/ Take("sent", l)
          BY <1>4, <2>4 DEF Answered, AnsweredInPart, RequestFails
        <4>2. "sent" \in Stage \ {"reengage"}
          BY DEF Stage
        <4>3. QED
          BY <1>1, <4>1, <4>2, AskedMove, AskedTake
      <3>2. told' = Count(told, l) \/ (told' = told /\ l \in excused')
        BY <1>4, <2>4 DEF Answered, AnsweredInPart, RequestFails
      <3>3. CASE told' = Count(told, l)
        <4>1. told'[l] = told[l] + 1
          BY <1>1, <3>3, CountType
        <4>2. QED
          BY <1>1, <2>1, <3>1, <4>1 DEF Kept, Answers
      <3>4. CASE told' = told /\ l \in excused'
        BY <1>1, <2>1, <3>1, <3>4 DEF Kept, Answers
      <3>5. QED
        BY <3>2, <3>3, <3>4
    <2>5. QED
      BY <1>4, <2>2, <2>3, <2>4
  <1>5. QED
    BY <1>2, <1>3, <1>4 DEF Work

(* A block that finds collection off gives a link up that was excused. *)
LEMMA GivenUp ==
    ASSUME Types, Due, Twice, AnswersKept, ~enabled, NEW l \in Manual \cap opened,
           at["growing"].link = l, at["growing"].step # "reengage"
    PROVE  l \in excused \/ l \notin Promised \cup Foreign
  <1> SUFFICES ASSUME l \in Promised \cup Foreign, l \notin excused
               PROVE  FALSE
    OBVIOUS
  <1>1. l \in Link
    BY DEF Types, TypeOK
  <1>2. /\ Asked(l) \in Nat /\ told[l] \in Nat /\ OnMain(l) \in {0, 1} /\ InBlock(l) = 1
        /\ Answers(l) <= 1
    BY <1>1, AskedType DEF Types, InBlock, AnswersKept
  <1>3. told[l] = 0
    BY <1>2 DEF Answers
  <1>4. l \notin refused \cup Foreign
    BY <1>3 DEF AnswersKept
  <1>5. reports[l] = 0
    <2>1. Chances(l) <= 1
      BY <1>1 DEF Twice, Limit
    <2>2. Waits(l) \in Nat /\ reports[l] \in Nat /\ OnGrowing(l) = 1
      BY <1>1, WaitsType DEF Types, OnGrowing
    <2>3. QED
      BY <2>1, <2>2, OneOrNone DEF Chances
  <1>6. l \in Owed
    BY <1>4, <1>5 DEF Owed
  <1>7. QED
    BY <1>6 DEF Due, Way, OffWay

LEMMA KeptGrowing ==
    ASSUME Types, NeverKept, Due, Twice, AnswersKept, Growing, NEW l \in Manual \cap opened
    PROVE  Kept(l)
  <1> USE DEF Types
  <1> DEFINE k == at["growing"].link
  <1>1. /\ l \in Link /\ l # NoLink /\ told \in [Link -> Nat]
        /\ Asked(l) \in Nat /\ told[l] \in Nat /\ OnMain(l) \in {0, 1} /\ InBlock(l) \in {0, 1}
    <2>1. l \in Link
      BY DEF TypeOK
    <2>2. QED
      BY <2>1, NoLinkIsNone, AskedType DEF TypeOK
  <1>2. OnMain(l)' \in {0, 1} /\ InBlock(l)' \in {0, 1}
    BY DEF OnMain, InBlock
  <1>3. CASE ShortLink \/ PreRequest \/ NoUserAgent \/ GenerateAppReengage
    <2>1. /\ k \in Link /\ at["growing"].step \in Block
          /\ at'["growing"].link \in {k, NoLink}
          /\ at'["main"] = at["main"]
          /\ work' = work \/ \E s \in Stage : Put(s, k)
          /\ UNCHANGED <<enabled, told>>
      BY <1>3, BlockFrame
    <2>2. \A u \in Thread \ {"growing"} : at'[u] = at[u]
      BY <2>1, Threads
    <2>3. told'[l] = told[l]
      BY <2>1
    <2>4. CASE k # l
      <3>1. OnMain(l)' = OnMain(l) /\ InBlock(l)' = InBlock(l)
        BY <1>1, <2>1, <2>2, <2>4, AtOther, Threads
      <3>2. Asked(l)' = Asked(l)
        BY <1>1, <2>1, <2>4, OtherWork, AskedSame
      <3>3. QED
        BY <2>3, <3>1, <3>2 DEF Kept, Answers
    <2>5. CASE k = l /\ GenerateAppReengage
      <3>1. at["growing"].step = "reengage" /\ at'["growing"] = Finished("growing") /\ work' = work
        BY <2>5, EndType, Threads DEF GenerateAppReengage, At
      <3>2. at'["growing"].link # l
        BY <1>1, <3>1 DEF Finished, Idle, Run
      <3>3. InBlock(l)' = InBlock(l) /\ OnMain(l)' = OnMain(l)
        BY <2>1, <3>1, <3>2 DEF InBlock, OnMain
      <3>4. QED
        BY <2>3, <3>1, <3>3 DEF Kept, Answers, Asked
    <2>6. CASE k = l /\ (ShortLink \/ PreRequest \/ NoUserAgent)
      <3>1. at["growing"].step # "reengage"
        BY <2>6 DEF ShortLink, PreRequest, NoUserAgent, At
      <3>2. CASE ~End("growing")
        <4>1. work' = work /\ Goto("growing", Do("agent", l))
          BY <2>6, <3>2 DEF ShortLink, PreRequest, NoUserAgent
        <4>2. at'["growing"] = Do("agent", l)
          BY <1>1, <4>1, GotoType, FrameTypes, Threads DEF Block
        <4>3. OnMain(l)' = OnMain(l) /\ InBlock(l)' = InBlock(l)
          BY <1>1, <2>2, <2>6, <3>1, <4>2, AtGoes, Threads
        <4>4. QED
          BY <2>3, <4>1, <4>3 DEF Kept, Answers, Asked
      <3>3. CASE End("growing")
        <4>1. at'["growing"] = Finished("growing")
          BY <3>3, EndType, Threads
        <4>2. OnMain(l)' + InBlock(l)' = OnMain(l) + InBlock(l) - 1
          BY <1>1, <2>2, <2>6, <3>1, <4>1, AtEnd, Threads
        <4>3. ~Goto("growing", Do("agent", l))
          <5>1. Finished("growing") # Do("agent", l)
            BY DEF Finished, Idle, Run, Do
          <5>2. Do("agent", l) \in Frame
            BY <1>1, FrameTypes DEF Block
          <5>3. QED
            BY <4>1, <5>1, <5>2, GotoType, Threads
        <4>4. \/ \E s \in {"waiting", "sent"} : Put(s, l)
              \/ work' = work /\ (~enabled \/ l \in excused')
          BY <2>6, <4>3 DEF ShortLink, PreRequest, NoUserAgent
        <4>5. ASSUME NEW s \in {"waiting", "sent"}, Put(s, l)
              PROVE  Kept(l)
          <5>1. Asked(l)' = Asked(l) + 1
            BY <1>1, <4>5, AskedPut DEF Stage
          <5>2. QED
            BY <1>1, <1>2, <2>3, <4>2, <5>1 DEF Kept, Answers
        <4>6. CASE work' = work /\ (~enabled \/ l \in excused')
          <5>1. l \in excused' \/ l \notin Promised \cup Foreign
            <6>1. Next
              BY DEF Next
            <6>2. excused \subseteq excused'
              BY <6>1, Grows
            <6>3. QED
              BY <2>6, <3>1, <4>6, <6>2, GivenUp
          <5>2. Asked(l)' = Asked(l)
            BY <4>6 DEF Asked
          <5>3. Answers(l)' = Answers(l) - 1
            BY <1>1, <1>2, <2>3, <4>2, <5>2 DEF Answers
          <5>4. QED
            BY <5>1, <5>3 DEF Kept
        <4>7. QED
          BY <4>4, <4>5, <4>6
      <3>4. QED
        BY <3>2, <3>3
    <2>7. QED
      BY <1>3, <2>4, <2>5, <2>6
  <1>4. CASE SetDataCollectionEnabled \/ ReadUrl \/ CopyUrl \/ ForgetUrl
    <2>1. /\ k = NoLink /\ at'["growing"].link \in {NoLink, deeplinkUrl}
          /\ at'["main"] = at["main"]
          /\ UNCHANGED <<work, told>>
      BY <1>4, ReplayFrame
    <2>2. deeplinkUrl # l
      BY DEF NeverKept
    <2>3. OnMain(l)' = OnMain(l) /\ InBlock(l)' = InBlock(l)
      BY <1>1, <2>1, <2>2 DEF OnMain, InBlock
    <2>4. QED
      BY <2>1, <2>3 DEF Kept, Answers, Asked
  <1>5. QED
    BY <1>3, <1>4 DEF Growing

LEMMA ToldGrows ==
    ASSUME TypeOK, Next, NEW l \in Link
    PROVE  told'[l] >= told[l] /\ (l \in refused' \ refused => told'[l] > 0)
  <1>1. told \in [Link -> Nat] /\ \A k \in Link : Count(told, k)[l] >= told[l]
    BY DEF TypeOK, Count
  <1>2. told' = told \/ \E k \in Link : told' = Count(told, k)
    <2>1. CASE Handle
      BY <2>1, HandleFrame DEF Handle
    <2>2. CASE Work
      BY <2>2 DEF Work, Open, Begin, UserAgentArrives, Answered, AnsweredInPart, RequestFails,
                  history
    <2>3. CASE Growing
      BY <2>3, BlockFrame, ReplayFrame DEF Growing
    <2>4. QED
      BY <2>1, <2>2, <2>3 DEF Next
  <1>3. told'[l] >= told[l]
    BY <1>1, <1>2
  <1>4. ASSUME l \in refused' \ refused
        PROVE  told'[l] > 0
    <2>1. \E k \in Link : RequestFails(k)
      BY <1>4 DEF Next, Handle, Work, Growing, KeepUrl, Track, ClearUrl, Report, Open, Begin,
             UserAgentArrives, Answered, AnsweredInPart, ShortLink, PreRequest, NoUserAgent,
             GenerateAppReengage, SetDataCollectionEnabled, ReadUrl, CopyUrl, ForgetUrl, history
    <2>2. RequestFails(l)
      BY <1>4, <2>1 DEF RequestFails
    <2>3. told' = Count(told, l)
      BY <2>2 DEF RequestFails
    <2>4. told'[l] = told[l] + 1 /\ told[l] \in Nat
      BY <1>1, <2>3, CountType
    <2>5. QED
      BY <2>4
  <1>5. QED
    BY <1>3, <1>4

LEMMA AnswersStep ==
    ASSUME Types, Fresh, Due, NeverKept, Twice, AnswersKept, Next
    PROVE  AnswersKept'
  <1>1. TypeOK /\ TypeOK' /\ excused \subseteq excused'
    BY NextType, Grows DEF Types
  <1>2. \A l \in refused' : told'[l] > 0
    <2> SUFFICES ASSUME NEW l \in refused'
                 PROVE  told'[l] > 0
      OBVIOUS
    <2>1. l \in Link /\ told[l] \in Nat /\ told'[l] \in Nat
      BY <1>1 DEF TypeOK
    <2>2. told'[l] >= told[l] /\ (l \in refused' \ refused => told'[l] > 0)
      BY <1>1, <2>1, ToldGrows
    <2>3. l \in refused => told[l] > 0
      BY DEF AnswersKept
    <2>4. QED
      BY <2>1, <2>2, <2>3
  <1>3. ASSUME NEW l \in Manual \cap opened'
        PROVE  /\ Answers(l)' <= 1
               /\ l \in (Promised \cup Foreign) \ excused' => Answers(l)' = 1
               /\ l \in Foreign => told'[l] > 0
    <2>1. l \in Link /\ told[l] \in Nat /\ told'[l] \in Nat /\ l # NoLink
      BY <1>1, NoLinkIsNone DEF TypeOK
    <2>2. CASE l \in opened
      <3>1. Kept(l)
        <4>1. CASE Handle
          BY <2>1, <2>2, <4>1, KeptHandle DEF Handle
        <4>2. CASE Work
          BY <2>2, <4>2, KeptWork
        <4>3. CASE Growing
          BY <2>2, <4>3, KeptGrowing
        <4>4. QED
          BY <4>1, <4>2, <4>3 DEF Next
      <3>2. /\ Answers(l) <= 1 /\ Answers(l) \in Nat
            /\ l \in (Promised \cup Foreign) \ excused => Answers(l) = 1
            /\ l \in Foreign => told[l] > 0
        BY <1>1, <2>1, <2>2, AskedType DEF AnswersKept
      <3>3. told'[l] >= told[l]
        BY <1>1, <2>1, ToldGrows
      <3>4. Answers(l)' <= 1
        BY <3>1, <3>2 DEF Kept
      <3>5. l \in (Promised \cup Foreign) \ excused' => Answers(l)' = 1
        BY <1>1, <3>1, <3>2 DEF Kept
      <3>6. QED
        BY <2>1, <3>2, <3>3, <3>4, <3>5
    <2>3. CASE l \notin opened
      <3>1. Open(l)
        <4>1. opened' # opened
          BY <2>3
        <4>2. \E k \in Link : Open(k)
          BY <4>1 DEF Next, Handle, Work, Growing, KeepUrl, Track, ClearUrl, Report, Begin,
                 UserAgentArrives, Answered, AnsweredInPart, RequestFails, ShortLink, PreRequest,
                 NoUserAgent, GenerateAppReengage, SetDataCollectionEnabled, ReadUrl, CopyUrl,
                 ForgetUrl, history
        <4>3. QED
          BY <2>3, <4>2 DEF Open
      <3>2. /\ at["main"] = Idle /\ at'["growing"] = at["growing"]
            /\ \/ l \in Foreign /\ at'["main"] = Idle
               \/ l \notin Foreign /\ at'["main"] = Begins(l)
        BY <1>1, <2>1, <3>1, OpenAt
      <3>3. New(l)
        BY <2>1, <2>3 DEF Fresh
      <3>4. told[l] = 0 /\ Asked(l)' = 0 /\ InBlock(l)' = 0
        <4>1. UNCHANGED work
          BY <3>1 DEF Open
        <4>2. Asked(l)' = 0
          BY <3>3, <4>1 DEF New, Asked, Stage
        <4>3. InBlock(l)' = 0
          BY <3>2, <3>3, Threads DEF New, InBlock
        <4>4. QED
          BY <3>3, <4>2, <4>3 DEF New
      <3>5. CASE l \in Foreign
        <4>1. told' = Count(told, l)
          BY <3>1, <3>5 DEF Open
        <4>2. told'[l] = 1
          <5>1. told \in [Link -> Nat]
            BY <1>1 DEF TypeOK
          <5>2. told'[l] = told[l] + 1
            BY <2>1, <4>1, <5>1, CountType
          <5>3. QED
            BY <3>4, <5>2
        <4>3. OnMain(l)' = 0
          BY <2>1, <3>2, <3>5 DEF OnMain, Idle
        <4>4. QED
          BY <3>4, <4>2, <4>3 DEF Answers
      <3>6. CASE l \notin Foreign
        <4>1. told' = told
          BY <3>1, <3>6 DEF Open
        <4>2. at'["main"].link = l
          BY <3>2, <3>6 DEF Begins, Do
        <4>3. OnMain(l)' = 1
          BY <4>2 DEF OnMain
        <4>4. QED
          BY <3>4, <3>6, <4>1, <4>3 DEF Answers
      <3>7. QED
        BY <3>5, <3>6
    <2>4. QED
      BY <2>2, <2>3
  <1>4. QED
    BY <1>2, <1>3 DEF AnswersKept

(* The app's block is called once for each link that the app passes, whatever  *)
(* becomes of data collection, the user agent and the request meanwhile.       *)
THEOREM AnswersOnce == Spec => []AnsweredOnce
  <1>1. Init => AnswersKept
    BY DEF Init, AnswersKept
  <1>2. Types /\ Fresh /\ Due /\ NeverKept /\ Twice /\ AnswersKept /\ [Next]_vars => AnswersKept'
    <2>1. AnswersKept /\ UNCHANGED vars => AnswersKept'
      BY DEF AnswersKept, Answers, Asked, OnMain, InBlock, vars, history
    <2>2. QED
      BY <2>1, AnswersStep
  <1>3. Types /\ Fresh /\ AnswersKept => AnsweredOnce
    <2> SUFFICES ASSUME Types, Fresh, AnswersKept, NEW l \in Manual
                 PROVE  /\ told[l] <= 1
                        /\ Quiet /\ l \in (opened \cap (Promised \cup Foreign)) \ excused
                              => told[l] = 1
      BY DEF AnsweredOnce
    <2>1. l \in Link
      BY DeepLinkAssumption
    <2>2. /\ Asked(l) \in Nat /\ told[l] \in Nat
          /\ OnMain(l) \in {0, 1} /\ InBlock(l) \in {0, 1}
      BY <2>1, AskedType DEF Types
    <2>3. CASE l \notin opened
      BY <2>1, <2>3 DEF Fresh, New
    <2>4. CASE l \in opened
      <3>1. /\ Answers(l) <= 1
            /\ l \in (Promised \cup Foreign) \ excused => Answers(l) = 1
        BY <2>4 DEF AnswersKept
      <3>2. told[l] <= 1
        BY <2>2, <3>1 DEF Answers
      <3>3. ASSUME Quiet
            PROVE  Asked(l) = 0 /\ OnMain(l) = 0 /\ InBlock(l) = 0
        <4>1. \A s \in Stage : work[s][l] = 0
          <5>1. \A s \in Stage : work[s][l] \in Nat /\ ~(work[s][l] > 0)
            BY <2>1, <3>3 DEF Quiet, Underway, Types, TypeOK
          <5>2. QED
            BY <5>1
        <4>2. \A t \in Thread : at[t].link # l
          BY <2>1, <3>3 DEF Quiet, Underway
        <4>3. QED
          BY <4>1, <4>2, Threads DEF Asked, Stage, OnMain, InBlock
      <3>4. QED
        BY <2>2, <3>1, <3>2, <3>3 DEF Answers
    <2>5. QED
      BY <2>3, <2>4
  <1>4. QED
    BY <1>1, <1>2, <1>3, TypesAlways, FreshAlways, DueAlways, NeverKeptAlways, TwiceAlways,
       PTL DEF Spec

=============================================================================
