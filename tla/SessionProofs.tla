---------------------------- MODULE SessionProofs ----------------------------
(***************************************************************************)
(* Theorems about Session, for every set of users and keys and any number  *)
(* of calls: its types, what the log promises while nothing races with the *)
(* main thread, and what holds also when something does.                   *)
(***************************************************************************)
EXTENDS Session, SequenceTheorems, TLAPS

LEMMA FrameTypes ==
    /\ \A op \in Op : Do(op) \in Frame
    /\ \A t \in Type : Post(t) \in Frame
    /\ \A u \in UserId, k \in UserKey : Login(u, k) \in Frame
<1>1. None \in UserId /\ None \in UserKey /\ "VISIT" \in Type /\ 0 \in Nat
  BY DEF UserId, UserKey, Type
<1>2. \A op \in Op : Do(op) \in Frame
  BY <1>1 DEF Do, Frame
<1>3. Do("post") \in Frame /\ Do("login") \in Frame
  BY <1>2 DEF Op
<1>4. \A t \in Type : Post(t) \in Frame
  BY <1>3 DEF Post, Frame
<1>5. \A u \in UserId, k \in UserKey : Login(u, k) \in Frame
  BY <1>3 DEF Login, Frame
<1>6. QED
  BY <1>2, <1>4, <1>5

(* The frame on top of a stack is a frame. *)
LEMMA TopType ==
    ASSUME TypeOK, NEW t \in Thread, stack[t] # <<>>
    PROVE  /\ Top(t) \in Frame
           /\ Tail(stack[t]) \in Seq(Frame)
<1>1. stack[t] \in Seq(Frame)
  BY DEF TypeOK
<1>2. QED
  BY <1>1 DEF Top

(* What a step leaves to do is again a stack. *)
LEMMA ThenType ==
    ASSUME TypeOK, NEW t \in Thread, stack[t] # <<>>,
           NEW fs \in Seq(Frame), Then(t, fs)
    PROVE  stack' \in [Thread -> Seq(Frame)]
<1>1. fs \o Tail(stack[t]) \in Seq(Frame)
  BY TopType
<1>2. stack \in [Thread -> Seq(Frame)]
  BY DEF TypeOK
<1>3. QED
  BY <1>1, <1>2 DEF Then

LEMMA NewSessionType == NewSession \in Seq(Frame)
<1>1. Do("refresh") \in Frame /\ Do("unsent") \in Frame /\ Do("visit") \in Frame
  BY FrameTypes DEF Op
<1>2. QED
  BY <1>1 DEF NewSession

LEMMA SeqOfOne ==
    ASSUME NEW f \in Frame
    PROVE  <<>> \in Seq(Frame) /\ <<f>> \in Seq(Frame)
OBVIOUS

(* A step that only changes the session and the stack of one thread. *)
LEMMA StepType ==
    ASSUME TypeOK, NEW t \in Thread, stack[t] # <<>>, NEW fs \in Seq(Frame),
           Then(t, fs), ses' \in Ses, UNCHANGED keep
    PROVE  TypeOK'
<1>1. stack' \in [Thread -> Seq(Frame)]
  BY ThenType
<1>2. QED
  BY <1>1 DEF TypeOK, keep, env

LEMMA SesFields ==
    ASSUME TypeOK
    PROVE  /\ ses \in Ses /\ ses.id \in Nat /\ ses.user \in UserId /\ ses.key \in UserKey
           /\ [ses EXCEPT !.id = @ + 1] \in Ses
           /\ \A b \in BOOLEAN : [ses EXCEPT !.sent = b] \in Ses
           /\ \A u \in UserId : [ses EXCEPT !.user = u] \in Ses /\ [ses EXCEPT !.latest = u] \in Ses
           /\ \A k \in UserKey : [ses EXCEPT !.key = k] \in Ses
           /\ [ses EXCEPT !.state = "active"] \in Ses
           /\ [ses EXCEPT !.state = "inactive", !.away = TRUE] \in Ses
           /\ [ses EXCEPT !.state = "background", !.away = TRUE] \in Ses
<1>1. ses \in Ses
  BY DEF TypeOK
<1>2. ses.id \in Nat /\ ses.user \in UserId /\ ses.key \in UserKey
  BY <1>1 DEF Ses
<1>3. [ses EXCEPT !.id = @ + 1] \in Ses
  BY <1>1, <1>2 DEF Ses
<1>4. \A b \in BOOLEAN : [ses EXCEPT !.sent = b] \in Ses
  BY <1>1 DEF Ses
<1>5. \A u \in UserId : [ses EXCEPT !.user = u] \in Ses /\ [ses EXCEPT !.latest = u] \in Ses
  BY <1>1 DEF Ses
<1>6. \A k \in UserKey : [ses EXCEPT !.key = k] \in Ses
  BY <1>1 DEF Ses
<1>7. \A s \in State : /\ [ses EXCEPT !.state = s] \in Ses
                       /\ [ses EXCEPT !.state = s, !.away = TRUE] \in Ses
  BY <1>1 DEF Ses
<1>8. "active" \in State /\ "inactive" \in State /\ "background" \in State
  BY DEF State
<1>9. QED
  BY <1>1, <1>2, <1>3, <1>4, <1>5, <1>6, <1>7, <1>8

(* A frame goes on with another op, and with what it has read. *)
LEMMA FrameFields ==
    ASSUME NEW f \in Frame
    PROVE  /\ f.user \in UserId /\ f.key \in UserKey /\ f.old \in UserId
           /\ f.type \in Type /\ f.id \in Nat
           /\ \A op \in Op : [f EXCEPT !.op = op] \in Frame
           /\ \A op \in Op, u \in UserId : /\ [f EXCEPT !.op = op, !.user = u] \in Frame
                                           /\ [f EXCEPT !.op = op, !.old = u] \in Frame
           /\ \A op \in Op, n \in Nat : [f EXCEPT !.op = op, !.id = n] \in Frame
BY DEF Frame

LEMMA SessionSteps ==
    ASSUME TypeOK, NEW t \in Thread,
           RefreshSessionId(t) \/ GenerateVisit(t) \/ GenerateVisitEvent(t)
    PROVE  TypeOK'
<1>1. /\ \A op \in Op : <<Do(op)>> \in Seq(Frame)
      /\ <<Post("VISIT")>> \in Seq(Frame)
      /\ <<>> \in Seq(Frame)
      /\ Post("VISIT") \in Frame
  BY FrameTypes, SeqOfOne DEF Type
<1>2. CASE RefreshSessionId(t)
  BY <1>1, <1>2, StepType, SesFields DEF RefreshSessionId, At, Set
<1>3. CASE GenerateVisit(t)
  <2>1. <<Do("dispatchVisit")>> \in Seq(Frame) /\ ses \in Ses /\ [ses EXCEPT !.sent = TRUE] \in Ses
    BY <1>1, SesFields DEF Op
  <2>2. QED
    BY <1>1, <1>3, <2>1, StepType DEF GenerateVisit, At, Set
<1>4. CASE GenerateVisitEvent(t)
  <2>1. stack[t] # <<>>
    BY <1>4 DEF GenerateVisitEvent, At
  <2>2. stack' \in [Thread -> Seq(Frame)]
    BY <1>1, <1>4, <2>1, ThenType DEF GenerateVisitEvent
  <2>3. queue' \in Seq(Frame)
    <3>1. queue \in Seq(Frame)
      BY DEF TypeOK
    <3>2. Append(queue, Post("VISIT")) \in Seq(Frame)
      BY <1>1, <3>1
    <3>3. QED
      BY <1>4, <3>1, <3>2 DEF GenerateVisitEvent
  <2>4. QED
    BY <1>4, <2>2, <2>3 DEF GenerateVisitEvent, TypeOK, env
<1>5. QED
  BY <1>2, <1>3, <1>4

LEMMA EventSteps ==
    ASSUME TypeOK, PostEventBuilder \/ ReadProperty \/ WriteEvent
    PROVE  TypeOK'
<1> DEFINE t == "growing"
           f == Top(t)
<1>0. t \in Thread
  BY DEF Thread
<1> HIDE DEF t
<1>1. stack[t] # <<>>
  BY DEF PostEventBuilder, ReadProperty, WriteEvent, At, t
<1>2. f \in Frame
  BY <1>0, <1>1, TopType
<1> HIDE DEF f
<1>3. CASE PostEventBuilder
  <2> DEFINE g == [f EXCEPT !.op = "readUser"]
             fs == IF ~enabled THEN <<>>
                   ELSE (IF ses.sent THEN <<>> ELSE <<Do("visit")>>) \o <<g>>
  <2>1. g \in Frame /\ Do("visit") \in Frame
    BY <1>2, FrameFields, FrameTypes DEF Op
  <2>2. fs \in Seq(Frame)
    <3> HIDE DEF g
    <3>1. <<>> \in Seq(Frame) /\ <<g>> \in Seq(Frame) /\ <<Do("visit")>> \in Seq(Frame)
      BY <2>1
    <3>2. <<>> \o <<g>> \in Seq(Frame) /\ <<Do("visit")>> \o <<g>> \in Seq(Frame)
      BY <3>1
    <3>3. QED
      BY <3>1, <3>2
  <2>3. Then(t, fs) /\ UNCHANGED <<ses, keep>>
    BY <1>3 DEF PostEventBuilder, f, t
  <2> HIDE DEF fs
  <2>4. QED
    BY <1>0, <1>1, <2>2, <2>3, SesFields, StepType
<1>4. CASE ReadProperty
  <2> DEFINE g == [f EXCEPT !.op = "readId", !.user = ses.user]
             h == [f EXCEPT !.op = "readKey", !.id = ses.id]
  <2>1. g \in Frame /\ h \in Frame
    BY <1>2, FrameFields, SesFields DEF Op
  <2>2. (Then(t, <<g>>) \/ Then(t, <<h>>)) /\ UNCHANGED <<ses, keep>>
    BY <1>4 DEF ReadProperty, f, t
  <2> HIDE DEF g, h
  <2>3. <<g>> \in Seq(Frame) /\ <<h>> \in Seq(Frame)
    BY <2>1
  <2>4. QED
    BY <1>0, <1>1, <2>2, <2>3, SesFields, StepType
<1>5. CASE WriteEvent
  <2> DEFINE e == [type |-> f.type, user |-> f.user, key |-> ses.key, id |-> f.id]
  <2>1. e \in Event
    BY <1>2, FrameFields, SesFields DEF Event
  <2>2. log' = (IF channels THEN Append(log, e) ELSE log) /\ Then(t, <<>>)
        /\ UNCHANGED <<ses, enabled, channels, builders, queue, env>>
    BY <1>5 DEF WriteEvent, f, t
  <2> HIDE DEF e
  <2>3. log' \in Seq(Event)
    BY <2>1, <2>2 DEF TypeOK
  <2>4. stack' \in [Thread -> Seq(Frame)]
    <3>1. <<>> \in Seq(Frame)
      OBVIOUS
    <3>2. QED
      BY <1>0, <1>1, <2>2, <3>1, ThenType
  <2>5. QED
    BY <2>2, <2>3, <2>4 DEF TypeOK, env
<1>6. QED
  BY <1>3, <1>4, <1>5

LEMMA LoginSteps ==
    ASSUME TypeOK, NEW t \in Thread,
           SetLoginUserId(t) \/ UserIdDidChanged(t) \/ ResendVisit(t)
    PROVE  TypeOK'
<1> DEFINE f == Top(t)
<1>1. stack[t] # <<>>
  BY DEF SetLoginUserId, UserIdDidChanged, ResendVisit, At
<1>2. f \in Frame
  BY <1>1, TopType
<1> HIDE DEF f
<1>3. CASE SetLoginUserId(t)
  <2> DEFINE g == [f EXCEPT !.op = "setUser"]
             h == [f EXCEPT !.op = "setKey", !.old = ses.user]
             k == [f EXCEPT !.op = "userChanged"]
  <2>1. g \in Frame /\ h \in Frame /\ k \in Frame
    BY <1>2, FrameFields, SesFields DEF Op
  <2>2. /\ Then(t, <<>>) \/ Then(t, <<g>>) \/ Then(t, <<h>>) \/ Then(t, <<k>>)
        /\ ses' = ses \/ ses' = [ses EXCEPT !.user = f.user] \/ ses' = [ses EXCEPT !.key = f.key]
        /\ UNCHANGED keep
    BY <1>3 DEF SetLoginUserId, Set, f
  <2> HIDE DEF g, h, k
  <2>3. /\ <<>> \in Seq(Frame) /\ <<g>> \in Seq(Frame)
        /\ <<h>> \in Seq(Frame) /\ <<k>> \in Seq(Frame)
    BY <2>1
  <2>4. ses' \in Ses
    BY <1>2, <2>2, FrameFields, SesFields
  <2>5. QED
    BY <1>1, <2>2, <2>3, <2>4, StepType
<1>4. CASE UserIdDidChanged(t)
  <2> DEFINE g == [f EXCEPT !.op = "latest"]
  <2>1. g \in Frame
    BY <1>2, FrameFields DEF Op
  <2>2. (Then(t, <<>>) \/ Then(t, <<g>>)) /\ UNCHANGED <<ses, keep>>
    BY <1>4 DEF UserIdDidChanged, f
  <2> HIDE DEF g
  <2>3. <<>> \in Seq(Frame) /\ <<g>> \in Seq(Frame)
    BY <2>1
  <2>4. stack' \in [Thread -> Seq(Frame)]
    BY <1>1, <2>2, <2>3, ThenType
  <2>5. QED
    BY <2>2, <2>4 DEF TypeOK, keep, env
<1>5. CASE ResendVisit(t)
  <2>1. /\ Then(t, <<>>) \/ Then(t, NewSession)
        /\ ses' = ses \/ ses' = [ses EXCEPT !.latest = ses.user]
        /\ UNCHANGED keep
    BY <1>5 DEF ResendVisit, Set
  <2>2. ses' \in Ses
    BY <2>1, SesFields
  <2>3. <<>> \in Seq(Frame)
    OBVIOUS
  <2>4. QED
    BY <1>1, <2>1, <2>2, <2>3, NewSessionType, StepType
<1>6. QED
  BY <1>3, <1>4, <1>5

LEMMA BlockSteps ==
    ASSUME TypeOK,
           \/ BecomeActive \/ PutAside \/ GenerateAppReengage \/ PostBuilders
           \/ \E b \in BOOLEAN : SetEnabled(b)
    PROVE  TypeOK'
<1> DEFINE t == "growing"
<1>0. t \in Thread
  BY DEF Thread
<1> HIDE DEF t
<1>1. stack[t] # <<>>
  BY DEF BecomeActive, PutAside, GenerateAppReengage, PostBuilders, SetEnabled, At, t
<1>2. /\ <<>> \in Seq(Frame) /\ <<Post("APP_CLOSED")>> \in Seq(Frame)
      /\ <<Post("REENGAGE")>> \in Seq(Frame) /\ Post("REENGAGE") \in Frame
  BY FrameTypes, SeqOfOne DEF Type
<1>3. CASE BecomeActive
  <2>1. (Then(t, <<>>) \/ Then(t, NewSession)) /\ UNCHANGED keep
        /\ ses' = [ses EXCEPT !.state = "active"]
    BY <1>3 DEF BecomeActive, Set, t
  <2>2. QED
    BY <1>0, <1>1, <1>2, <2>1, NewSessionType, SesFields, StepType
<1>4. CASE PutAside
  <2>1. /\ Then(t, <<>>) \/ Then(t, <<Post("APP_CLOSED")>>)
        /\ \/ ses' = [ses EXCEPT !.state = "inactive", !.away = TRUE]
           \/ ses' = [ses EXCEPT !.state = "background", !.away = TRUE]
        /\ UNCHANGED keep
    BY <1>4 DEF PutAside, Set, t
  <2>2. QED
    BY <1>0, <1>1, <1>2, <2>1, SesFields, StepType
<1>5. CASE GenerateAppReengage
  <2>1. /\ Then(t, <<>>) \/ Then(t, <<Post("REENGAGE")>>)
        /\ builders' = builders \/ builders' = builders + 1
        /\ UNCHANGED <<ses, enabled, channels, queue, log, env>>
    BY <1>5 DEF GenerateAppReengage, t
  <2>2. stack' \in [Thread -> Seq(Frame)]
    BY <1>0, <1>1, <1>2, <2>1, ThenType
  <2>3. QED
    BY <2>1, <2>2 DEF TypeOK, env
<1>6. CASE PostBuilders
  <2> DEFINE fs == [i \in 1..builders |-> Post("REENGAGE")]
  <2>1. builders \in Nat
    BY DEF TypeOK
  <2>2. fs \in Seq(Frame)
    <3>1. fs \in [1..builders -> Frame]
      BY <1>2
    <3>2. QED
      BY <2>1, <3>1, SeqDef
  <2>3. /\ Then(t, fs) /\ builders' = 0
        /\ UNCHANGED <<ses, enabled, channels, queue, log, env>>
    BY <1>6 DEF PostBuilders, t
  <2> HIDE DEF fs
  <2>4. stack' \in [Thread -> Seq(Frame)]
    BY <1>0, <1>1, <2>2, <2>3, ThenType
  <2>5. QED
    BY <2>3, <2>4 DEF TypeOK, env
<1>7. ASSUME NEW b \in BOOLEAN, SetEnabled(b)
      PROVE  TypeOK'
  <2>1. /\ Then(t, <<>>) \/ Then(t, NewSession)
        /\ enabled' = b /\ UNCHANGED <<ses, channels, builders, queue, log, env>>
    BY <1>7 DEF SetEnabled, t
  <2>2. stack' \in [Thread -> Seq(Frame)]
    BY <1>0, <1>1, <1>2, <2>1, NewSessionType, ThenType
  <2>3. QED
    BY <2>1, <2>2 DEF TypeOK, env
<1>8. QED
  BY <1>3, <1>4, <1>5, <1>6, <1>7

-----------------------------------------------------------------------------
(* Calls *)

LEMMA CallType ==
    ASSUME TypeOK, NEW fs \in Seq(Frame), Call(fs), app' \in State
    PROVE  TypeOK'
<1>1. queue' \in Seq(Frame) /\ calls' \in Nat
  BY DEF TypeOK, Call, Queue, Count
<1>2. QED
  BY <1>1 DEF TypeOK, Call

LEMMA CallSteps ==
    ASSUME TypeOK, Track \/ LoginUser \/ OtherCall \/ LifeCycle
    PROVE  TypeOK'
<1>1. app \in State
  BY DEF TypeOK
<1>2. CASE Track
  <2>1. Post("CUSTOM") \in Frame
    BY FrameTypes DEF Type
  <2>2. QED
    BY <1>1, <1>2, <2>1, SeqOfOne, CallType DEF Track
<1>3. CASE LoginUser
  <2>1. PICK u \in UserId, k \in UserKey : Call(<<Login(u, k)>>)
    BY <1>3 DEF LoginUser, UserId, UserKey
  <2>2. app' \in State
    BY <1>1, <1>3 DEF LoginUser
  <2>3. Login(u, k) \in Frame
    BY FrameTypes
  <2>4. QED
    BY <2>1, <2>2, <2>3, SeqOfOne, CallType
<1>4. CASE OtherCall
  <2>1. PICK op \in {"enable", "disable", "reengage"} : Call(<<Do(op)>>)
    BY <1>4 DEF OtherCall
  <2>2. Do(op) \in Frame
    BY FrameTypes DEF Op
  <2>3. app' \in State
    BY <1>1, <1>4 DEF OtherCall
  <2>4. QED
    BY <2>1, <2>2, <2>3, SeqOfOne, CallType
<1>5. CASE LifeCycle
  <2>1. /\ Do("become") \in Frame /\ Do("postBuilders") \in Frame
        /\ Do("resign") \in Frame /\ Do("background") \in Frame
    BY FrameTypes DEF Op
  <2>2. /\ <<Do("become"), Do("postBuilders")>> \in Seq(Frame)
        /\ <<Do("resign")>> \in Seq(Frame) /\ <<Do("background")>> \in Seq(Frame)
    BY <2>1
  <2>3. app' \in State
    BY <1>5 DEF LifeCycle, State
  <2>4. QED
    BY <1>5, <2>2, <2>3, CallType DEF LifeCycle
<1>6. QED
  BY <1>2, <1>3, <1>4, <1>5

LEMMA EarlyTrackStep ==
    ASSUME TypeOK, EarlyTrack
    PROVE  TypeOK'
<1>1. <<Post("CUSTOM")>> \in Seq(Frame)
  BY FrameTypes, SeqOfOne DEF Type
<1>2. queue' \in Seq(Frame) /\ calls' \in Nat /\ races' \in Nat
  BY <1>1 DEF TypeOK, EarlyTrack, Queue, Race, Count
<1>3. QED
  BY <1>2 DEF TypeOK, EarlyTrack

LEMMA TakeBlockStep ==
    ASSUME TypeOK, TakeBlock
    PROVE  TypeOK'
<1>1. queue \in Seq(Frame) /\ queue # <<>>
  BY DEF TypeOK, TakeBlock
<1>2. Head(queue) \in Frame /\ Tail(queue) \in Seq(Frame)
  BY <1>1
<1>3. <<Head(queue)>> \in Seq(Frame)
  BY <1>2, SeqOfOne
<1>4. stack' \in [Thread -> Seq(Frame)]
  BY <1>3 DEF TypeOK, TakeBlock
<1>5. QED
  BY <1>2, <1>4 DEF TypeOK, TakeBlock, env

LEMMA ConfigManagerStep ==
    ASSUME TypeOK, ConfigManager
    PROVE  TypeOK'
<1>1. Do("create") \in Frame /\ <<>> \in Seq(Frame) /\ queue \in Seq(Frame)
  BY FrameTypes DEF Op, TypeOK
<1>2. PICK t \in Thread : stack[t] # <<>> /\ Then(t, <<>>)
  BY DEF ConfigManager, At, Thread
<1>3. stack' \in [Thread -> Seq(Frame)]
  BY <1>1, <1>2, ThenType
<1>4. Append(queue, Do("create")) \in Seq(Frame)
  BY <1>1
<1>5. queue' \in Seq(Frame)
  BY <1>1, <1>4 DEF ConfigManager
<1>6. channels' \in BOOLEAN
  BY DEF ConfigManager, TypeOK
<1>7. QED
  BY <1>3, <1>5, <1>6 DEF ConfigManager, TypeOK, env

LEMMA BridgeStep ==
    ASSUME TypeOK, HandleJavascriptBridgeMessage
    PROVE  TypeOK'
<1>1. PICK u \in UserId, k \in UserKey :
         stack' = [stack EXCEPT !["main"] = <<Login(u, k)>>]
  BY DEF HandleJavascriptBridgeMessage, UserId, UserKey
<1>2. <<Login(u, k)>> \in Seq(Frame)
  BY FrameTypes, SeqOfOne
<1>3. stack' \in [Thread -> Seq(Frame)]
  BY <1>1, <1>2 DEF TypeOK
<1>4. calls' \in Nat /\ races' \in Nat
  BY DEF TypeOK, HandleJavascriptBridgeMessage, Race, Count
<1>5. QED
  BY <1>3, <1>4 DEF TypeOK, HandleJavascriptBridgeMessage

LEMMA InitType ==
    ASSUME Init
    PROVE  TypeOK
<1>1. Do("visit") \in Frame /\ Do("config") \in Frame /\ <<>> \in Seq(Frame)
  BY FrameTypes DEF Op
<1>2. stack \in [Thread -> Seq(Frame)]
  <2>1. StartUp \in Seq(Frame)
    BY <1>1 DEF StartUp
  <2>2. QED
    BY <1>1, <2>1 DEF Init
<1>3. ses \in Ses
  BY DEF Init, Ses, UserId, State
<1>4. <<>> \in Seq(Event)
  OBVIOUS
<1>5. QED
  BY <1>1, <1>2, <1>3, <1>4 DEF Init, TypeOK, State

LEMMA NextType ==
    ASSUME TypeOK, [Next]_vars
    PROVE  TypeOK'
<1>1. CASE UNCHANGED vars
  BY <1>1 DEF vars, keep, env, TypeOK
<1>2. ASSUME NEW t \in Thread, OnEitherThread(t)
      PROVE  TypeOK'
  BY <1>2, SessionSteps, LoginSteps DEF OnEitherThread
<1>3. CASE TakeBlock
  BY <1>3, TakeBlockStep
<1>4. CASE PostEventBuilder \/ ReadProperty \/ WriteEvent
  BY <1>4, EventSteps
<1>5. CASE \/ BecomeActive \/ PutAside \/ GenerateAppReengage \/ PostBuilders
           \/ \E b \in BOOLEAN : SetEnabled(b)
  BY <1>5, BlockSteps
<1>6. CASE Track \/ LoginUser \/ OtherCall \/ LifeCycle
  BY <1>6, CallSteps
<1>7. CASE HandleJavascriptBridgeMessage
  BY <1>7, BridgeStep
<1>8. CASE EarlyTrack
  BY <1>8, EarlyTrackStep
<1>9. CASE ConfigManager
  BY <1>9, ConfigManagerStep
<1>10. QED
  BY <1>1, <1>2, <1>3, <1>4, <1>5, <1>6, <1>7, <1>8, <1>9 DEF Next

(* The variables have their types. *)
THEOREM TypeCorrect == Spec => []TypeOK
<1>1. Init => TypeOK
  BY InitType
<1>2. TypeOK /\ [Next]_vars => TypeOK'
  BY NextType
<1>3. QED
  BY <1>1, <1>2, PTL DEF Spec

-----------------------------------------------------------------------------
(***************************************************************************)
(* What the log of a session promises while nothing races with the main    *)
(* thread: its VISIT comes first and once, its events belong to one user,  *)
(* and a key to its user.                                                  *)
(*                                                                         *)
(* The argument follows the stack of GrowingThread.  Below the frame that  *)
(* runs there are only posts that wait, or the event whose VISIT is being  *)
(* made; and `sent' tells whether the session's VISIT is in the log,       *)
(* except while a VISIT is on its way.                                     *)
(***************************************************************************)
Growing == stack["growing"]
Main    == stack["main"]

OwnKey(u, k) == k = None \/ (u \in User /\ k \in KeysOf[u])

(* Blocks that a call queues, and posts that wait below the running frame. *)
EventPost == {f \in Frame : f.op = "post" /\ f.type # "VISIT"}
Block ==
    {f \in Frame :
        \/ f.op = "post" /\ f.type # "VISIT"
        \/ f.op = "login" /\ OwnKey(f.user, f.key)
        \/ f.op \in {"become", "resign", "background", "reengage", "postBuilders",
                     "enable", "disable"}}

Visited == \E i \in DOMAIN log : log[i].type = "VISIT" /\ log[i].id = ses.id
Reads   == {"readUser", "readId", "readKey"}
Logins  == {"setUser", "setKey", "userChanged", "latest"}

Begins(s, f) == s # <<>> /\ Head(s) = f

(* An event that waits for the VISIT being made above it, or nothing. *)
Below(s) ==
    \/ s \in Seq(EventPost)
    \/ /\ enabled /\ s # <<>>
       /\ Head(s).op = "readUser" /\ Head(s).type # "VISIT"
       /\ Tail(s) \in Seq(EventPost)

Single(s) ==
    \/ s = <<>>
    \/ /\ Tail(s) \in Seq(EventPost)
       /\ \/ Head(s) \in Block
          \/ Head(s).op \in Logins
          \/ Head(s).op \in Reads /\ Head(s).type # "VISIT" /\ ses.sent

AtVisit(s)   == Begins(s, Do("visit")) /\ Below(Tail(s))
AtUnsent(s)  == /\ Begins(s, Do("unsent")) /\ Begins(Tail(s), Do("visit"))
                /\ Tail(Tail(s)) \in Seq(EventPost)
AtRefresh(s) == Begins(s, Do("refresh")) /\ AtUnsent(Tail(s))
AtVISIT(s)   == /\ s # <<>> /\ Below(Tail(s))
                /\ \/ Head(s) = Do("dispatchVisit")
                   \/ Head(s).type = "VISIT" /\ Head(s).op \in {"post"} \cup Reads

(* While the tracker runs: what the flag says of the log, by what is done. *)
Sent ==
    \/ Single(Growing) /\ (ses.sent <=> Visited)
    \/ AtRefresh(Growing)
    \/ AtUnsent(Growing) /\ ~Visited
    \/ AtVisit(Growing) /\ ~ses.sent /\ ~Visited
    \/ AtVISIT(Growing) /\ ses.sent /\ enabled /\ ~Visited

Running == Main = <<>> /\ channels /\ queue \in Seq(Block) /\ Sent

(* While it starts: the channels come first, then the VISIT, then the rest. *)
Configuring == Main = StartUp /\ ~ses.sent /\ Growing = <<>> /\ queue = <<>>

Visiting ==
    /\ \/ Main = <<Do("visit")>> /\ ~ses.sent
       \/ Main = <<Do("dispatchVisit")>> /\ ses.sent /\ enabled
    /\ \/ queue = <<Do("create")>> /\ Growing = <<>>
       \/ queue = <<>> /\ Growing = <<Do("create")>>
       \/ queue = <<>> /\ Growing = <<>> /\ channels

VisitQueued ==
    /\ Main = <<>> /\ ses.sent /\ enabled
    /\ \/ /\ Growing = <<>> /\ Begins(queue, Do("create"))
          /\ Begins(Tail(queue), Post("VISIT")) /\ Tail(Tail(queue)) \in Seq(Block)
       \/ /\ Growing = <<Do("create")>> \/ (Growing = <<>> /\ channels)
          /\ Begins(queue, Post("VISIT")) /\ Tail(queue) \in Seq(Block)

NoVisit ==
    /\ Main = <<>> /\ ~ses.sent
    /\ \/ Growing = <<>> /\ Begins(queue, Do("create")) /\ Tail(queue) \in Seq(Block)
       \/ Growing = <<Do("create")>> /\ queue \in Seq(Block)

Starting == log = <<>> /\ (Configuring \/ Visiting \/ VisitQueued \/ NoVisit)

(* The login user and its key, by what is done. *)
Pairs ==
    /\ ~At("growing", "setKey") => OwnKey(ses.user, ses.key)
    /\ \/ Growing # <<>> /\ Head(Growing).op \in {"setKey", "userChanged", "latest"}
       \/ IsBlank(ses.user)
       \/ ses.user = ses.latest
    /\ Growing # <<>> =>
          /\ Head(Growing).op \in {"login", "setUser", "setKey"} =>
                OwnKey(Head(Growing).user, Head(Growing).key)
          /\ Head(Growing).op \in {"setKey", "userChanged", "latest", "readId", "readKey"} =>
                Head(Growing).user = ses.user
          /\ Head(Growing).op = "readKey" => Head(Growing).id = ses.id

(* The log, of all sessions and of the current one. *)
Logged ==
    /\ \A i \in DOMAIN log :
          /\ log[i].id <= ses.id
          /\ OwnKey(log[i].user, log[i].key)
          /\ \E j \in 1..i : log[j].type = "VISIT" /\ log[j].id = log[i].id
    /\ \A i, j \in DOMAIN log :
          log[i].type = "VISIT" /\ log[j].type = "VISIT" /\ log[i].id = log[j].id => i = j
    /\ \A i, j \in DOMAIN log :
          \/ log[i].id # log[j].id
          \/ IsBlank(log[i].user) \/ IsBlank(log[j].user)
          \/ log[i].user = log[j].user
    /\ \/ Growing # <<>> /\ Head(Growing).op = "refresh"
       \/ \A i \in DOMAIN log :
             log[i].id # ses.id \/ IsBlank(log[i].user) \/ log[i].user = ses.latest

Ordered == (Starting \/ Running) /\ Pairs /\ Logged

(* The inductive invariant. *)
OrderInv == TypeOK /\ (races = 0 => Ordered)

-----------------------------------------------------------------------------
(* Stacks *)

LEMMA Front ==
    ASSUME NEW S, NEW s \in Seq(S), NEW a \in S, NEW b \in S, NEW c \in S
    PROVE  /\ <<>> \o s = s
           /\ <<a>> \o s # <<>> /\ Head(<<a>> \o s) = a /\ Tail(<<a>> \o s) = s
           /\ <<a, b>> \o s # <<>> /\ Head(<<a, b>> \o s) = a /\ Tail(<<a, b>> \o s) = <<b>> \o s
           /\ <<a, b, c>> \o s # <<>> /\ Head(<<a, b, c>> \o s) = a
           /\ Tail(<<a, b, c>> \o s) = <<b, c>> \o s
<1>1. <<>> \o s = s
  OBVIOUS
<1>2. <<a>> \o s # <<>> /\ Head(<<a>> \o s) = a
  OBVIOUS
<1>3. Tail(<<a>> \o s) = s
  OBVIOUS
<1>4. /\ <<a, b>> \o s # <<>> /\ Head(<<a, b>> \o s) = a
      /\ <<a, b, c>> \o s # <<>> /\ Head(<<a, b, c>> \o s) = a
  OBVIOUS
<1>5. Tail(<<a, b>> \o s) = <<b>> \o s
  OBVIOUS
<1>6. Tail(<<a, b, c>> \o s) = <<b, c>> \o s
  OBVIOUS
<1>7. QED
  BY <1>1, <1>2, <1>3, <1>4, <1>5, <1>6

LEMMA Pair ==
    ASSUME NEW S, NEW a \in S, NEW b \in S
    PROVE  <<a>> \o <<b>> = <<a, b>>
<1>1. <<a>> \in Seq(S) /\ <<b>> \in Seq(S) /\ <<a, b>> \in Seq(S)
  OBVIOUS
<1>2. <<a>> \o <<b>> \in Seq(S)
  BY <1>1
<1>3. Len(<<a>> \o <<b>>) = 2 /\ Len(<<a, b>>) = 2
  BY <1>1
<1>4. /\ (<<a>> \o <<b>>)[1] = a /\ (<<a>> \o <<b>>)[2] = b
      /\ <<a, b>>[1] = a /\ <<a, b>>[2] = b
  BY <1>1
<1>5. \A i \in 1..2 : (<<a>> \o <<b>>)[i] = <<a, b>>[i]
  BY <1>4
<1>6. QED
  BY <1>1, <1>2, <1>3, <1>5, SeqEqual

LEMMA ThenGrowing ==
    ASSUME TypeOK, NEW fs, Then("growing", fs)
    PROVE  Growing' = fs \o Tail(Growing) /\ Main' = Main
BY DEF TypeOK, Then, Thread, Growing, Main

LEMMA StackTypes ==
    ASSUME TypeOK
    PROVE  /\ Growing \in Seq(Frame)
           /\ Growing # <<>> => Head(Growing) \in Frame /\ Tail(Growing) \in Seq(Frame)
<1>1. Growing \in Seq(Frame)
  BY DEF TypeOK, Thread, Growing
<1>2. QED
  BY <1>1

(* The frame that runs tells the shape of the stack. *)
LEMMA Shapes ==
    ASSUME Sent, Growing # <<>>
    PROVE  LET o == Head(Growing).op
               t == Head(Growing).type
           IN  /\ o = "refresh" => AtRefresh(Growing)
               /\ o = "unsent" => AtUnsent(Growing) /\ ~Visited
               /\ o = "visit" => AtVisit(Growing) /\ ~ses.sent /\ ~Visited
               /\ o = "dispatchVisit" => AtVISIT(Growing) /\ ses.sent /\ enabled /\ ~Visited
               /\ o \in {"post"} \cup Reads =>
                     \/ /\ t # "VISIT" /\ Tail(Growing) \in Seq(EventPost)
                        /\ ses.sent <=> Visited
                        /\ o # "post" => ses.sent
                     \/ t = "VISIT" /\ AtVISIT(Growing) /\ ses.sent /\ enabled /\ ~Visited
               /\ o \in Logins \cup {"login", "become", "resign", "background", "reengage",
                                     "postBuilders", "enable", "disable"} =>
                     Tail(Growing) \in Seq(EventPost) /\ (ses.sent <=> Visited)
               /\ o \notin {"create", "config"}
<1> DEFINE o == Head(Growing).op
<1>1. /\ Head(Growing) = Do("visit") => o = "visit"
      /\ Head(Growing) = Do("unsent") => o = "unsent"
      /\ Head(Growing) = Do("refresh") => o = "refresh"
      /\ Head(Growing) = Do("dispatchVisit") => o = "dispatchVisit"
  BY DEF Do
<1>2. CASE Single(Growing) /\ (ses.sent <=> Visited)
  BY <1>2 DEF Single, Block, Logins, Reads
<1>3. CASE AtRefresh(Growing)
  BY <1>1, <1>3 DEF AtRefresh, Begins, Logins, Reads
<1>4. CASE AtUnsent(Growing) /\ ~Visited
  BY <1>1, <1>4 DEF AtUnsent, Begins, Logins, Reads
<1>5. CASE AtVisit(Growing) /\ ~ses.sent /\ ~Visited
  BY <1>1, <1>5 DEF AtVisit, Begins, Logins, Reads
<1>6. CASE AtVISIT(Growing) /\ ses.sent /\ enabled /\ ~Visited
  BY <1>1, <1>6 DEF AtVISIT, Logins, Reads
<1>7. QED
  BY <1>2, <1>3, <1>4, <1>5, <1>6 DEF Sent

-----------------------------------------------------------------------------
(* What a step keeps *)

InMiddle == Growing # <<>> /\ Head(Growing).op \in {"setKey", "userChanged", "latest"}

(* The frame that runs next has read nothing and stores nothing. *)
Calm == Growing = <<>> \/ Head(Growing).op \notin
          {"login", "setUser", "setKey", "userChanged", "latest", "readId", "readKey"}

LEMMA PairsKept ==
    ASSUME Pairs, ~InMiddle, Calm',
           ses'.user = ses.user, ses'.key = ses.key, ses'.latest = ses.latest
    PROVE  Pairs'
BY DEF Pairs, InMiddle, Calm, At, Top, Growing

LEMMA LoggedKept ==
    ASSUME Logged, ~(Growing # <<>> /\ Head(Growing).op = "refresh"),
           log' = log, ses'.id = ses.id, ses'.latest = ses.latest
    PROVE  Logged'
BY DEF Logged

LEMMA LogIds ==
    ASSUME TypeOK, Logged
    PROVE  \A i \in DOMAIN log : log[i].id <= ses.id /\ log[i].id \in Nat
<1>1. \A i \in DOMAIN log : log[i] \in Event
  BY DEF TypeOK
<1>2. QED
  BY <1>1 DEF Event, Logged

LEMMA VisitedKept ==
    ASSUME log' = log, ses'.id = ses.id
    PROVE  Visited' <=> Visited
BY DEF Visited

(* Posts that waited are as good as new blocks. *)
LEMMA PostsRun ==
    ASSUME Growing' \in Seq(EventPost)
    PROVE  Single(Growing)' /\ Calm'
<1>1. CASE Growing' = <<>>
  BY <1>1 DEF Single, Calm
<1>2. CASE Growing' # <<>>
  <2>1. Head(Growing') \in EventPost /\ Tail(Growing') \in Seq(EventPost)
    BY <1>2
  <2>2. Head(Growing') \in Block
    BY <2>1 DEF EventPost, Block
  <2>3. QED
    BY <2>1, <2>2 DEF Single, Calm, EventPost
<1>3. QED
  BY <1>1, <1>2

LEMMA BelowIsCalm ==
    ASSUME Below(Growing)'
    PROVE  Calm'
<1>1. CASE Growing' \in Seq(EventPost)
  BY <1>1, PostsRun
<1>2. CASE ~(Growing' \in Seq(EventPost))
  BY <1>2 DEF Below, Calm
<1>3. QED
  BY <1>1, <1>2

-----------------------------------------------------------------------------
(* Steps of GrowingThread while the tracker runs *)

LEMMA RefreshKeeps ==
    ASSUME TypeOK, Running, Pairs, Logged, RefreshSessionId("growing")
    PROVE  Running' /\ Pairs' /\ Logged'
<1>1. Growing # <<>> /\ Head(Growing).op \in {"refresh", "unsent"} /\ ~InMiddle
  BY DEF RefreshSessionId, At, Top, Growing, InMiddle
<1>2. /\ Growing' = Tail(Growing) /\ Main' = Main
      /\ UNCHANGED keep
  <2>1. Tail(Growing) \in Seq(Frame)
    BY <1>1, StackTypes
  <2>2. Then("growing", <<>>) /\ UNCHANGED keep
    BY DEF RefreshSessionId
  <2>3. <<>> \o Tail(Growing) = Tail(Growing)
    BY <2>1
  <2>4. QED
    BY <2>2, <2>3, ThenGrowing
<1>3. ses \in Ses /\ ses.id \in Nat
  BY SesFields
<1>4. CASE Head(Growing).op = "refresh"
  <2>1. AtRefresh(Growing)
    BY <1>1, <1>4, Shapes DEF Running
  <2>2. ses' = [ses EXCEPT !.id = @ + 1]
    BY <1>1, <1>4 DEF RefreshSessionId, At, Top, Set, Growing
  <2>3. /\ ses'.id = ses.id + 1 /\ ses'.user = ses.user /\ ses'.key = ses.key
        /\ ses'.latest = ses.latest
    BY <1>3, <2>2 DEF Ses
  <2>4. AtUnsent(Growing)'
    BY <1>2, <2>1 DEF AtRefresh, AtUnsent
  <2>5. \A i \in DOMAIN log : log[i].id # ses.id + 1
    <3>1. \A i \in DOMAIN log : log[i].id <= ses.id /\ log[i].id \in Nat
      BY LogIds
    <3>2. QED
      BY <1>3, <3>1
  <2>6. ~Visited'
    BY <1>2, <2>3, <2>5 DEF Visited, keep
  <2>7. Running'
    BY <1>2, <2>4, <2>6 DEF Running, Sent, keep
  <2>8. Calm'
    BY <2>4 DEF AtUnsent, Begins, Calm, Do
  <2>9. Logged'
    <3>1. \A i \in DOMAIN log : log[i].id <= ses.id + 1
      <4>1. \A i \in DOMAIN log : log[i].id <= ses.id /\ log[i].id \in Nat
        BY LogIds
      <4>2. QED
        BY <1>3, <4>1
    <3>2. log' = log
      BY <1>2 DEF keep
    <3>3. QED
      BY <2>3, <2>5, <3>1, <3>2 DEF Logged
  <2>10. QED
    BY <1>1, <2>3, <2>7, <2>8, <2>9, PairsKept
<1>5. CASE Head(Growing).op = "unsent"
  <2>1. AtUnsent(Growing) /\ ~Visited
    BY <1>1, <1>5, Shapes DEF Running
  <2>2. ses' = [ses EXCEPT !.sent = FALSE]
    BY <1>1, <1>5 DEF RefreshSessionId, At, Top, Set, Growing
  <2>3. /\ ses'.id = ses.id /\ ses'.user = ses.user /\ ses'.key = ses.key
        /\ ses'.latest = ses.latest /\ ses'.sent = FALSE
    BY <1>3, <2>2 DEF Ses
  <2>4. AtVisit(Growing)'
    BY <1>2, <2>1 DEF AtUnsent, AtVisit, Begins, Below
  <2>5. ~Visited'
    BY <1>2, <2>1, <2>3, VisitedKept DEF keep
  <2>6. Running'
    BY <1>2, <2>3, <2>4, <2>5 DEF Running, Sent, keep
  <2>7. Calm'
    BY <2>4 DEF AtVisit, Begins, Calm, Do
  <2>8. QED
    BY <1>1, <1>2, <1>5, <2>3, <2>6, <2>7, PairsKept, LoggedKept DEF keep
<1>6. QED
  BY <1>1, <1>4, <1>5

LEMMA VisitKeeps ==
    ASSUME TypeOK, Running, Pairs, Logged,
           GenerateVisit("growing") \/ GenerateVisitEvent("growing")
    PROVE  Running' /\ Pairs' /\ Logged'
<1>1. Growing # <<>> /\ Head(Growing).op \in {"visit", "dispatchVisit"} /\ ~InMiddle
  BY DEF GenerateVisit, GenerateVisitEvent, At, Top, Growing, InMiddle
<1>2. Tail(Growing) \in Seq(Frame) /\ ses \in Ses
  BY <1>1, StackTypes, SesFields
<1>3. \A f \in Frame : /\ <<f>> \o Tail(Growing) # <<>>
                       /\ Head(<<f>> \o Tail(Growing)) = f
                       /\ Tail(<<f>> \o Tail(Growing)) = Tail(Growing)
  BY <1>2, Front
<1>4. Do("dispatchVisit") \in Frame /\ Post("VISIT") \in Frame
  BY FrameTypes DEF Op, Type
<1>5. CASE GenerateVisit("growing") /\ enabled
  <2>1. AtVisit(Growing) /\ ~Visited
    BY <1>1, <1>5, Shapes DEF Running, GenerateVisit, At, Top, Growing
  <2>2. /\ Then("growing", <<Do("dispatchVisit")>>) /\ UNCHANGED keep
        /\ ses' = [ses EXCEPT !.sent = TRUE]
    BY <1>5 DEF GenerateVisit, Set
  <2>3. /\ ses'.id = ses.id /\ ses'.user = ses.user /\ ses'.key = ses.key
        /\ ses'.latest = ses.latest /\ ses'.sent = TRUE
    BY <1>2, <2>2 DEF Ses
  <2>4. /\ Growing' # <<>> /\ Head(Growing') = Do("dispatchVisit")
        /\ Tail(Growing') = Tail(Growing) /\ Main' = Main
    <3>1. Growing' = <<Do("dispatchVisit")>> \o Tail(Growing) /\ Main' = Main
      BY <2>2, ThenGrowing
    <3>2. QED
      BY <1>3, <1>4, <3>1
  <2>5. AtVISIT(Growing)'
    BY <2>1, <2>2, <2>4 DEF AtVISIT, AtVisit, Below, keep
  <2>6. ~Visited'
    BY <2>1, <2>2, <2>3, VisitedKept DEF keep
  <2>7. Running'
    BY <1>5, <2>2, <2>3, <2>4, <2>5, <2>6 DEF Running, Sent, keep
  <2>8. Calm'
    BY <2>4 DEF Calm, Do
  <2>9. Head(Growing).op # "refresh"
    BY <1>1
  <2>10. QED
    BY <1>1, <2>2, <2>3, <2>7, <2>8, <2>9, PairsKept, LoggedKept DEF keep
<1>6. CASE GenerateVisit("growing") /\ ~enabled
  <2>1. AtVisit(Growing) /\ ~Visited /\ ~ses.sent
    BY <1>1, <1>6, Shapes DEF Running, GenerateVisit, At, Top, Growing
  <2>2. Then("growing", <<>>) /\ UNCHANGED <<ses, keep>>
    BY <1>6 DEF GenerateVisit
  <2>3. Growing' = Tail(Growing) /\ Main' = Main
    BY <1>2, <2>2, ThenGrowing
  <2>4. Growing' \in Seq(EventPost)
    BY <1>6, <2>1, <2>3 DEF AtVisit, Below
  <2>5. Single(Growing)' /\ Calm'
    BY <2>4, PostsRun
  <2>6. ~Visited'
    BY <2>1, <2>2, VisitedKept DEF keep
  <2>7. Running'
    BY <2>1, <2>2, <2>3, <2>5, <2>6 DEF Running, Sent, keep
  <2>8. Head(Growing).op # "refresh"
    BY <1>1
  <2>9. QED
    BY <1>1, <2>2, <2>5, <2>7, <2>8, PairsKept, LoggedKept DEF keep
<1>7. CASE GenerateVisitEvent("growing")
  <2>1. AtVISIT(Growing) /\ ses.sent /\ enabled /\ ~Visited
    BY <1>1, <1>7, Shapes DEF Running, GenerateVisitEvent, At, Top, Growing
  <2>2. Then("growing", <<Post("VISIT")>>) /\ UNCHANGED <<ses, keep>>
    BY <1>7 DEF GenerateVisitEvent, keep
  <2>3. /\ Growing' # <<>> /\ Head(Growing') = Post("VISIT")
        /\ Tail(Growing') = Tail(Growing) /\ Main' = Main
    <3>1. Growing' = <<Post("VISIT")>> \o Tail(Growing) /\ Main' = Main
      BY <2>2, ThenGrowing
    <3>2. QED
      BY <1>3, <1>4, <3>1
  <2>4. AtVISIT(Growing)'
    BY <2>1, <2>2, <2>3 DEF AtVISIT, Below, keep, Post, Do
  <2>5. ~Visited'
    BY <2>1, <2>2, VisitedKept DEF keep
  <2>6. Running'
    BY <2>1, <2>2, <2>3, <2>4, <2>5 DEF Running, Sent, keep
  <2>7. Calm'
    BY <2>3 DEF Calm, Post, Do
  <2>8. Head(Growing).op # "refresh"
    BY <1>1
  <2>9. QED
    BY <1>1, <2>2, <2>6, <2>7, <2>8, PairsKept, LoggedKept DEF keep
<1>8. QED
  BY <1>5, <1>6, <1>7

(* A step that leaves the session and the log as they are to its events. *)
LEMMA PlainStep ==
    ASSUME Running, Pairs, Logged, ~InMiddle,
           ~(Growing # <<>> /\ Head(Growing).op = "refresh"),
           ses.sent <=> Visited, Single(Growing)', Calm',
           ses'.id = ses.id, ses'.sent = ses.sent, ses'.user = ses.user,
           ses'.key = ses.key, ses'.latest = ses.latest,
           log' = log, Main' = Main, channels' = channels, queue' \in Seq(Block)
    PROVE  Running' /\ Pairs' /\ Logged'
<1>1. ses'.sent <=> Visited'
  BY VisitedKept
<1>2. Running'
  BY <1>1 DEF Running, Sent
<1>3. QED
  BY <1>2, PairsKept, LoggedKept

LEMMA Popped ==
    ASSUME TypeOK, Growing # <<>>, Then("growing", <<>>)
    PROVE  Growing' = Tail(Growing) /\ Main' = Main
<1>1. Tail(Growing) \in Seq(Frame)
  BY StackTypes
<1>2. <<>> \o Tail(Growing) = Tail(Growing)
  BY <1>1
<1>3. QED
  BY <1>2, ThenGrowing

LEMMA Replaced ==
    ASSUME TypeOK, Growing # <<>>, NEW f \in Frame, Then("growing", <<f>>)
    PROVE  /\ Growing' # <<>> /\ Head(Growing') = f /\ Tail(Growing') = Tail(Growing)
           /\ Main' = Main
<1>1. Tail(Growing) \in Seq(Frame)
  BY StackTypes
<1>2. Growing' = <<f>> \o Tail(Growing) /\ Main' = Main
  BY ThenGrowing
<1>3. QED
  BY <1>1, <1>2, Front

LEMMA PostKeeps ==
    ASSUME TypeOK, Running, Pairs, Logged, PostEventBuilder
    PROVE  Running' /\ Pairs' /\ Logged'
<1> DEFINE f == [Top("growing") EXCEPT !.op = "readUser"]
<1>1. Growing # <<>> /\ Head(Growing).op = "post" /\ ~InMiddle /\ UNCHANGED <<ses, keep>>
  BY DEF PostEventBuilder, At, Top, Growing, InMiddle
<1>2. Head(Growing) \in Frame /\ Tail(Growing) \in Seq(Frame) /\ queue \in Seq(Block)
  BY <1>1, StackTypes DEF Running
<1>3. f \in Frame /\ f.op = "readUser" /\ f.type = Head(Growing).type
  <2>1. Top("growing") \in Frame
    BY <1>2 DEF Top, Growing
  <2>2. f.op = "readUser" /\ f.type = Top("growing").type
    BY <2>1 DEF Frame
  <2>3. QED
    BY <2>1, <2>2, FrameFields DEF Op, Top, Growing
<1>4. \/ /\ Head(Growing).type # "VISIT" /\ Tail(Growing) \in Seq(EventPost)
         /\ ses.sent <=> Visited
      \/ Head(Growing).type = "VISIT" /\ AtVISIT(Growing) /\ ses.sent /\ enabled /\ ~Visited
  BY <1>1, Shapes DEF Running
<1>5. /\ ~enabled => Then("growing", <<>>)
      /\ enabled /\ ses.sent => Then("growing", <<>> \o <<f>>)
      /\ enabled /\ ~ses.sent => Then("growing", <<Do("visit")>> \o <<f>>)
  BY DEF PostEventBuilder
<1> HIDE DEF f
<1>6. CASE ~enabled
  <2>1. Growing' = Tail(Growing) /\ Main' = Main
    BY <1>1, <1>5, <1>6, Popped
  <2>2. Tail(Growing) \in Seq(EventPost) /\ (ses.sent <=> Visited)
    BY <1>4, <1>6
  <2>3. Single(Growing)' /\ Calm'
    BY <2>1, <2>2, PostsRun
  <2>4. QED
    BY <1>1, <1>2, <2>1, <2>2, <2>3, PlainStep DEF keep
<1>7. CASE enabled /\ ses.sent
  <2>1. /\ Growing' # <<>> /\ Head(Growing') = f /\ Tail(Growing') = Tail(Growing)
        /\ Main' = Main
    <3>1. <<>> \o <<f>> = <<f>>
      OBVIOUS
    <3>2. QED
      BY <1>1, <1>3, <1>5, <1>7, <3>1, Replaced
  <2>2. Calm'
    BY <1>3, <2>1 DEF Calm
  <2>3. CASE Head(Growing).type # "VISIT"
    <3>1. Single(Growing)'
      BY <1>1, <1>3, <1>4, <1>7, <2>1, <2>3 DEF Single, Reads
    <3>2. QED
      BY <1>1, <1>2, <1>4, <2>1, <2>2, <2>3, <3>1, PlainStep DEF keep
  <2>4. CASE Head(Growing).type = "VISIT"
    <3>1. AtVISIT(Growing)'
      BY <1>1, <1>3, <1>4, <2>1, <2>4 DEF AtVISIT, Below, Reads, keep
    <3>2. ~Visited'
      BY <1>1, <1>4, <2>4, VisitedKept DEF keep
    <3>3. Running'
      BY <1>1, <1>4, <2>1, <2>4, <3>1, <3>2 DEF Running, Sent, keep
    <3>4. QED
      BY <1>1, <2>2, <3>3, PairsKept, LoggedKept DEF keep
  <2>5. QED
    BY <2>3, <2>4
<1>8. CASE enabled /\ ~ses.sent
  <2>1. Head(Growing).type # "VISIT" /\ Tail(Growing) \in Seq(EventPost) /\ ~Visited
    BY <1>4, <1>8
  <2>2. /\ Growing' # <<>> /\ Head(Growing') = Do("visit") /\ Main' = Main
        /\ Tail(Growing') = <<f>> \o Tail(Growing)
    <3>1. Do("visit") \in Frame
      BY FrameTypes DEF Op
    <3>2. <<Do("visit")>> \o <<f>> = <<Do("visit"), f>>
      BY <1>3, <3>1, Pair
    <3>3. Growing' = <<Do("visit"), f>> \o Tail(Growing) /\ Main' = Main
      BY <1>5, <1>8, <3>2, ThenGrowing
    <3>4. QED
      BY <1>2, <1>3, <3>1, <3>3, Front
  <2>3. Tail(Growing') # <<>> /\ Head(Tail(Growing')) = f /\ Tail(Tail(Growing')) = Tail(Growing)
    <3>1. /\ <<f>> \o Tail(Growing) # <<>> /\ Head(<<f>> \o Tail(Growing)) = f
          /\ Tail(<<f>> \o Tail(Growing)) = Tail(Growing)
      BY <1>2, <1>3, Front
    <3>2. QED
      BY <2>2, <3>1
  <2>4. Below(Tail(Growing))'
    BY <1>1, <1>3, <1>8, <2>1, <2>3 DEF Below, keep
  <2>5. AtVisit(Growing)'
    BY <2>2, <2>4 DEF AtVisit, Begins
  <2>6. ~Visited'
    BY <1>1, <2>1, VisitedKept DEF keep
  <2>7. Running'
    BY <1>1, <1>8, <2>2, <2>5, <2>6 DEF Running, Sent, keep
  <2>8. Calm'
    BY <2>2 DEF Calm, Do
  <2>9. QED
    BY <1>1, <2>7, <2>8, PairsKept, LoggedKept DEF keep
<1>9. QED
  BY <1>6, <1>7, <1>8

LEMMA ReadKeeps ==
    ASSUME TypeOK, Running, Pairs, Logged, ReadProperty
    PROVE  Running' /\ Pairs' /\ Logged'
<1> DEFINE g == [Top("growing") EXCEPT !.op = "readId", !.user = ses.user]
           h == [Top("growing") EXCEPT !.op = "readKey", !.id = ses.id]
<1>1. /\ Growing # <<>> /\ Head(Growing).op \in {"readUser", "readId"} /\ ~InMiddle
      /\ UNCHANGED <<ses, keep>>
      /\ \/ Head(Growing).op = "readUser" /\ Then("growing", <<g>>)
         \/ Head(Growing).op = "readId" /\ Then("growing", <<h>>)
  BY DEF ReadProperty, At, Top, Growing, InMiddle
<1>2. /\ Top("growing") = Head(Growing) /\ Head(Growing) \in Frame
      /\ Tail(Growing) \in Seq(Frame) /\ queue \in Seq(Block)
  BY <1>1, StackTypes DEF Running, Top, Growing
<1>3. /\ g \in Frame /\ g.op = "readId" /\ g.type = Head(Growing).type /\ g.user = ses.user
      /\ h \in Frame /\ h.op = "readKey" /\ h.type = Head(Growing).type
      /\ h.user = Head(Growing).user /\ h.id = ses.id
  <2>1. g \in Frame /\ h \in Frame
    BY <1>2, FrameFields, SesFields DEF Op
  <2>2. /\ g.op = "readId" /\ g.type = Head(Growing).type /\ g.user = ses.user
        /\ h.op = "readKey" /\ h.type = Head(Growing).type
        /\ h.user = Head(Growing).user /\ h.id = ses.id
    BY <1>2 DEF Frame
  <2>3. QED
    BY <2>1, <2>2
<1>4. \/ /\ Head(Growing).type # "VISIT" /\ Tail(Growing) \in Seq(EventPost)
         /\ ses.sent /\ Visited
      \/ Head(Growing).type = "VISIT" /\ AtVISIT(Growing) /\ ses.sent /\ enabled /\ ~Visited
  BY <1>1, Shapes DEF Running, Reads
<1> HIDE DEF g, h
<1>5. /\ Growing' # <<>> /\ Head(Growing').op \in {"readId", "readKey"} /\ Main' = Main
      /\ Head(Growing').type = Head(Growing).type /\ Tail(Growing') = Tail(Growing)
      /\ Head(Growing').op = "readKey" => Head(Growing').id = ses.id
      /\ Head(Growing').user = ses.user
  <2>1. Head(Growing).op = "readId" => Head(Growing).user = ses.user
    BY <1>1 DEF Pairs
  <2>2. QED
    BY <1>1, <1>3, <2>1, Replaced
<1>6. Pairs'
  BY <1>1, <1>5 DEF Pairs, InMiddle, At, Top, Growing
<1>7. Visited' <=> Visited
  BY <1>1, VisitedKept DEF keep
<1>8. Logged'
  BY <1>1, LoggedKept DEF keep
<1>9. CASE Head(Growing).type # "VISIT"
  <2>1. Single(Growing)'
    BY <1>1, <1>4, <1>5, <1>9 DEF Single, Reads
  <2>2. QED
    BY <1>1, <1>4, <1>5, <1>6, <1>7, <1>8, <1>9, <2>1 DEF Running, Sent, keep
<1>10. CASE Head(Growing).type = "VISIT"
  <2>1. AtVISIT(Growing)'
    BY <1>1, <1>4, <1>5, <1>10 DEF AtVISIT, Below, Reads, keep
  <2>2. QED
    BY <1>1, <1>4, <1>5, <1>6, <1>7, <1>8, <1>10, <2>1 DEF Running, Sent, keep
<1>11. QED
  BY <1>9, <1>10

LEMMA LogGrows ==
    ASSUME TypeOK, NEW e \in Event, log' = Append(log, e)
    PROVE  /\ Len(log) \in Nat
           /\ DOMAIN log = 1..Len(log) /\ DOMAIN log' = 1..(Len(log) + 1)
           /\ \A i \in DOMAIN log : log'[i] = log[i]
           /\ log'[Len(log) + 1] = e
BY DEF TypeOK

(* An event that fits the session keeps the promises of the log. *)
LEMMA LoggedGrows ==
    ASSUME TypeOK, Pairs, Logged, ~InMiddle,
           ~(Growing # <<>> /\ Head(Growing).op = "refresh"),
           NEW e \in Event, log' = Append(log, e), ses' = ses,
           e.id = ses.id, e.user = ses.user, e.key = ses.key,
           (e.type = "VISIT") <=> ~Visited
    PROVE  Logged' /\ Visited'
<1> DEFINE n == Len(log) + 1
<1>1. /\ n \in Nat /\ DOMAIN log = 1..Len(log) /\ DOMAIN log' = 1..n
      /\ \A i \in DOMAIN log : log'[i] = log[i]
      /\ log'[n] = e
  BY LogGrows
<1>2. \A i \in DOMAIN log' : i \in DOMAIN log \/ i = n
  BY <1>1
<1>3. \A i \in DOMAIN log : i # n /\ i \in DOMAIN log'
  BY <1>1
<1>4. ses.id \in Nat
  BY SesFields
<1> HIDE DEF n
<1>5. Visited'
  <2>1. CASE e.type = "VISIT"
    <3>1. n \in DOMAIN log'
      <4>1. Len(log) \in Nat
        BY LogGrows
      <4>2. QED
        BY <1>1, <4>1 DEF n
    <3>2. QED
      BY <1>1, <2>1, <3>1 DEF Visited
  <2>2. CASE Visited
    <3>1. PICK i \in DOMAIN log : log[i].type = "VISIT" /\ log[i].id = ses.id
      BY <2>2 DEF Visited
    <3>2. QED
      BY <1>1, <1>3, <3>1 DEF Visited
  <2>3. QED
    BY <2>1, <2>2
<1>6. IsBlank(ses.user) \/ ses.user = ses.latest
  BY DEF Pairs, InMiddle
<1>7. OwnKey(ses.user, ses.key)
  BY DEF Pairs, InMiddle, At, Top, Growing
<1>8. \A i \in DOMAIN log : log[i].id # ses.id \/ IsBlank(log[i].user) \/ log[i].user = ses.latest
  BY DEF Logged
<1>9. \A i \in DOMAIN log' : log'[i].id <= ses'.id /\ OwnKey(log'[i].user, log'[i].key)
  BY <1>1, <1>2, <1>4, <1>7 DEF Logged
<1>10. \A i \in DOMAIN log' :
          \E j \in 1..i : log'[j].type = "VISIT" /\ log'[j].id = log'[i].id
  <2>1. ASSUME NEW i \in DOMAIN log
        PROVE  \E j \in 1..i : log'[j].type = "VISIT" /\ log'[j].id = log'[i].id
    <3>1. PICK j \in 1..i : log[j].type = "VISIT" /\ log[j].id = log[i].id
      BY DEF Logged
    <3>2. j \in DOMAIN log
      BY <1>1, <3>1
    <3>3. QED
      BY <1>1, <3>1, <3>2
  <2>2. \E j \in 1..n : log'[j].type = "VISIT" /\ log'[j].id = e.id
    BY <1>1, <1>5 DEF Visited
  <2>3. QED
    BY <1>1, <1>2, <2>1, <2>2
<1>11. \A i, j \in DOMAIN log' :
          log'[i].type = "VISIT" /\ log'[j].type = "VISIT" /\ log'[i].id = log'[j].id => i = j
  <2>1. e.type = "VISIT" => \A i \in DOMAIN log : log[i].type # "VISIT" \/ log[i].id # e.id
    BY DEF Visited
  <2>2. \A i, j \in DOMAIN log :
           log[i].type = "VISIT" /\ log[j].type = "VISIT" /\ log[i].id = log[j].id => i = j
    BY DEF Logged
  <2>3. QED
    BY <1>1, <1>2, <2>1, <2>2
<1>12. \A i, j \in DOMAIN log' :
          \/ log'[i].id # log'[j].id
          \/ IsBlank(log'[i].user) \/ IsBlank(log'[j].user)
          \/ log'[i].user = log'[j].user
  <2>1. \A i, j \in DOMAIN log :
          \/ log[i].id # log[j].id
          \/ IsBlank(log[i].user) \/ IsBlank(log[j].user)
          \/ log[i].user = log[j].user
    BY DEF Logged
  <2>2. \A i \in DOMAIN log : log[i].id # e.id \/ IsBlank(log[i].user)
                              \/ IsBlank(e.user) \/ log[i].user = e.user
    BY <1>6, <1>8
  <2>3. QED
    BY <1>1, <1>2, <2>1, <2>2
<1>13. \A i \in DOMAIN log' :
          log'[i].id # ses'.id \/ IsBlank(log'[i].user) \/ log'[i].user = ses'.latest
  BY <1>1, <1>2, <1>6, <1>8
<1>14. Logged'
  BY <1>9, <1>10, <1>11, <1>12, <1>13 DEF Logged
<1>15. QED
  BY <1>5, <1>14

LEMMA WriteKeeps ==
    ASSUME TypeOK, Running, Pairs, Logged, WriteEvent
    PROVE  Running' /\ Pairs' /\ Logged'
<1> DEFINE f == Head(Growing)
           e == [type |-> f.type, user |-> f.user, key |-> ses.key, id |-> f.id]
<1>1. /\ Growing # <<>> /\ f.op = "readKey" /\ ~InMiddle
      /\ log' = Append(log, e) /\ Then("growing", <<>>)
      /\ UNCHANGED <<ses, enabled, channels, builders, queue, env>>
  BY DEF WriteEvent, At, Top, Growing, InMiddle, Running
<1>2. f \in Frame /\ f.user = ses.user /\ f.id = ses.id
  BY <1>1, StackTypes DEF Pairs
<1>3. /\ e \in Event /\ e.type = f.type /\ e.id = ses.id /\ e.user = ses.user
      /\ e.key = ses.key
  BY <1>2, FrameFields, SesFields DEF Event
<1>4. \/ f.type # "VISIT" /\ Tail(Growing) \in Seq(EventPost) /\ ses.sent /\ Visited
      \/ f.type = "VISIT" /\ AtVISIT(Growing) /\ ses.sent /\ enabled /\ ~Visited
  BY <1>1, Shapes DEF Running, Reads
<1>5. Growing' = Tail(Growing) /\ Main' = Main
  BY <1>1, Popped
<1> HIDE DEF e
<1>6. Logged' /\ Visited'
  BY <1>1, <1>3, <1>4, LoggedGrows
<1>7. Single(Growing)' /\ Calm'
  <2>1. CASE Tail(Growing) \in Seq(EventPost)
    BY <1>5, <2>1, PostsRun
  <2>2. CASE AtVISIT(Growing) /\ ~(Tail(Growing) \in Seq(EventPost))
    BY <1>1, <1>4, <1>5, <2>2 DEF AtVISIT, Below, Single, Reads, Calm
  <2>3. QED
    BY <1>4, <2>1, <2>2
<1>8. Pairs'
  BY <1>1, <1>7, PairsKept
<1>9. Running'
  BY <1>1, <1>4, <1>5, <1>6, <1>7 DEF Running, Sent
<1>10. QED
  BY <1>6, <1>8, <1>9

LEMMA Renewed ==
    ASSUME TypeOK, Growing # <<>>, Tail(Growing) \in Seq(EventPost), Then("growing", NewSession)
    PROVE  /\ AtRefresh(Growing)' /\ Main' = Main /\ Calm'
           /\ Growing' # <<>> /\ Head(Growing').op = "refresh"
<1> DEFINE a == Do("refresh")
           b == Do("unsent")
           c == Do("visit")
           r == Tail(Growing)
<1>1. a \in Frame /\ b \in Frame /\ c \in Frame /\ r \in Seq(Frame)
  BY FrameTypes, StackTypes DEF Op
<1>2. Growing' = <<a, b, c>> \o r /\ Main' = Main
  BY ThenGrowing DEF NewSession
<1>3. a.op = "refresh"
  BY DEF Do
<1>4. r \in Seq(EventPost)
  OBVIOUS
<1> HIDE DEF a, b, c, r
<1>5. /\ <<a, b, c>> \o r # <<>> /\ Head(<<a, b, c>> \o r) = a
      /\ Tail(<<a, b, c>> \o r) = <<b, c>> \o r
      /\ <<b, c>> \o r # <<>> /\ Head(<<b, c>> \o r) = b /\ Tail(<<b, c>> \o r) = <<c>> \o r
      /\ <<c>> \o r # <<>> /\ Head(<<c>> \o r) = c /\ Tail(<<c>> \o r) = r
  BY <1>1, Front
<1>6. AtRefresh(Growing)'
  BY <1>2, <1>4, <1>5 DEF AtRefresh, AtUnsent, Begins, a, b, c
<1>7. Calm' /\ Growing' # <<>> /\ Head(Growing').op = "refresh"
  BY <1>2, <1>3, <1>5 DEF Calm
<1>8. QED
  BY <1>2, <1>6, <1>7

LEMMA LoginKeeps ==
    ASSUME TypeOK, Running, Pairs, Logged, SetLoginUserId("growing")
    PROVE  Running' /\ Pairs' /\ Logged'
<1> DEFINE f == Head(Growing)
           g == [f EXCEPT !.op = "setUser"]
           h == [f EXCEPT !.op = "setKey", !.old = ses.user]
           k == [f EXCEPT !.op = "userChanged"]
<1>1. /\ Growing # <<>> /\ f.op \in {"login", "setUser", "setKey"} /\ UNCHANGED keep
      /\ \/ f.op = "login" /\ (Then("growing", <<>>) \/ Then("growing", <<g>>)) /\ ses' = ses
         \/ f.op = "setUser" /\ Then("growing", <<h>>) /\ ses' = [ses EXCEPT !.user = f.user]
         \/ f.op = "setKey" /\ Then("growing", <<k>>) /\ ses' = [ses EXCEPT !.key = f.key]
  BY DEF SetLoginUserId, At, Top, Growing, Set
<1>2. /\ f \in Frame /\ Tail(Growing) \in Seq(EventPost) /\ queue \in Seq(Block)
      /\ ses.sent <=> Visited
  BY <1>1, Shapes, StackTypes DEF Running, Logins
<1>3. /\ g \in Frame /\ g.op = "setUser" /\ g.user = f.user /\ g.key = f.key
      /\ h \in Frame /\ h.op = "setKey" /\ h.user = f.user /\ h.key = f.key
      /\ k \in Frame /\ k.op = "userChanged" /\ k.user = f.user
  <2>1. g \in Frame /\ h \in Frame /\ k \in Frame
    BY <1>2, FrameFields, SesFields DEF Op
  <2>2. /\ g.op = "setUser" /\ g.user = f.user /\ g.key = f.key
        /\ h.op = "setKey" /\ h.user = f.user /\ h.key = f.key
        /\ k.op = "userChanged" /\ k.user = f.user
    BY <1>2 DEF Frame
  <2>3. QED
    BY <2>1, <2>2
<1>4. OwnKey(f.user, f.key)
  BY <1>1 DEF Pairs
<1>5. ses \in Ses
  BY SesFields
<1> HIDE DEF g, h, k
<1>6. CASE f.op = "login" /\ Then("growing", <<>>)
  <2>1. Growing' = Tail(Growing) /\ Main' = Main
    BY <1>1, <1>6, Popped
  <2>2. Single(Growing)' /\ Calm'
    BY <1>2, <2>1, PostsRun
  <2>3. ~InMiddle /\ ses' = ses
    BY <1>1, <1>6 DEF InMiddle
  <2>4. QED
    BY <1>1, <1>2, <1>6, <2>1, <2>2, <2>3, PlainStep DEF keep
<1>7. CASE f.op = "login" /\ Then("growing", <<g>>)
  <2>1. /\ Growing' # <<>> /\ Head(Growing') = g /\ Tail(Growing') = Tail(Growing)
        /\ Main' = Main
    BY <1>1, <1>3, <1>7, Replaced
  <2>2. Single(Growing)'
    BY <1>2, <1>3, <2>1 DEF Single, Logins
  <2>3. ses' = ses
    BY <1>1, <1>7
  <2>4. Pairs'
    BY <1>1, <1>3, <1>4, <1>7, <2>1, <2>3 DEF Pairs, At, Top, Growing
  <2>5. Logged' /\ (Visited' <=> Visited)
    BY <1>1, <1>7, <2>3, LoggedKept, VisitedKept DEF keep
  <2>6. QED
    BY <1>1, <1>2, <2>1, <2>2, <2>3, <2>4, <2>5 DEF Running, Sent, keep
<1>8. CASE f.op = "setUser"
  <2>1. /\ Growing' # <<>> /\ Head(Growing') = h /\ Tail(Growing') = Tail(Growing)
        /\ Main' = Main
    BY <1>1, <1>3, <1>8, Replaced
  <2>2. Single(Growing)'
    BY <1>2, <1>3, <2>1 DEF Single, Logins
  <2>3. /\ ses'.user = f.user /\ ses'.sent = ses.sent /\ ses'.id = ses.id
        /\ ses'.latest = ses.latest
    BY <1>1, <1>5, <1>8 DEF Ses
  <2>4. Pairs'
    BY <1>3, <1>4, <2>1, <2>3 DEF Pairs, At, Top, Growing
  <2>5. Logged' /\ (Visited' <=> Visited)
    BY <1>1, <1>8, <2>3, LoggedKept, VisitedKept DEF keep
  <2>6. QED
    BY <1>1, <1>2, <2>1, <2>2, <2>3, <2>4, <2>5 DEF Running, Sent, keep
<1>9. CASE f.op = "setKey"
  <2>1. /\ Growing' # <<>> /\ Head(Growing') = k /\ Tail(Growing') = Tail(Growing)
        /\ Main' = Main
    BY <1>1, <1>3, <1>9, Replaced
  <2>2. Single(Growing)'
    BY <1>2, <1>3, <2>1 DEF Single, Logins
  <2>3. /\ ses'.key = f.key /\ ses'.user = ses.user /\ ses'.sent = ses.sent
        /\ ses'.id = ses.id /\ ses'.latest = ses.latest
    BY <1>1, <1>5, <1>9 DEF Ses
  <2>4. f.user = ses.user
    BY <1>1, <1>9 DEF Pairs
  <2>5. Pairs'
    BY <1>3, <1>4, <2>1, <2>3, <2>4 DEF Pairs, At, Top, Growing
  <2>6. Logged' /\ (Visited' <=> Visited)
    BY <1>1, <1>9, <2>3, LoggedKept, VisitedKept DEF keep
  <2>7. QED
    BY <1>1, <1>2, <2>1, <2>2, <2>3, <2>5, <2>6 DEF Running, Sent, keep
<1>10. QED
  BY <1>1, <1>6, <1>7, <1>8, <1>9

LEMMA UserChangedKeeps ==
    ASSUME TypeOK, Running, Pairs, Logged, UserIdDidChanged("growing")
    PROVE  Running' /\ Pairs' /\ Logged'
<1> DEFINE f == Head(Growing)
           g == [f EXCEPT !.op = "latest"]
<1>1. /\ Growing # <<>> /\ f.op = "userChanged" /\ UNCHANGED <<ses, keep>>
      /\ \/ f.user = None /\ Then("growing", <<>>)
         \/ Then("growing", <<g>>)
  BY DEF UserIdDidChanged, At, Top, Growing
<1>2. /\ f \in Frame /\ Tail(Growing) \in Seq(EventPost) /\ queue \in Seq(Block)
      /\ ses.sent <=> Visited
  BY <1>1, Shapes, StackTypes DEF Running, Logins
<1>3. f.user = ses.user /\ OwnKey(ses.user, ses.key)
  BY <1>1 DEF Pairs, At, Top, Growing
<1>4. g \in Frame /\ g.op = "latest" /\ g.user = f.user
  <2>1. g \in Frame
    BY <1>2, FrameFields DEF Op
  <2>2. g.op = "latest" /\ g.user = f.user
    BY <1>2 DEF Frame
  <2>3. QED
    BY <2>1, <2>2
<1> HIDE DEF g
<1>5. Logged' /\ (Visited' <=> Visited)
  BY <1>1, LoggedKept, VisitedKept DEF keep
<1>6. CASE f.user = None /\ Then("growing", <<>>)
  <2>1. Growing' = Tail(Growing) /\ Main' = Main
    BY <1>1, <1>6, Popped
  <2>2. Single(Growing)' /\ Calm'
    BY <1>2, <2>1, PostsRun
  <2>3. IsBlank(ses.user)
    BY <1>3, <1>6 DEF IsBlank
  <2>4. Pairs'
    BY <1>1, <1>3, <2>2, <2>3 DEF Pairs, Calm, At, Top, Growing
  <2>5. QED
    BY <1>1, <1>2, <1>5, <2>1, <2>2, <2>4 DEF Running, Sent, keep
<1>7. CASE Then("growing", <<g>>)
  <2>1. /\ Growing' # <<>> /\ Head(Growing') = g /\ Tail(Growing') = Tail(Growing)
        /\ Main' = Main
    BY <1>1, <1>4, <1>7, Replaced
  <2>2. Single(Growing)'
    BY <1>2, <1>4, <2>1 DEF Single, Logins
  <2>3. Pairs'
    BY <1>1, <1>3, <1>4, <2>1 DEF Pairs, At, Top, Growing
  <2>4. QED
    BY <1>1, <1>2, <1>5, <2>1, <2>2, <2>3 DEF Running, Sent, keep
<1>8. QED
  BY <1>1, <1>6, <1>7

(* The step that keeps two users out of one session. *)
LEMMA ResendKeeps ==
    ASSUME TypeOK, Running, Pairs, Logged, ResendVisit("growing")
    PROVE  Running' /\ Pairs' /\ Logged'
<1>1. /\ Growing # <<>> /\ Head(Growing).op = "latest" /\ UNCHANGED keep
      /\ \/ IsBlank(ses.user) /\ Then("growing", <<>>) /\ ses' = ses
         \/ /\ IsBlank(ses.latest) \/ ses.user = ses.latest
            /\ Then("growing", <<>>) /\ ses' = [ses EXCEPT !.latest = ses.user]
         \/ Then("growing", NewSession) /\ ses' = [ses EXCEPT !.latest = ses.user]
  BY DEF ResendVisit, At, Top, Growing, Set
<1>2. Tail(Growing) \in Seq(EventPost) /\ queue \in Seq(Block) /\ (ses.sent <=> Visited)
  BY <1>1, Shapes DEF Running, Logins
<1>3. OwnKey(ses.user, ses.key)
  BY <1>1 DEF Pairs, At, Top, Growing
<1>4. /\ ses'.id = ses.id /\ ses'.sent = ses.sent /\ ses'.user = ses.user /\ ses'.key = ses.key
      /\ \/ /\ Then("growing", <<>>)
            /\ IsBlank(ses'.user) \/ ses'.user = ses'.latest
            /\ IsBlank(ses.latest) \/ ses'.latest = ses.latest
         \/ Then("growing", NewSession) /\ ses'.latest = ses'.user
  <2>1. ses \in Ses
    BY SesFields
  <2>2. QED
    BY <1>1, <2>1 DEF Ses
<1>5. log' = log /\ (Visited' <=> Visited)
  BY <1>1, <1>4, VisitedKept DEF keep
<1>6. CASE /\ Then("growing", <<>>)
           /\ IsBlank(ses'.user) \/ ses'.user = ses'.latest
           /\ IsBlank(ses.latest) \/ ses'.latest = ses.latest
  <2>1. Growing' = Tail(Growing) /\ Main' = Main
    BY <1>1, <1>6, Popped
  <2>2. Single(Growing)' /\ Calm'
    BY <1>2, <2>1, PostsRun
  <2>3. Pairs'
    BY <1>3, <1>4, <1>6, <2>2 DEF Pairs, Calm, At, Top, Growing
  <2>4. \A i \in DOMAIN log :
           log[i].id # ses.id \/ IsBlank(log[i].user) \/ log[i].user = ses'.latest
    <3>1. \A i \in DOMAIN log :
             log[i].id # ses.id \/ IsBlank(log[i].user) \/ log[i].user = ses.latest
      BY <1>1 DEF Logged
    <3>2. QED
      BY <1>6, <3>1
  <2>5. Logged'
    BY <1>4, <1>5, <2>4 DEF Logged
  <2>6. QED
    BY <1>1, <1>2, <1>4, <1>5, <2>1, <2>2, <2>3, <2>5 DEF Running, Sent, keep
<1>7. CASE Then("growing", NewSession) /\ ses'.latest = ses'.user
  <2>1. /\ AtRefresh(Growing)' /\ Main' = Main /\ Calm'
        /\ Growing' # <<>> /\ Head(Growing').op = "refresh"
    BY <1>1, <1>2, <1>7, Renewed
  <2>2. Pairs'
    BY <1>3, <1>4, <1>7, <2>1 DEF Pairs, Calm, At, Top, Growing
  <2>3. Logged'
    BY <1>4, <1>5, <2>1 DEF Logged
  <2>4. QED
    BY <1>1, <1>2, <2>1, <2>2, <2>3 DEF Running, Sent, keep
<1>8. QED
  BY <1>4, <1>6, <1>7

LEMMA BlocksKeep ==
    ASSUME TypeOK, Running, Pairs, Logged,
           \/ BecomeActive \/ PutAside \/ GenerateAppReengage \/ PostBuilders
           \/ \E b \in BOOLEAN : SetEnabled(b)
    PROVE  Running' /\ Pairs' /\ Logged'
<1> DEFINE o == Head(Growing).op
           fs == [i \in 1..builders |-> Post("REENGAGE")]
<1>1. /\ Growing # <<>> /\ o \in {"become", "resign", "background", "reengage",
                                  "postBuilders", "enable", "disable"}
  BY DEF BecomeActive, PutAside, GenerateAppReengage, PostBuilders, SetEnabled, At, Top, Growing
<1>2. ~InMiddle /\ o # "refresh"
  BY <1>1 DEF InMiddle
<1>3. Tail(Growing) \in Seq(EventPost) /\ queue \in Seq(Block) /\ (ses.sent <=> Visited)
  BY <1>1, Shapes DEF Running
<1>4. /\ ses'.id = ses.id /\ ses'.sent = ses.sent /\ ses'.user = ses.user
      /\ ses'.key = ses.key /\ ses'.latest = ses.latest
  <2>1. ses \in Ses
    BY SesFields
  <2>2. \/ ses' = ses \/ ses' = [ses EXCEPT !.state = "active"]
        \/ ses' = [ses EXCEPT !.state = "inactive", !.away = TRUE]
        \/ ses' = [ses EXCEPT !.state = "background", !.away = TRUE]
    BY DEF BecomeActive, PutAside, GenerateAppReengage, PostBuilders, SetEnabled, Set
  <2>3. QED
    BY <2>1, <2>2 DEF Ses
<1>5. log' = log /\ channels' = channels /\ queue' = queue
  BY DEF BecomeActive, PutAside, GenerateAppReengage, PostBuilders, SetEnabled, keep
<1>6. \/ Then("growing", <<>>) \/ Then("growing", NewSession) \/ Then("growing", fs)
      \/ Then("growing", <<Post("APP_CLOSED")>>) \/ Then("growing", <<Post("REENGAGE")>>)
  BY DEF BecomeActive, PutAside, GenerateAppReengage, PostBuilders, SetEnabled
<1>7. \A t \in {"APP_CLOSED", "REENGAGE"} : Post(t) \in EventPost
  <2>1. \A t \in {"APP_CLOSED", "REENGAGE"} : Post(t) \in Frame
    BY FrameTypes DEF Type
  <2>2. \A t \in {"APP_CLOSED", "REENGAGE"} : Post(t).op = "post" /\ Post(t).type = t
    BY DEF Post, Do
  <2>3. QED
    BY <2>1, <2>2 DEF EventPost
<1>8. CASE Then("growing", NewSession)
  <2>1. /\ AtRefresh(Growing)' /\ Main' = Main /\ Calm'
        /\ Growing' # <<>> /\ Head(Growing').op = "refresh"
    BY <1>1, <1>3, <1>8, Renewed
  <2>2. Running'
    BY <1>3, <1>5, <2>1 DEF Running, Sent
  <2>3. QED
    BY <1>1, <1>2, <1>4, <1>5, <2>1, <2>2, PairsKept, LoggedKept
<1>9. ASSUME NEW gs \in Seq(EventPost), Then("growing", gs)
      PROVE  Running' /\ Pairs' /\ Logged'
  <2>1. Growing' = gs \o Tail(Growing) /\ Main' = Main
    BY <1>9, ThenGrowing
  <2>2. Growing' \in Seq(EventPost)
    BY <1>3, <2>1
  <2>3. Single(Growing)' /\ Calm'
    BY <2>2, PostsRun
  <2>4. QED
    BY <1>2, <1>3, <1>4, <1>5, <2>1, <2>3, PlainStep
<1>10. fs \in Seq(EventPost)
  <2>1. fs \in [1..builders -> EventPost] /\ builders \in Nat
    BY <1>7 DEF TypeOK
  <2>2. QED
    BY <2>1, SeqDef
<1>11. /\ <<>> \in Seq(EventPost) /\ <<Post("APP_CLOSED")>> \in Seq(EventPost)
       /\ <<Post("REENGAGE")>> \in Seq(EventPost)
  BY <1>7
<1> HIDE DEF fs
<1>12. QED
  BY <1>6, <1>8, <1>9, <1>10, <1>11

LEMMA TakeKeeps ==
    ASSUME TypeOK, Running, Pairs, Logged, TakeBlock
    PROVE  Running' /\ Pairs' /\ Logged'
<1>1. /\ Growing = <<>> /\ queue # <<>> /\ queue' = Tail(queue)
      /\ Growing' = <<Head(queue)>> /\ Main' = Main
      /\ UNCHANGED <<ses, enabled, channels, builders, log, env>>
  BY DEF TakeBlock, Growing, Main, TypeOK, Thread
<1>2. Head(queue) \in Block /\ Tail(queue) \in Seq(Block)
  BY <1>1 DEF Running
<1>3. Growing' # <<>> /\ Head(Growing') = Head(queue) /\ Tail(Growing') = <<>>
  BY <1>1
<1>4. Single(Growing)'
  <2>1. <<>> \in Seq(EventPost)
    OBVIOUS
  <2>2. QED
    BY <1>2, <1>3, <2>1 DEF Single
<1>5. ses.sent <=> Visited
  BY <1>1 DEF Running, Sent, AtRefresh, AtUnsent, AtVisit, AtVISIT, Begins
<1>6. Pairs'
  BY <1>1, <1>2, <1>3 DEF Pairs, Block, At, Top, Growing
<1>7. Logged' /\ (Visited' <=> Visited)
  BY <1>1, LoggedKept, VisitedKept
<1>8. QED
  BY <1>1, <1>2, <1>4, <1>5, <1>6, <1>7 DEF Running, Sent

-----------------------------------------------------------------------------
(* Calls, and the start of the tracker *)

LEMMA QueueGrows ==
    ASSUME NEW q \in Seq(Frame), NEW fs \in Seq(Frame), q # <<>>
    PROVE  /\ q \o fs # <<>> /\ Head(q \o fs) = Head(q)
           /\ Tail(q \o fs) = Tail(q) \o fs
<1>1. q \o fs # <<>> /\ Head(q \o fs) = Head(q)
  OBVIOUS
<1>2. Tail(q \o fs) = Tail(q) \o fs
  OBVIOUS
<1>3. QED
  BY <1>1, <1>2

LEMMA BlocksFollow ==
    ASSUME NEW q \in Seq(Block), NEW fs \in Seq(Block)
    PROVE  q \o fs \in Seq(Block)
OBVIOUS

LEMMA AppendToOne ==
    ASSUME NEW S, NEW a \in S, NEW b \in S
    PROVE  /\ Append(<<a>>, b) # <<>> /\ Head(Append(<<a>>, b)) = a
           /\ Tail(Append(<<a>>, b)) = <<b>>
<1>1. <<a>> \in Seq(S) /\ Append(<<a>>, b) = <<a>> \o <<b>>
  OBVIOUS
<1>2. <<b>> \in Seq(S)
  OBVIOUS
<1>3. /\ <<a>> \o <<b>> # <<>> /\ Head(<<a>> \o <<b>>) = a
      /\ Tail(<<a>> \o <<b>>) = <<b>>
  BY <1>2, Front
<1>4. QED
  BY <1>1, <1>3

LEMMA BlocksAreFrames == Seq(Block) \subseteq Seq(Frame)
<1>1. Block \subseteq Frame
  BY DEF Block
<1>2. QED
  BY <1>1

(* The session, the log and the stacks are as they were. *)
LEMMA SameLog ==
    ASSUME Pairs, Logged, UNCHANGED <<ses, log, stack>>
    PROVE  Pairs' /\ Logged'
BY DEF Pairs, Logged, At, Top, Growing

LEMMA CallKeeps ==
    ASSUME TypeOK, Ordered, NEW fs \in Seq(Block), Call(fs)
    PROVE  Ordered'
<1>1. /\ Main = <<>> /\ queue' = queue \o fs
      /\ UNCHANGED <<ses, enabled, channels, builders, stack, log, races>>
      /\ Growing' = Growing /\ Main' = Main
  BY DEF Call, Started, Queue, Main, Growing
<1>2. Pairs' /\ Logged'
  BY <1>1, SameLog DEF Ordered
<1>3. queue \in Seq(Frame) /\ fs \in Seq(Frame)
  BY BlocksAreFrames DEF TypeOK
<1>4. CASE Running
  <2>1. queue' \in Seq(Block)
    BY <1>1, <1>4 DEF Running
  <2>2. Sent'
    BY <1>1, <1>4 DEF Running, Sent, Single, AtRefresh, AtUnsent, AtVisit, AtVISIT, Below, Visited
  <2>3. QED
    BY <1>1, <1>2, <1>4, <2>1, <2>2 DEF Running, Ordered
<1>5. CASE log = <<>> /\ VisitQueued
  <2>1. queue # <<>>
    BY <1>5 DEF VisitQueued, Begins
  <2>2. queue' # <<>> /\ Head(queue') = Head(queue) /\ Tail(queue') = Tail(queue) \o fs
    BY <1>1, <1>3, <2>1, QueueGrows
  <2>3. CASE Tail(queue) \in Seq(Block)
    BY <1>1, <1>2, <1>5, <2>2, <2>3 DEF VisitQueued, Starting, Ordered, Begins
  <2>4. CASE Tail(queue) # <<>> /\ Tail(Tail(queue)) \in Seq(Block)
    <3>1. Tail(queue) \in Seq(Frame)
      BY <1>3, <2>1
    <3>2. /\ Tail(queue') # <<>> /\ Head(Tail(queue')) = Head(Tail(queue))
          /\ Tail(Tail(queue')) = Tail(Tail(queue)) \o fs
      BY <1>3, <2>2, <2>4, <3>1, QueueGrows
    <3>3. Tail(Tail(queue')) \in Seq(Block)
      BY <2>4, <3>2, BlocksFollow
    <3>4. QED
      BY <1>1, <1>2, <1>5, <2>2, <2>3, <3>2, <3>3 DEF VisitQueued, Starting, Ordered, Begins
  <2>5. QED
    BY <1>5, <2>3, <2>4 DEF VisitQueued, Begins
<1>6. CASE log = <<>> /\ NoVisit
  <2>1. CASE queue \in Seq(Block) /\ Growing = <<Do("create")>>
    <3>1. queue' \in Seq(Block)
      BY <1>1, <2>1
    <3>2. QED
      BY <1>1, <1>2, <1>6, <2>1, <3>1 DEF NoVisit, Starting, Ordered
  <2>2. CASE Growing = <<>> /\ Begins(queue, Do("create")) /\ Tail(queue) \in Seq(Block)
    <3>1. queue' # <<>> /\ Head(queue') = Head(queue) /\ Tail(queue') = Tail(queue) \o fs
      BY <1>1, <1>3, <2>2, QueueGrows DEF Begins
    <3>2. Tail(queue') \in Seq(Block)
      BY <2>2, <3>1, BlocksFollow
    <3>3. QED
      BY <1>1, <1>2, <1>6, <2>2, <3>1, <3>2 DEF NoVisit, Starting, Ordered, Begins
  <2>3. QED
    BY <1>6, <2>1, <2>2 DEF NoVisit
<1>7. ~Configuring /\ ~Visiting
  <2>1. StartUp # <<>> /\ <<Do("visit")>> # <<>> /\ <<Do("dispatchVisit")>> # <<>>
    BY DEF StartUp
  <2>2. QED
    BY <1>1, <2>1 DEF Configuring, Visiting
<1>8. QED
  BY <1>4, <1>5, <1>6, <1>7 DEF Ordered, Starting

LEMMA CallsKeep ==
    ASSUME TypeOK, Ordered, Track \/ LoginUser \/ OtherCall \/ LifeCycle
    PROVE  Ordered'
<1>1. \A f \in Block : <<f>> \in Seq(Block)
  OBVIOUS
<1>2. CASE Track
  <2>1. Post("CUSTOM") \in Frame /\ Post("CUSTOM").op = "post" /\ Post("CUSTOM").type = "CUSTOM"
    BY FrameTypes DEF Post, Do, Type
  <2>2. Post("CUSTOM") \in Block
    BY <2>1 DEF Block
  <2>3. QED
    BY <1>1, <1>2, <2>2, CallKeeps DEF Track
<1>3. CASE LoginUser
  <2>1. PICK u \in UserId, k \in UserKey : OwnKey(u, k) /\ Call(<<Login(u, k)>>)
    BY <1>3 DEF LoginUser, UserId, UserKey, OwnKey
  <2>2. Login(u, k) \in Frame
    BY FrameTypes
  <2>3. Login(u, k).op = "login" /\ Login(u, k).user = u /\ Login(u, k).key = k
    BY DEF Login, Do
  <2>4. Login(u, k) \in Block
    BY <2>1, <2>2, <2>3 DEF Block
  <2>5. QED
    BY <1>1, <2>1, <2>4, CallKeeps
<1>4. \A op \in {"become", "resign", "background", "reengage", "postBuilders",
                 "enable", "disable"} : Do(op) \in Block
  <2>1. SUFFICES ASSUME NEW op \in {"become", "resign", "background", "reengage",
                                    "postBuilders", "enable", "disable"}
                 PROVE  Do(op) \in Block
    OBVIOUS
  <2>2. Do(op) \in Frame
    BY FrameTypes DEF Op
  <2>3. Do(op).op = op
    BY DEF Do
  <2>4. QED
    BY <2>2, <2>3 DEF Block
<1>5. CASE OtherCall
  <2>1. PICK op \in {"enable", "disable", "reengage"} : Call(<<Do(op)>>)
    BY <1>5 DEF OtherCall
  <2>2. QED
    BY <1>1, <1>4, <2>1, CallKeeps
<1>6. CASE LifeCycle
  <2>1. /\ <<Do("become"), Do("postBuilders")>> \in Seq(Block)
        /\ <<Do("resign")>> \in Seq(Block) /\ <<Do("background")>> \in Seq(Block)
    BY <1>4
  <2>2. QED
    BY <1>6, <2>1, CallKeeps DEF LifeCycle
<1>7. QED
  BY <1>2, <1>3, <1>5, <1>6

LEMMA ThenMain ==
    ASSUME TypeOK, NEW fs, Then("main", fs)
    PROVE  Main' = fs \o Tail(Main) /\ Growing' = Growing
BY DEF TypeOK, Then, Thread, Growing, Main

(* The main thread makes the first VISIT, and nothing else. *)
LEMMA MainKeeps ==
    ASSUME TypeOK, Ordered, OnEitherThread("main")
    PROVE  Ordered'
<1>1. /\ Main # <<>>
      /\ Head(Main).op \in {"visit", "dispatchVisit", "refresh", "unsent", "login"} \cup Logins
  BY DEF OnEitherThread, GenerateVisit, GenerateVisitEvent, RefreshSessionId, SetLoginUserId,
         UserIdDidChanged, ResendVisit, At, Top, Main, Logins
<1>2. /\ Head(StartUp).op = "config" /\ Do("visit").op = "visit"
      /\ Do("dispatchVisit").op = "dispatchVisit"
  BY DEF StartUp, Do
<1>3. log = <<>> /\ Visiting
  BY <1>1, <1>2 DEF Ordered, Starting, Configuring, VisitQueued, NoVisit, Running, Logins
<1>4. ses \in Ses
  BY SesFields
<1>5. \/ Growing = <<>> \/ Growing = <<Do("create")>>
  BY <1>3 DEF Visiting
<1>6. ~InMiddle /\ ~(Growing # <<>> /\ Head(Growing).op = "refresh") /\ Calm
  BY <1>5 DEF InMiddle, Calm, Do
<1>7. CASE Main = <<Do("visit")>>
  <2>1. Head(Main).op = "visit" /\ Tail(Main) = <<>> /\ ~ses.sent
    BY <1>2, <1>3, <1>7 DEF Visiting, Do
  <2>2. GenerateVisit("main")
    BY <2>1 DEF OnEitherThread, GenerateVisit, GenerateVisitEvent, RefreshSessionId,
               SetLoginUserId, UserIdDidChanged, ResendVisit, At, Top, Main
  <2>3. CASE enabled
    <3>1. /\ ses' = [ses EXCEPT !.sent = TRUE] /\ UNCHANGED keep
          /\ Then("main", <<Do("dispatchVisit")>>)
      BY <2>2, <2>3 DEF GenerateVisit, Set
    <3>2. Main' = <<Do("dispatchVisit")>> /\ Growing' = Growing
      BY <2>1, <3>1, ThenMain
    <3>3. /\ ses'.sent = TRUE /\ ses'.id = ses.id /\ ses'.user = ses.user
          /\ ses'.key = ses.key /\ ses'.latest = ses.latest
      BY <1>4, <3>1 DEF Ses
    <3>4. log' = <<>> /\ Visiting'
      BY <1>3, <2>3, <3>1, <3>2, <3>3 DEF Visiting, keep
    <3>5. Calm'
      BY <1>6, <3>2 DEF Calm
    <3>6. QED
      BY <1>3, <1>6, <3>2, <3>3, <3>4, <3>5, PairsKept, LoggedKept DEF Ordered, Starting
  <2>4. CASE ~enabled
    <3>1. UNCHANGED <<ses, keep>> /\ Then("main", <<>>)
      BY <2>2, <2>4 DEF GenerateVisit
    <3>2. Main' = <<>> /\ Growing' = Growing
      BY <2>1, <3>1, ThenMain
    <3>3. Calm'
      BY <1>6, <3>2 DEF Calm
    <3>4. Pairs' /\ Logged' /\ log' = <<>>
      BY <1>3, <1>6, <3>1, <3>3, PairsKept, LoggedKept DEF Ordered, keep
    <3>5. CASE \/ queue = <<Do("create")>> /\ Growing = <<>>
               \/ queue = <<>> /\ Growing = <<Do("create")>>
      <4>1. <<>> \in Seq(Block) /\ Tail(<<Do("create")>>) = <<>> /\ <<Do("create")>> # <<>>
            /\ Head(<<Do("create")>>) = Do("create")
        OBVIOUS
      <4>2. NoVisit'
        BY <2>1, <3>1, <3>2, <3>5, <4>1 DEF NoVisit, Begins, keep
      <4>3. QED
        BY <3>4, <4>2 DEF Ordered, Starting
    <3>6. CASE queue = <<>> /\ Growing = <<>> /\ channels
      <4>1. <<>> \in Seq(Block)
        OBVIOUS
      <4>2. ~Visited'
        BY <3>4 DEF Visited
      <4>3. Running'
        BY <2>1, <3>1, <3>2, <3>6, <4>1, <4>2 DEF Running, Sent, Single, keep
      <4>4. QED
        BY <3>4, <4>3 DEF Ordered
    <3>7. QED
      BY <1>3, <3>5, <3>6 DEF Visiting
  <2>5. QED
    BY <2>3, <2>4
<1>8. CASE Main = <<Do("dispatchVisit")>>
  <2>1. /\ Head(Main).op = "dispatchVisit" /\ Tail(Main) = <<>> /\ ses.sent /\ enabled
    BY <1>2, <1>3, <1>8 DEF Visiting, Do
  <2>2. GenerateVisitEvent("main")
    BY <2>1 DEF OnEitherThread, GenerateVisit, GenerateVisitEvent, RefreshSessionId,
               SetLoginUserId, UserIdDidChanged, ResendVisit, At, Top, Main
  <2>3. /\ Then("main", <<>>) /\ queue' = Append(queue, Post("VISIT"))
        /\ UNCHANGED <<ses, enabled, channels, builders, log, env>>
    BY <2>2 DEF GenerateVisitEvent
  <2>4. Main' = <<>> /\ Growing' = Growing
    BY <2>1, <2>3, ThenMain
  <2>5. Calm'
    BY <1>6, <2>4 DEF Calm
  <2>6. Pairs' /\ Logged' /\ log' = <<>>
    BY <1>3, <1>6, <2>3, <2>5, PairsKept, LoggedKept DEF Ordered
  <2>7. CASE queue = <<Do("create")>> /\ Growing = <<>>
    <3>1. Do("create") \in Frame /\ Post("VISIT") \in Frame
      BY FrameTypes DEF Op, Type
    <3>2. /\ queue' # <<>> /\ Head(queue') = Do("create")
          /\ Tail(queue') = <<Post("VISIT")>>
      BY <2>3, <2>7, <3>1, AppendToOne
    <3>3. Tail(queue') # <<>> /\ Head(Tail(queue')) = Post("VISIT")
          /\ Tail(Tail(queue')) = <<>> /\ <<>> \in Seq(Block)
      <4>1. /\ <<Post("VISIT")>> # <<>> /\ Head(<<Post("VISIT")>>) = Post("VISIT")
            /\ Tail(<<Post("VISIT")>>) = <<>> /\ <<>> \in Seq(Block)
        OBVIOUS
      <4>2. QED
        BY <3>2, <4>1
    <3>4. VisitQueued'
      BY <2>1, <2>3, <2>4, <2>7, <3>2, <3>3 DEF VisitQueued, Begins
    <3>5. QED
      BY <2>6, <3>4 DEF Ordered, Starting
  <2>8. CASE queue = <<>> /\ (Growing = <<Do("create")>> \/ (Growing = <<>> /\ channels))
    <3>1. queue' = <<Post("VISIT")>>
      BY <2>3, <2>8
    <3>2. queue' # <<>> /\ Head(queue') = Post("VISIT") /\ Tail(queue') = <<>>
          /\ <<>> \in Seq(Block)
      BY <3>1
    <3>3. VisitQueued'
      BY <2>1, <2>3, <2>4, <2>8, <3>2 DEF VisitQueued, Begins
    <3>4. QED
      BY <2>6, <3>3 DEF Ordered, Starting
  <2>9. QED
    BY <1>3, <2>7, <2>8 DEF Visiting
<1>9. QED
  BY <1>3, <1>7, <1>8 DEF Visiting

LEMMA ConfigKeeps ==
    ASSUME TypeOK, Ordered, ConfigManager
    PROVE  Ordered'
<1>1. /\ Do("create").op = "create" /\ Do("config").op = "config" /\ Do("visit").op = "visit"
      /\ Do("dispatchVisit").op = "dispatchVisit"
  BY DEF Do
<1>2. UNCHANGED <<ses, enabled, builders, log, env>>
  BY DEF ConfigManager
<1>3. CASE At("main", "config")
  <2>1. Main # <<>> /\ Head(Main).op = "config"
    BY <1>3 DEF At, Top, Main
  <2>2. log = <<>> /\ Configuring
    BY <1>1, <2>1 DEF Ordered, Starting, Configuring, Visiting, VisitQueued, NoVisit, Running
  <2>3. /\ Then("main", <<>>) /\ queue' = Append(queue, Do("create")) /\ channels' = channels
    BY <2>2 DEF ConfigManager, Configuring, At, Growing
  <2>4. Tail(Main) = <<Do("visit")>>
    <3>1. Main = <<Do("config"), Do("visit")>>
      BY <2>2 DEF Configuring, StartUp
    <3>2. QED
      BY <3>1
  <2>5. Main' = <<Do("visit")>> /\ Growing' = <<>>
    <3>1. <<>> \o <<Do("visit")>> = <<Do("visit")>>
      OBVIOUS
    <3>2. QED
      BY <2>2, <2>3, <2>4, <3>1, ThenMain DEF Configuring
  <2>6. queue' = <<Do("create")>>
    BY <2>2, <2>3 DEF Configuring
  <2>7. Visiting'
    BY <1>2, <2>2, <2>5, <2>6 DEF Visiting, Configuring
  <2>8. ~InMiddle /\ ~(Growing # <<>> /\ Head(Growing).op = "refresh") /\ Calm'
    BY <2>2, <2>5 DEF InMiddle, Calm, Configuring
  <2>9. QED
    BY <1>2, <2>2, <2>7, <2>8, PairsKept, LoggedKept DEF Ordered, Starting
<1>4. CASE At("growing", "create")
  <2>1. Growing # <<>> /\ Head(Growing).op = "create"
    BY <1>4 DEF At, Top, Growing
  <2>2. ~Running
    BY <2>1, Shapes DEF Running
  <2>3. /\ log = <<>> /\ Growing = <<Do("create")>>
        /\ \/ Visiting /\ queue = <<>>
           \/ /\ Main = <<>> /\ ses.sent /\ enabled
              /\ Begins(queue, Post("VISIT")) /\ Tail(queue) \in Seq(Block)
           \/ Main = <<>> /\ ~ses.sent /\ queue \in Seq(Block)
    BY <2>1, <2>2 DEF Ordered, Starting, Configuring, Visiting, VisitQueued, NoVisit
  <2>4. ~At("main", "config")
    BY <1>1, <2>3 DEF Visiting, At, Top, Main
  <2>5. Then("growing", <<>>) /\ channels' = TRUE /\ queue' = queue
    BY <2>4 DEF ConfigManager
  <2>6. Growing' = <<>> /\ Main' = Main
    <3>1. Tail(Growing) = <<>>
      BY <2>3
    <3>2. QED
      BY <2>1, <2>5, <3>1, Popped
  <2>7. ~InMiddle /\ ~(Growing # <<>> /\ Head(Growing).op = "refresh") /\ Calm'
    BY <2>1, <2>6 DEF InMiddle, Calm
  <2>8. Pairs' /\ Logged' /\ log' = <<>>
    BY <1>2, <2>3, <2>7, PairsKept, LoggedKept DEF Ordered
  <2>9. CASE Visiting /\ queue = <<>>
    <3>1. Visiting'
      BY <1>2, <2>5, <2>6, <2>9 DEF Visiting
    <3>2. QED
      BY <2>8, <3>1 DEF Ordered, Starting
  <2>10. CASE /\ Main = <<>> /\ ses.sent /\ enabled
              /\ Begins(queue, Post("VISIT")) /\ Tail(queue) \in Seq(Block)
    <3>1. VisitQueued'
      BY <1>2, <2>5, <2>6, <2>10 DEF VisitQueued, Begins
    <3>2. QED
      BY <2>8, <3>1 DEF Ordered, Starting
  <2>11. CASE Main = <<>> /\ ~ses.sent /\ queue \in Seq(Block)
    <3>1. ~Visited'
      BY <2>8 DEF Visited
    <3>2. Running'
      BY <1>2, <2>5, <2>6, <2>11, <3>1 DEF Running, Sent, Single
    <3>3. QED
      BY <2>8, <3>2 DEF Ordered
  <2>12. QED
    BY <2>3, <2>9, <2>10, <2>11
<1>5. QED
  BY <1>3, <1>4 DEF ConfigManager

(* The first block creates the channels, and the next makes the VISIT. *)
LEMMA StartTakes ==
    ASSUME TypeOK, Starting, Pairs, Logged, TakeBlock
    PROVE  Ordered'
<1>1. /\ Growing = <<>> /\ queue # <<>> /\ queue' = Tail(queue)
      /\ Growing' = <<Head(queue)>> /\ Main' = Main
      /\ UNCHANGED <<ses, enabled, channels, builders, log, env>>
  BY DEF TakeBlock, Growing, Main, TypeOK, Thread
<1>2. Do("create").op = "create" /\ Post("VISIT").op = "post" /\ Post("VISIT").type = "VISIT"
  BY DEF Do, Post
<1>3. Head(queue) \in {Do("create"), Post("VISIT")}
  <2>1. Head(<<Do("create")>>) = Do("create")
    OBVIOUS
  <2>2. QED
    BY <1>1, <2>1 DEF Starting, Configuring, Visiting, VisitQueued, NoVisit, Begins
<1>4. Growing' # <<>> /\ Head(Growing') = Head(queue) /\ Tail(Growing') = <<>>
  BY <1>1
<1>5. ~InMiddle /\ ~(Growing # <<>> /\ Head(Growing).op = "refresh") /\ Calm'
  BY <1>1, <1>2, <1>3, <1>4 DEF InMiddle, Calm
<1>6. Pairs' /\ Logged' /\ log' = <<>>
  BY <1>1, <1>5, PairsKept, LoggedKept DEF Starting
<1>7. CASE Visiting
  <2>1. queue = <<Do("create")>>
    BY <1>1, <1>7 DEF Visiting
  <2>2. Head(queue) = Do("create") /\ Tail(queue) = <<>>
    BY <2>1
  <2>3. Visiting'
    BY <1>1, <1>7, <2>2 DEF Visiting
  <2>4. QED
    BY <1>6, <2>3 DEF Ordered, Starting
<1>8. CASE VisitQueued /\ Head(queue) = Do("create")
  <2>1. Begins(Tail(queue), Post("VISIT")) /\ Tail(Tail(queue)) \in Seq(Block)
    BY <1>1, <1>2, <1>8 DEF VisitQueued, Begins
  <2>2. VisitQueued'
    BY <1>1, <1>8, <2>1 DEF VisitQueued, Begins
  <2>3. QED
    BY <1>6, <2>2 DEF Ordered, Starting
<1>9. CASE VisitQueued /\ Head(queue) = Post("VISIT")
  <2>1. channels /\ Tail(queue) \in Seq(Block) /\ Main = <<>> /\ ses.sent /\ enabled
    BY <1>1, <1>2, <1>9 DEF VisitQueued, Begins
  <2>2. ~Visited'
    BY <1>6 DEF Visited
  <2>3. AtVISIT(Growing)'
    <3>1. <<>> \in Seq(EventPost)
      OBVIOUS
    <3>2. QED
      BY <1>2, <1>4, <1>9, <3>1 DEF AtVISIT, Below
  <2>4. Running'
    BY <1>1, <2>1, <2>2, <2>3 DEF Running, Sent
  <2>5. QED
    BY <1>6, <2>4 DEF Ordered
<1>10. CASE NoVisit
  <2>1. Head(queue) = Do("create") /\ Tail(queue) \in Seq(Block)
    BY <1>1, <1>10 DEF NoVisit, Begins
  <2>2. NoVisit'
    BY <1>1, <1>10, <2>1 DEF NoVisit
  <2>3. QED
    BY <1>6, <2>2 DEF Ordered, Starting
<1>11. ~Configuring
  BY <1>1 DEF Configuring
<1>12. QED
  BY <1>3, <1>7, <1>8, <1>9, <1>10, <1>11 DEF Starting

-----------------------------------------------------------------------------
(* The invariant, and what it implies *)

(* While the tracker starts, GrowingThread only creates the channels. *)
LEMMA WorkIsRunning ==
    ASSUME Ordered, Growing # <<>>, Head(Growing).op # "create"
    PROVE  Running
BY DEF Ordered, Starting, Configuring, Visiting, VisitQueued, NoVisit, Do

LEMMA GrowingKeeps ==
    ASSUME TypeOK, Ordered,
           \/ OnEitherThread("growing") \/ PostEventBuilder \/ ReadProperty \/ WriteEvent
           \/ BecomeActive \/ PutAside \/ GenerateAppReengage \/ PostBuilders
           \/ \E b \in BOOLEAN : SetEnabled(b)
    PROVE  Ordered'
<1>1. Growing # <<>> /\ Head(Growing).op # "create"
  BY DEF OnEitherThread, RefreshSessionId, GenerateVisit, GenerateVisitEvent, SetLoginUserId,
         UserIdDidChanged, ResendVisit, PostEventBuilder, ReadProperty, WriteEvent,
         BecomeActive, PutAside, GenerateAppReengage, PostBuilders, SetEnabled, At, Top, Growing
<1>2. Running /\ Pairs /\ Logged
  BY <1>1, WorkIsRunning DEF Ordered
<1>3. Running' /\ Pairs' /\ Logged'
  BY <1>2, RefreshKeeps, VisitKeeps, LoginKeeps, UserChangedKeeps, ResendKeeps,
     PostKeeps, ReadKeeps, WriteKeeps, BlocksKeep DEF OnEitherThread
<1>4. QED
  BY <1>3 DEF Ordered

LEMMA NoRace ==
    ASSUME TypeOK, [Next]_vars, races' = 0
    PROVE  races = 0 /\ ~EarlyTrack /\ ~HandleJavascriptBridgeMessage
<1>1. races \in Nat
  BY DEF TypeOK
<1>2. ~EarlyTrack /\ ~HandleJavascriptBridgeMessage
  BY <1>1 DEF EarlyTrack, HandleJavascriptBridgeMessage, Race
<1>3. races' = races
  <2>1. CASE \/ BecomeActive \/ PutAside \/ GenerateAppReengage \/ PostBuilders
             \/ \E b \in BOOLEAN : SetEnabled(b)
    BY <2>1 DEF BecomeActive, PutAside, GenerateAppReengage, PostBuilders, SetEnabled, keep, env
  <2>2. CASE \E t \in Thread : OnEitherThread(t)
    BY <2>2 DEF OnEitherThread, RefreshSessionId, GenerateVisit, GenerateVisitEvent,
                SetLoginUserId, UserIdDidChanged, ResendVisit, keep, env
  <2>3. CASE PostEventBuilder \/ ReadProperty \/ WriteEvent \/ TakeBlock \/ ConfigManager
    BY <2>3 DEF PostEventBuilder, ReadProperty, WriteEvent, TakeBlock, ConfigManager, keep, env
  <2>4. CASE Track \/ LoginUser \/ OtherCall \/ LifeCycle
    BY <2>4 DEF Track, LoginUser, OtherCall, LifeCycle, Call
  <2>5. CASE UNCHANGED vars
    BY <2>5 DEF vars, keep, env
  <2>6. QED
    BY <1>2, <2>1, <2>2, <2>3, <2>4, <2>5 DEF Next
<1>4. QED
  BY <1>2, <1>3

(* OrderInv is an inductive invariant of the session. *)
THEOREM OrderIsKept == Spec => []OrderInv
<1>1. Init => OrderInv
  <2> SUFFICES ASSUME Init PROVE OrderInv
    OBVIOUS
  <2>1. TypeOK
    BY InitType
  <2>2. Main = StartUp /\ Growing = <<>>
    BY DEF Init, Thread, Main, Growing
  <2>3. Starting
    BY <2>2 DEF Init, Starting, Configuring
  <2>4. Pairs
    BY <2>2 DEF Init, Pairs, OwnKey, At, Growing
  <2>5. Logged
    BY DEF Init, Logged
  <2>6. QED
    BY <2>1, <2>3, <2>4, <2>5 DEF OrderInv, Ordered
<1>2. OrderInv /\ [Next]_vars => OrderInv'
  <2> SUFFICES ASSUME OrderInv, [Next]_vars PROVE OrderInv'
    OBVIOUS
  <2>1. TypeOK /\ TypeOK'
    BY NextType DEF OrderInv
  <2> SUFFICES ASSUME races' = 0 PROVE Ordered'
    BY <2>1 DEF OrderInv
  <2>2. Ordered /\ ~EarlyTrack /\ ~HandleJavascriptBridgeMessage
    BY <2>1, NoRace DEF OrderInv
  <2>3. CASE UNCHANGED vars
    BY <2>2, <2>3 DEF vars, keep, env, Ordered, Starting, Configuring, Visiting, VisitQueued,
       NoVisit, Running, Sent, Single, AtRefresh, AtUnsent, AtVisit, AtVISIT, Below, Visited,
       Pairs, Logged, At, Top, Growing, Main
  <2>4. CASE OnEitherThread("main")
    BY <2>1, <2>2, <2>4, MainKeeps
  <2>5. CASE \/ OnEitherThread("growing") \/ PostEventBuilder \/ ReadProperty \/ WriteEvent
             \/ BecomeActive \/ PutAside \/ GenerateAppReengage \/ PostBuilders
             \/ \E b \in BOOLEAN : SetEnabled(b)
    BY <2>1, <2>2, <2>5, GrowingKeeps
  <2>6. CASE TakeBlock
    BY <2>1, <2>2, <2>6, TakeKeeps, StartTakes DEF Ordered
  <2>7. CASE ConfigManager
    BY <2>1, <2>2, <2>7, ConfigKeeps
  <2>8. CASE Track \/ LoginUser \/ OtherCall \/ LifeCycle
    BY <2>1, <2>2, <2>8, CallsKeep
  <2>9. QED
    BY <2>2, <2>3, <2>4, <2>5, <2>6, <2>7, <2>8 DEF Next, Thread
<1>3. QED
  BY <1>1, <1>2, PTL DEF Spec

(* The first event of every session is its VISIT. *)
THEOREM VisitComesFirst == Spec => []VisitFirst
<1>1. OrderInv => VisitFirst
  BY DEF OrderInv, Ordered, Logged, VisitFirst
<1>2. QED
  BY <1>1, OrderIsKept, PTL

(* And no session has a second one. *)
THEOREM VisitComesOnce == Spec => []OneVisitPerSession
<1>1. OrderInv => OneVisitPerSession
  BY DEF OrderInv, Ordered, Logged, OneVisitPerSession
<1>2. QED
  BY <1>1, OrderIsKept, PTL

(* The events of a session belong to one user. *)
THEOREM UserKeepsSession == Spec => []OneUserPerSession
<1>1. OrderInv => OneUserPerSession
  BY DEF OrderInv, Ordered, Logged, OneUserPerSession
<1>2. QED
  BY <1>1, OrderIsKept, PTL

(* The key of an event belongs to the user of the event. *)
THEOREM KeyFollowsUser == Spec => []KeyOfUser
<1>1. OrderInv => KeyOfUser
  BY DEF OrderInv, Ordered, Logged, KeyOfUser, OwnKey
<1>2. QED
  BY <1>1, OrderIsKept, PTL

-----------------------------------------------------------------------------
(***************************************************************************)
(* At rest the current session has its VISIT, whatever races.  A session   *)
(* begins with the id, and the thread that writes it still has generate-   *)
(* Visit to do (Laid).  From then on the VISIT is owed by one of the       *)
(* threads or by the queue (Owing), behind the creation of the channels    *)
(* (ChannelsFirst), so it is not dropped unless data collection is off;    *)
(* and turning it on begins a session.                                     *)
(***************************************************************************)
PostOp == {"post", "readUser", "readId", "readKey", "visit", "dispatchVisit"}

Early(s) == \A i \in DOMAIN s : s[i].op \in PostOp

Laid(s) ==
    \A i \in DOMAIN s : s[i].op \in {"refresh", "unsent"} =>
        \E j \in DOMAIN s : i < j /\ s[j].op = "visit"

(* A block that waits is not the second or third step of a new session. *)
Whole(s) == \A i \in DOMAIN s : s[i].op \notin {"refresh", "unsent"}

(* A frame that leads to the VISIT of session n. *)
OwesTo(f, n) ==
    \/ f.op \in {"visit", "dispatchVisit"}
    \/ f.type = "VISIT" /\ f.op \in {"post", "readUser", "readId"}
    \/ f.type = "VISIT" /\ f.op = "readKey" /\ f.id = n

HasVisit(s) == \E i \in DOMAIN s : s[i].op \in {"visit", "dispatchVisit"}

CreateBefore(n) == \E j \in 1 .. n - 1 : queue[j] = Do("create")

(* The channels are created before the queue reaches what waits behind. *)
Waits ==
    \E j \in DOMAIN queue :
        queue[j] = Do("create") /\ \A i \in 1 .. j - 1 : queue[i].op \in PostOp

ChannelsFirst ==
    \/ channels
    \/ Growing = <<Do("create")>>
    \/ /\ Early(Growing)
       /\ \/ Main = StartUp /\ Early(queue)
          \/ Waits

OwedByQueue ==
    \E i \in DOMAIN queue :
        /\ queue[i].op = "post" /\ queue[i].type = "VISIT"
        /\ channels \/ Growing = <<Do("create")>> \/ CreateBefore(i)

OwedByGrowing == channels /\ \E i \in DOMAIN Growing : OwesTo(Growing[i], ses.id)

Owing == enabled => Visited \/ HasVisit(Main) \/ OwedByGrowing \/ OwedByQueue

LaidInv ==
    /\ Laid(Main) /\ Laid(Growing) /\ Whole(queue)
    /\ Main = StartUp \/ \A i \in DOMAIN Main : Main[i].op # "config"

RestInv ==
    /\ TypeOK
    /\ LaidInv
    /\ ChannelsFirst
    /\ Owing

(* The frames of a stack whose top is replaced by fs. *)
LEMMA Stacked ==
    ASSUME NEW fs \in Seq(Frame), NEW s \in Seq(Frame), s # <<>>,
           NEW r, r = fs \o Tail(s)
    PROVE  /\ r \in Seq(Frame)
           /\ \A i \in DOMAIN fs : i \in DOMAIN r /\ r[i] = fs[i]
           /\ \A i \in DOMAIN s : i > 1 =>
                 /\ Len(fs) + i - 1 \in DOMAIN r /\ r[Len(fs) + i - 1] = s[i]
                 /\ Len(fs) + i - 1 \in Nat
           /\ \A i \in DOMAIN r :
                 \/ i \in DOMAIN fs /\ r[i] = fs[i]
                 \/ /\ i > Len(fs)
                    /\ i - Len(fs) + 1 \in DOMAIN s /\ i - Len(fs) + 1 > 1
                    /\ r[i] = s[i - Len(fs) + 1]
<1>1. /\ Tail(s) \in Seq(Frame) /\ Len(s) \in Nat \ {0} /\ Len(Tail(s)) = Len(s) - 1
      /\ \A i \in 1 .. Len(s) - 1 : Tail(s)[i] = s[i + 1]
  OBVIOUS
<1> DEFINE u == Tail(s)
<1> HIDE DEF u
<1>2. /\ u \in Seq(Frame) /\ Len(u) = Len(s) - 1 /\ r = fs \o u
      /\ \A i \in 1 .. Len(s) - 1 : u[i] = s[i + 1]
  BY <1>1 DEF u
<1>3. /\ r \in Seq(Frame) /\ Len(r) = Len(fs) + Len(u) /\ Len(fs) \in Nat
      /\ DOMAIN r = 1 .. Len(r) /\ DOMAIN fs = 1 .. Len(fs) /\ DOMAIN s = 1 .. Len(s)
      /\ \A i \in 1 .. Len(r) : r[i] = IF i <= Len(fs) THEN fs[i] ELSE u[i - Len(fs)]
  <2>1. fs \o u \in Seq(Frame) /\ Len(fs \o u) = Len(fs) + Len(u)
    BY <1>2, ConcatProperties
  <2>2. \A i \in 1 .. Len(fs) + Len(u) :
           (fs \o u)[i] = IF i <= Len(fs) THEN fs[i] ELSE u[i - Len(fs)]
    BY <1>2, ConcatProperties
  <2>3. r = fs \o u
    BY <1>2
  <2> HIDE DEF u
  <2>4. \A i \in 1 .. Len(r) : r[i] = IF i <= Len(fs) THEN fs[i] ELSE u[i - Len(fs)]
    BY <2>1, <2>2, <2>3, Zenon
  <2>5. r \in Seq(Frame) /\ Len(r) = Len(fs) + Len(u)
    BY <2>1, <2>3
  <2>6. DOMAIN r = 1 .. Len(r) /\ DOMAIN fs = 1 .. Len(fs) /\ DOMAIN s = 1 .. Len(s)
    BY <2>5
  <2>7. Len(fs) \in Nat
    OBVIOUS
  <2>8. QED
    BY <2>4, <2>5, <2>6, <2>7, Zenon
<1>4. \A i \in DOMAIN fs : i \in DOMAIN r /\ r[i] = fs[i]
  BY <1>1, <1>2, <1>3
<1>5. ASSUME NEW i \in DOMAIN s, i > 1
      PROVE  /\ Len(fs) + i - 1 \in DOMAIN r /\ r[Len(fs) + i - 1] = s[i]
             /\ Len(fs) + i - 1 \in Nat
  <2>1. /\ i - 1 \in 1 .. Len(s) - 1 /\ (i - 1) + 1 = i
        /\ Len(fs) + i - 1 \in 1 .. Len(r) /\ ~(Len(fs) + i - 1 <= Len(fs))
        /\ Len(fs) + i - 1 - Len(fs) = i - 1
    <3>1. /\ Len(s) \in Nat /\ Len(fs) \in Nat /\ Len(r) = Len(fs) + (Len(s) - 1)
          /\ i \in 1 .. Len(s) /\ i > 1
      BY <1>1, <1>2, <1>3, <1>5
    <3> DEFINE a == Len(s)
               b == Len(fs)
               c == Len(r)
    <3>2. a \in Nat /\ b \in Nat /\ c = b + (a - 1) /\ i \in 1 .. a /\ i > 1
      BY <3>1
    <3> HIDE DEF a, b, c
    <3>3. /\ i - 1 \in 1 .. a - 1 /\ (i - 1) + 1 = i
          /\ b + i - 1 \in 1 .. c /\ ~(b + i - 1 <= b)
          /\ b + i - 1 - b = i - 1
      BY <3>2
    <3>4. QED
      BY <3>3 DEF a, b, c
  <2>2. u[i - 1] = s[i]
    BY <1>2, <2>1
  <2>3. r[Len(fs) + i - 1] = u[Len(fs) + i - 1 - Len(fs)]
    BY <1>3, <2>1
  <2>4. QED
    BY <1>3, <2>1, <2>2, <2>3
<1>6. ASSUME NEW i \in DOMAIN r, i \notin DOMAIN fs
      PROVE  /\ i > Len(fs)
             /\ i - Len(fs) + 1 \in DOMAIN s /\ i - Len(fs) + 1 > 1
             /\ r[i] = s[i - Len(fs) + 1]
  <2>1. i \in 1 .. Len(r) /\ i > Len(fs) /\ i - Len(fs) \in 1 .. Len(s) - 1
    BY <1>1, <1>2, <1>3, <1>6
  <2>2. r[i] = u[i - Len(fs)] /\ u[i - Len(fs)] = s[i - Len(fs) + 1]
    BY <1>2, <1>3, <2>1
  <2>3. QED
    BY <1>1, <1>3, <2>1, <2>2
<1>7. QED
  BY <1>3, <1>4, <1>5, <1>6

LEMMA LaidThen ==
    ASSUME NEW fs \in Seq(Frame), NEW s \in Seq(Frame), s # <<>>, Laid(s), Laid(fs)
    PROVE  Laid(fs \o Tail(s))
<1> DEFINE r == fs \o Tail(s)
<1>1. /\ \A i \in DOMAIN fs : i \in DOMAIN r /\ r[i] = fs[i]
      /\ \A i \in DOMAIN s : i > 1 =>
            Len(fs) + i - 1 \in DOMAIN r /\ r[Len(fs) + i - 1] = s[i]
      /\ \A i \in DOMAIN r :
            \/ i \in DOMAIN fs /\ r[i] = fs[i]
            \/ /\ i > Len(fs)
               /\ i - Len(fs) + 1 \in DOMAIN s /\ i - Len(fs) + 1 > 1
               /\ r[i] = s[i - Len(fs) + 1]
      /\ r \in Seq(Frame)
  BY Stacked
<1> HIDE DEF r
<1>2. SUFFICES ASSUME NEW i \in DOMAIN r, r[i].op \in {"refresh", "unsent"}
               PROVE  \E j \in DOMAIN r : i < j /\ r[j].op = "visit"
  BY DEF Laid, r
<1>3. Len(fs) \in Nat /\ DOMAIN s \subseteq Nat /\ DOMAIN r \subseteq Nat
  BY <1>1
<1>4. CASE i \in DOMAIN fs /\ r[i] = fs[i]
  <2>1. PICK j \in DOMAIN fs : i < j /\ fs[j].op = "visit"
    BY <1>2, <1>4 DEF Laid
  <2>2. QED
    BY <1>1, <2>1
<1>5. CASE /\ i > Len(fs)
           /\ i - Len(fs) + 1 \in DOMAIN s /\ i - Len(fs) + 1 > 1
           /\ r[i] = s[i - Len(fs) + 1]
  <2>1. PICK j \in DOMAIN s : i - Len(fs) + 1 < j /\ s[j].op = "visit"
    BY <1>2, <1>5 DEF Laid
  <2>2. j > 1 /\ i < Len(fs) + j - 1
    BY <1>3, <1>5, <2>1
  <2>3. QED
    BY <1>1, <2>1, <2>2
<1>6. QED
  BY <1>1, <1>4, <1>5

LEMMA EarlyThen ==
    ASSUME NEW fs \in Seq(Frame), NEW s \in Seq(Frame), s # <<>>, Early(s), Early(fs)
    PROVE  Early(fs \o Tail(s))
<1> DEFINE r == fs \o Tail(s)
<1>1. \A i \in DOMAIN r :
         \/ i \in DOMAIN fs /\ r[i] = fs[i]
         \/ i - Len(fs) + 1 \in DOMAIN s /\ r[i] = s[i - Len(fs) + 1]
  BY Stacked
<1> HIDE DEF r
<1>2. Early(r)
  BY <1>1 DEF Early
<1>3. QED
  BY <1>2 DEF r

(* What a frame with the given op may leave to do. *)
Leaves(op, fs) ==
    /\ fs \in Seq(Frame) /\ Laid(fs)
    /\ op \in PostOp => Early(fs)
    /\ \A i \in DOMAIN fs : fs[i].op # "config"

LEMMA LeavesOne ==
    ASSUME NEW f \in Frame, f.op \notin {"refresh", "unsent", "config"}, NEW op,
           op \in PostOp => f.op \in PostOp
    PROVE  Leaves(op, <<f>>)
BY SeqOfOne DEF Leaves, Laid, Early

LEMMA LeavesNothing == \A op : Leaves(op, <<>>)
<1>1. <<>> \in Seq(Frame)
  OBVIOUS
<1>2. QED
  BY <1>1 DEF Leaves, Laid, Early

LEMMA LeavesSession ==
    ASSUME NEW op, op \notin PostOp
    PROVE  Leaves(op, NewSession)
<1>1. /\ DOMAIN NewSession = 1 .. 3 /\ NewSession[1].op = "refresh"
      /\ NewSession[2].op = "unsent" /\ NewSession[3].op = "visit"
  BY DEF NewSession, Do
<1>2. QED
  BY <1>1, NewSessionType DEF Leaves, Laid

(* The frames of an event that makes the VISIT of its session first. *)
LEMMA VisitBefore ==
    ASSUME NEW f \in Frame
    PROVE  /\ <<Do("visit")>> \o <<f>> \in Seq(Frame)
           /\ <<Do("visit")>> \o <<f>> = <<Do("visit"), f>>
           /\ <<>> \o <<f>> = <<f>>
<1>1. Do("visit") \in Frame
  BY FrameTypes DEF Op
<1>2. <<Do("visit")>> \o <<f>> = <<Do("visit"), f>>
  BY <1>1, Pair
<1>3. QED
  BY <1>1, <1>2

LEMMA EitherThreadLeaves ==
    ASSUME TypeOK, NEW t \in Thread, OnEitherThread(t)
    PROVE  stack[t] # <<>> /\ \E fs \in Seq(Frame) : Then(t, fs) /\ Leaves(Top(t).op, fs)
<1>1. stack[t] # <<>>
  BY DEF OnEitherThread, GenerateVisit, GenerateVisitEvent, RefreshSessionId, SetLoginUserId,
         UserIdDidChanged, ResendVisit, At
<1>2. Top(t) \in Frame
  BY <1>1, TopType
<1>3. <<>> \in Seq(Frame) /\ NewSession \in Seq(Frame)
  BY NewSessionType
<1>4. CASE RefreshSessionId(t)
  BY <1>1, <1>3, <1>4, LeavesNothing DEF RefreshSessionId
<1>5. CASE GenerateVisit(t)
  <2>1. Do("dispatchVisit") \in Frame /\ Do("dispatchVisit").op = "dispatchVisit"
    BY FrameTypes DEF Op, Do
  <2>2. Leaves(Top(t).op, <<Do("dispatchVisit")>>)
    BY <2>1, LeavesOne DEF PostOp
  <2>3. QED
    BY <1>1, <1>3, <1>5, <2>2, LeavesNothing DEF GenerateVisit, Leaves
<1>6. CASE GenerateVisitEvent(t)
  <2>1. Post("VISIT") \in Frame /\ Post("VISIT").op = "post"
    BY FrameTypes DEF Type, Post, Do
  <2>2. Leaves(Top(t).op, <<Post("VISIT")>>)
    BY <2>1, LeavesOne DEF PostOp
  <2>3. QED
    BY <1>1, <1>3, <1>6, <2>2, LeavesNothing DEF GenerateVisitEvent, Leaves
<1>7. CASE SetLoginUserId(t)
  <2> DEFINE f == Top(t)
             g == [f EXCEPT !.op = "setUser"]
             h == [f EXCEPT !.op = "setKey", !.old = ses.user]
             k == [f EXCEPT !.op = "userChanged"]
  <2>1. g \in Frame /\ h \in Frame /\ k \in Frame
    BY <1>2, FrameFields, SesFields DEF Op
  <2>2. g.op = "setUser" /\ h.op = "setKey" /\ k.op = "userChanged"
    BY <1>2 DEF Frame
  <2>3. /\ Then(t, <<>>) \/ Then(t, <<g>>) \/ Then(t, <<h>>) \/ Then(t, <<k>>)
        /\ f.op \notin PostOp
    BY <1>7 DEF SetLoginUserId, At, PostOp
  <2> HIDE DEF g, h, k
  <2>4. Leaves(f.op, <<g>>) /\ Leaves(f.op, <<h>>) /\ Leaves(f.op, <<k>>)
    BY <2>1, <2>2, <2>3, LeavesOne
  <2>5. QED
    BY <1>1, <1>3, <2>3, <2>4, LeavesNothing DEF Leaves
<1>8. CASE UserIdDidChanged(t)
  <2> DEFINE g == [Top(t) EXCEPT !.op = "latest"]
  <2>1. g \in Frame /\ g.op = "latest"
    <3>1. g \in Frame
      BY <1>2, FrameFields DEF Op
    <3>2. g.op = "latest"
      BY <1>2 DEF Frame
    <3>3. QED
      BY <3>1, <3>2
  <2>2. (Then(t, <<>>) \/ Then(t, <<g>>)) /\ Top(t).op \notin PostOp
    BY <1>8 DEF UserIdDidChanged, At, PostOp
  <2> HIDE DEF g
  <2>3. Leaves(Top(t).op, <<g>>)
    BY <2>1, <2>2, LeavesOne
  <2>4. QED
    BY <1>1, <1>3, <2>2, <2>3, LeavesNothing DEF Leaves
<1>9. CASE ResendVisit(t)
  <2>1. (Then(t, <<>>) \/ Then(t, NewSession)) /\ Top(t).op \notin PostOp
    BY <1>9 DEF ResendVisit, At, PostOp
  <2>2. QED
    BY <1>1, <1>3, <2>1, LeavesNothing, LeavesSession
<1>10. QED
  BY <1>1, <1>4, <1>5, <1>6, <1>7, <1>8, <1>9 DEF OnEitherThread

OnGrowingThread ==
    \/ PostEventBuilder \/ ReadProperty \/ WriteEvent
    \/ BecomeActive \/ PutAside \/ GenerateAppReengage \/ PostBuilders
    \/ \E b \in BOOLEAN : SetEnabled(b)

LEMMA GrowingThreadLeaves ==
    ASSUME TypeOK, OnGrowingThread
    PROVE  /\ Growing # <<>>
           /\ \E fs \in Seq(Frame) : Then("growing", fs) /\ Leaves(Head(Growing).op, fs)
<1> DEFINE f == Head(Growing)
<1>1. Growing # <<>> /\ f = Top("growing")
  BY DEF OnGrowingThread, PostEventBuilder, ReadProperty, WriteEvent, BecomeActive, PutAside,
         GenerateAppReengage, PostBuilders, SetEnabled, At, Growing, Top
<1>2. f \in Frame
  BY <1>1, StackTypes
<1> HIDE DEF f
<1>3. <<>> \in Seq(Frame) /\ NewSession \in Seq(Frame)
  BY NewSessionType
<1>4. CASE PostEventBuilder
  <2> DEFINE g == [f EXCEPT !.op = "readUser"]
  <2>1. g \in Frame /\ g.op = "readUser"
    <3>1. g \in Frame
      BY <1>2, FrameFields DEF Op
    <3>2. g.op = "readUser"
      BY <1>2 DEF Frame
    <3>3. QED
      BY <3>1, <3>2
  <2>2. /\ Then("growing", IF ~enabled THEN <<>>
                           ELSE (IF ses.sent THEN <<>> ELSE <<Do("visit")>>) \o <<g>>)
    BY <1>1, <1>4 DEF PostEventBuilder
  <2> HIDE DEF g
  <2>3. Then("growing", <<>>) \/ Then("growing", <<g>>) \/ Then("growing", <<Do("visit"), g>>)
    BY <2>1, <2>2, VisitBefore
  <2>4. Leaves(f.op, <<g>>)
    BY <2>1, LeavesOne DEF PostOp
  <2>5. Leaves(f.op, <<Do("visit"), g>>)
    <3>1. <<Do("visit"), g>> \in Seq(Frame)
      BY <2>1, VisitBefore
    <3>2. <<Do("visit"), g>>[1].op = "visit" /\ <<Do("visit"), g>>[2].op = "readUser"
      BY <2>1 DEF Do
    <3>3. DOMAIN <<Do("visit"), g>> = 1 .. 2
      OBVIOUS
    <3> DEFINE fs == <<Do("visit"), g>>
    <3> HIDE DEF fs
    <3>4. \A i \in DOMAIN fs : fs[i].op \in {"visit", "readUser"}
      BY <3>2, <3>3 DEF fs
    <3>5. Leaves(f.op, fs)
      BY <3>1, <3>4 DEF Leaves, Laid, Early, PostOp, fs
    <3>6. QED
      BY <3>5 DEF fs
  <2>6. QED
    BY <1>1, <1>3, <2>3, <2>4, <2>5, LeavesNothing DEF Leaves, f
<1>5. CASE ReadProperty
  <2> DEFINE g == [f EXCEPT !.op = "readId", !.user = ses.user]
             h == [f EXCEPT !.op = "readKey", !.id = ses.id]
  <2>1. g \in Frame /\ h \in Frame /\ g.op = "readId" /\ h.op = "readKey"
    <3>1. g \in Frame /\ h \in Frame
      BY <1>2, FrameFields, SesFields DEF Op
    <3>2. g.op = "readId" /\ h.op = "readKey"
      BY <1>2 DEF Frame
    <3>3. QED
      BY <3>1, <3>2
  <2>2. Then("growing", <<g>>) \/ Then("growing", <<h>>)
    BY <1>1, <1>5 DEF ReadProperty
  <2> HIDE DEF g, h
  <2>3. Leaves(f.op, <<g>>) /\ Leaves(f.op, <<h>>)
    BY <2>1, LeavesOne DEF PostOp
  <2>4. QED
    BY <1>1, <2>2, <2>3 DEF Leaves, f
<1>6. CASE WriteEvent
  BY <1>1, <1>3, <1>6, LeavesNothing DEF WriteEvent, f
<1>7. CASE BecomeActive \/ \E b \in BOOLEAN : SetEnabled(b)
  <2>1. (Then("growing", <<>>) \/ Then("growing", NewSession)) /\ f.op \notin PostOp
    BY <1>1, <1>7 DEF BecomeActive, SetEnabled, At, PostOp
  <2>2. QED
    BY <1>1, <1>3, <2>1, LeavesNothing, LeavesSession DEF f
<1>8. CASE PutAside \/ GenerateAppReengage
  <2>1. \A ty \in Type : Post(ty) \in Frame /\ Post(ty).op = "post"
    BY FrameTypes DEF Post, Do
  <2>2. \E fs \in {<<>>, <<Post("APP_CLOSED")>>, <<Post("REENGAGE")>>} : Then("growing", fs)
    BY <1>8 DEF PutAside, GenerateAppReengage
  <2>3. Leaves(f.op, <<Post("APP_CLOSED")>>) /\ Leaves(f.op, <<Post("REENGAGE")>>)
    BY <2>1, LeavesOne DEF PostOp, Type
  <2>4. QED
    BY <1>1, <2>2, <2>3, LeavesNothing DEF Leaves, f
<1>9. CASE PostBuilders
  <2> DEFINE fs == [i \in 1..builders |-> Post("REENGAGE")]
  <2>1. builders \in Nat /\ Post("REENGAGE") \in Frame /\ Post("REENGAGE").op = "post"
    BY FrameTypes DEF TypeOK, Type, Post, Do
  <2>2. fs \in Seq(Frame)
    <3>1. fs \in [1..builders -> Frame]
      BY <2>1
    <3>2. QED
      BY <2>1, <3>1, SeqDef
  <2>3. \A i \in DOMAIN fs : fs[i].op = "post"
    BY <2>1
  <2>4. Then("growing", fs)
    BY <1>9 DEF PostBuilders
  <2> HIDE DEF fs
  <2>5. Leaves(f.op, fs)
    BY <2>2, <2>3 DEF Leaves, Laid, Early, PostOp
  <2>6. QED
    BY <1>1, <2>2, <2>4, <2>5 DEF f
<1>10. QED
  BY <1>4, <1>5, <1>6, <1>7, <1>8, <1>9 DEF OnGrowingThread

(* A step of the main thread once modules are up: it may queue its VISIT. *)
MainStep ==
    /\ OnEitherThread("main")
    /\ Main # <<>> /\ Head(Main).op # "config"
    /\ \E fs \in Seq(Frame) : Then("main", fs) /\ Leaves(Head(Main).op, fs)
    /\ queue' = queue \/ queue' = Append(queue, Post("VISIT"))
    /\ UNCHANGED <<enabled, channels, log>>

GrowingStep ==
    /\ OnGrowingThread \/ OnEitherThread("growing")
    /\ Growing # <<>> /\ Head(Growing).op \notin {"config", "create"}
    /\ \E fs \in Seq(Frame) : Then("growing", fs) /\ Leaves(Head(Growing).op, fs)
    /\ UNCHANGED <<queue, channels>>

(* The builders are posted by the call that makes the session active. *)
Follows(fs) ==
    \A i \in DOMAIN fs :
        /\ fs[i].type # "REENGAGE"
        /\ fs[i].op = "postBuilders" => i > 1 /\ fs[i - 1] = Do("become")

(* A call or a module adds blocks to the queue. *)
QueueStep ==
    /\ \E fs \in Seq(Frame) : /\ queue' = queue \o fs /\ Whole(fs) /\ Follows(fs)
                              /\ Main = StartUp => Early(fs)
    /\ UNCHANGED <<ses, enabled, channels, stack, log>>

BridgeLogin ==
    /\ Main = <<>> /\ Growing' = Growing
    /\ \E f \in Frame : f.op = "login" /\ Main' = <<f>>
    /\ UNCHANGED <<ses, enabled, channels, queue, log>>

LEMMA CallQueues ==
    ASSUME TypeOK, NEW fs \in Seq(Frame), Whole(fs), Follows(fs), Call(fs)
    PROVE  QueueStep
<1>1. Main = <<>> /\ StartUp # <<>>
  BY DEF Call, Started, Main, StartUp
<1>2. QED
  BY <1>1 DEF Call, Queue, QueueStep

LEMMA CallsQueue ==
    ASSUME TypeOK, Track \/ EarlyTrack \/ LoginUser \/ OtherCall \/ LifeCycle
    PROVE  QueueStep
<1>1. ASSUME NEW f \in Frame, f.op \notin {"refresh", "unsent", "postBuilders"},
             f.type # "REENGAGE"
      PROVE  /\ <<f>> \in Seq(Frame) /\ Whole(<<f>>) /\ Follows(<<f>>)
             /\ f.op \in PostOp => Early(<<f>>)
  BY <1>1 DEF Whole, Follows, Early
<1>2. Post("CUSTOM") \in Frame /\ Post("CUSTOM").op = "post"
      /\ Post("CUSTOM").type = "CUSTOM"
  BY FrameTypes DEF Type, Post, Do
<1>3. CASE Track
  BY <1>1, <1>2, <1>3, CallQueues DEF Track
<1>4. CASE EarlyTrack
  <2>1. /\ queue' = queue \o <<Post("CUSTOM")>>
        /\ UNCHANGED <<ses, enabled, channels, stack, log>>
    BY <1>4 DEF EarlyTrack, Queue
  <2>2. QED
    BY <1>1, <1>2, <2>1 DEF QueueStep, PostOp
<1>5. CASE LoginUser
  <2>1. \A u \in UserId, k \in UserKey : /\ Login(u, k) \in Frame
                                       /\ Login(u, k).op = "login" /\ Login(u, k).type = "VISIT"
    BY FrameTypes DEF Login, Do
  <2>2. \E u \in UserId, k \in UserKey : Call(<<Login(u, k)>>)
    BY <1>5 DEF LoginUser, UserId, UserKey
  <2>3. QED
    BY <1>1, <2>1, <2>2, CallQueues
<1>6. CASE OtherCall
  <2>1. \A op \in {"enable", "disable", "reengage"} : Do(op) \in Frame /\ Do(op).op = op /\ Do(op).type = "VISIT"
    BY FrameTypes DEF Op, Do
  <2>2. QED
    BY <1>1, <1>6, <2>1, CallQueues DEF OtherCall
<1>7. CASE LifeCycle
  <2>1. \A op \in {"become", "postBuilders", "resign", "background"} :
           Do(op) \in Frame /\ Do(op).op = op /\ Do(op).type = "VISIT"
    BY FrameTypes DEF Op, Do
  <2>2. <<Do("become"), Do("postBuilders")>> \in Seq(Frame)
    BY <2>1
  <2>3. /\ Whole(<<Do("become"), Do("postBuilders")>>)
        /\ Follows(<<Do("become"), Do("postBuilders")>>)
    BY <2>1 DEF Whole, Follows
  <2>4. QED
    BY <1>1, <1>7, <2>1, <2>2, <2>3, CallQueues DEF LifeCycle
<1>8. QED
  BY <1>3, <1>4, <1>5, <1>6, <1>7

(* Every step is of one of these kinds. *)
LEMMA StepKinds ==
    ASSUME TypeOK, Next
    PROVE  GrowingStep \/ MainStep \/ TakeBlock \/ ConfigManager \/ QueueStep \/ BridgeLogin
<1>1. CASE OnGrowingThread
  <2>1. Head(Growing).op \notin {"config", "create"}
    BY <1>1 DEF OnGrowingThread, PostEventBuilder, ReadProperty, WriteEvent, BecomeActive,
                PutAside, GenerateAppReengage, PostBuilders, SetEnabled, At, Growing, Top
  <2>2. UNCHANGED <<queue, channels>>
    BY <1>1 DEF OnGrowingThread, PostEventBuilder, ReadProperty, WriteEvent, BecomeActive,
                PutAside, GenerateAppReengage, PostBuilders, SetEnabled, keep
  <2>3. QED
    BY <1>1, <2>1, <2>2, GrowingThreadLeaves DEF GrowingStep
<1>2. ASSUME NEW t \in Thread, OnEitherThread(t)
      PROVE  GrowingStep \/ MainStep
  <2>1. /\ Top(t).op \notin {"config", "create"}
        /\ t = "growing" => UNCHANGED queue
        /\ queue' = queue \/ queue' = Append(queue, Post("VISIT"))
        /\ UNCHANGED <<enabled, channels, log>>
    BY <1>2 DEF OnEitherThread, GenerateVisit, GenerateVisitEvent, RefreshSessionId,
                SetLoginUserId, UserIdDidChanged, ResendVisit, At, keep
  <2>2. stack[t] # <<>> /\ \E fs \in Seq(Frame) : Then(t, fs) /\ Leaves(Top(t).op, fs)
    BY <1>2, EitherThreadLeaves
  <2>3. QED
    BY <1>2, <2>1, <2>2 DEF Thread, GrowingStep, MainStep, Growing, Main, Top
<1>3. CASE HandleJavascriptBridgeMessage
  <2>1. /\ Main = <<>> /\ UNCHANGED <<ses, enabled, channels, queue, log>>
    BY <1>3 DEF HandleJavascriptBridgeMessage, Started, Main
  <2>2. \E u \in UserId, k \in UserKey : stack' = [stack EXCEPT !["main"] = <<Login(u, k)>>]
    BY <1>3 DEF HandleJavascriptBridgeMessage, UserId, UserKey
  <2>3. PICK u \in UserId, k \in UserKey : stack' = [stack EXCEPT !["main"] = <<Login(u, k)>>]
    BY <2>2
  <2>4. Main' = <<Login(u, k)>> /\ Growing' = Growing
    BY <2>3 DEF TypeOK, Thread, Main, Growing
  <2>5. Login(u, k) \in Frame /\ Login(u, k).op = "login"
    BY FrameTypes DEF Login, Do
  <2>6. QED
    BY <2>1, <2>4, <2>5 DEF BridgeLogin
<1>4. QED
  BY <1>1, <1>2, <1>3, CallsQueue DEF Next, OnGrowingThread

LEMMA ThenStacks ==
    ASSUME TypeOK
    PROVE  /\ Main \in Seq(Frame) /\ Growing \in Seq(Frame)
           /\ \A fs : Then("growing", fs) => Growing' = fs \o Tail(Growing) /\ Main' = Main
           /\ \A fs : Then("main", fs) => Main' = fs \o Tail(Main) /\ Growing' = Growing
BY DEF TypeOK, Then, Thread, Growing, Main

LEMMA EmptyIsLaid == Laid(<<>>) /\ Early(<<>>)
BY DEF Laid, Early

LEMMA OneIsLaid ==
    ASSUME NEW f \in Frame
    PROVE  /\ f.op \notin {"refresh", "unsent"} => Laid(<<f>>)
           /\ f.op \in PostOp => Early(<<f>>)
BY SeqOfOne DEF Laid, Early

(* The queue grows at its end, and its blocks keep their places. *)
LEMMA Appended ==
    ASSUME NEW q \in Seq(Frame), NEW fs \in Seq(Frame), NEW r, r = q \o fs
    PROVE  /\ r \in Seq(Frame)
           /\ \A i \in DOMAIN q : i \in DOMAIN r /\ r[i] = q[i]
           /\ \A i \in DOMAIN r :
                 \/ i \in DOMAIN q /\ r[i] = q[i]
                 \/ i > Len(q) /\ i - Len(q) \in DOMAIN fs /\ r[i] = fs[i - Len(q)]
<1>1. /\ q \o fs \in Seq(Frame) /\ Len(q \o fs) = Len(q) + Len(fs)
      /\ \A i \in 1 .. Len(q) + Len(fs) :
            (q \o fs)[i] = IF i <= Len(q) THEN q[i] ELSE fs[i - Len(q)]
  BY ConcatProperties
<1>2. /\ r \in Seq(Frame) /\ Len(r) = Len(q) + Len(fs)
      /\ \A i \in 1 .. Len(q) + Len(fs) : r[i] = IF i <= Len(q) THEN q[i] ELSE fs[i - Len(q)]
  BY <1>1, Zenon
<1>3. /\ DOMAIN r = 1 .. Len(r) /\ DOMAIN q = 1 .. Len(q) /\ DOMAIN fs = 1 .. Len(fs)
      /\ Len(q) \in Nat /\ Len(fs) \in Nat
  BY <1>2
<1>4. QED
  BY <1>2, <1>3

LEMMA WholeGrows ==
    ASSUME NEW q \in Seq(Frame), NEW fs \in Seq(Frame), Whole(q), Whole(fs)
    PROVE  Whole(q \o fs)
<1>1. PICK r : r = q \o fs
  OBVIOUS
<1>2. \A i \in DOMAIN r :
         \/ i \in DOMAIN q /\ r[i] = q[i]
         \/ i > Len(q) /\ i - Len(q) \in DOMAIN fs /\ r[i] = fs[i - Len(q)]
  BY <1>1, Appended
<1>3. Whole(r)
  BY <1>2 DEF Whole
<1>4. QED
  BY <1>1, <1>3, Zenon

LEMMA EarlyGrows ==
    ASSUME NEW q \in Seq(Frame), NEW fs \in Seq(Frame), Early(q), Early(fs)
    PROVE  Early(q \o fs)
<1>1. PICK r : r = q \o fs
  OBVIOUS
<1>2. \A i \in DOMAIN r :
         \/ i \in DOMAIN q /\ r[i] = q[i]
         \/ i > Len(q) /\ i - Len(q) \in DOMAIN fs /\ r[i] = fs[i - Len(q)]
  BY <1>1, Appended
<1>3. Early(r)
  BY <1>2 DEF Early
<1>4. QED
  BY <1>1, <1>3, Zenon

(* The first block leaves the queue. *)
LEMMA Taken ==
    ASSUME TypeOK, TakeBlock
    PROVE  /\ queue \in Seq(Frame) /\ queue # <<>> /\ queue' \in Seq(Frame)
           /\ 1 \in DOMAIN queue /\ queue[1] \in Frame
           /\ Growing = <<>> /\ Growing' = <<queue[1]>> /\ Main' = Main
           /\ \A i \in DOMAIN queue : i # 1 =>
                 i - 1 \in DOMAIN queue' /\ queue'[i - 1] = queue[i]
           /\ \A i \in DOMAIN queue' :
                 i + 1 \in DOMAIN queue /\ queue'[i] = queue[i + 1]
<1>1. queue \in Seq(Frame) /\ queue # <<>> /\ queue' = Tail(queue)
  BY DEF TypeOK, TakeBlock
<1>2. /\ Head(queue) = queue[1] /\ Len(queue) \in Nat \ {0}
      /\ Tail(queue) \in Seq(Frame) /\ Len(Tail(queue)) = Len(queue) - 1
      /\ \A i \in 1 .. Len(queue) - 1 : Tail(queue)[i] = queue[i + 1]
  BY <1>1
<1>3. Growing = <<>> /\ Growing' = <<queue[1]>> /\ Main' = Main
  BY <1>2 DEF TypeOK, TakeBlock, Thread, Growing, Main
<1>4. /\ DOMAIN queue = 1 .. Len(queue) /\ queue' \in Seq(Frame)
      /\ DOMAIN queue' = 1 .. Len(queue) - 1
      /\ \A i \in 1 .. Len(queue) - 1 : queue'[i] = queue[i + 1]
  BY <1>1, <1>2
<1>5. QED
  BY <1>1, <1>2, <1>3, <1>4

LEMMA StartUpShape ==
    /\ StartUp \in Seq(Frame) /\ StartUp # <<>>
    /\ Head(StartUp) = Do("config") /\ Tail(StartUp) = <<Do("visit")>>
    /\ Do("config").op = "config" /\ Do("visit").op = "visit" /\ Do("visit") \in Frame
<1>1. Do("config") \in Frame /\ Do("visit") \in Frame
  BY FrameTypes DEF Op
<1>2. Do("config").op = "config" /\ Do("visit").op = "visit"
  BY DEF Do
<1>3. QED
  BY <1>1, <1>2 DEF StartUp

LEMMA LaidKept ==
    ASSUME TypeOK, LaidInv, Next
    PROVE  LaidInv'
<1>0. /\ Main \in Seq(Frame) /\ Growing \in Seq(Frame) /\ queue \in Seq(Frame)
      /\ Main # <<>> => Main[1] = Head(Main) /\ 1 \in DOMAIN Main
  BY ThenStacks DEF TypeOK
<1>1. CASE GrowingStep
  <2>1. PICK fs \in Seq(Frame) : Then("growing", fs) /\ Leaves(Head(Growing).op, fs)
    BY <1>1 DEF GrowingStep
  <2>2. /\ Growing' = fs \o Tail(Growing) /\ Main' = Main /\ queue' = queue
        /\ Growing # <<>> /\ Laid(fs)
    BY <1>1, <2>1, ThenStacks DEF GrowingStep, Leaves
  <2>3. QED
    BY <1>0, <2>2, LaidThen DEF LaidInv
<1>2. CASE MainStep
  <2>1. PICK fs \in Seq(Frame) : Then("main", fs) /\ Leaves(Head(Main).op, fs)
    BY <1>2 DEF MainStep
  <2>2. /\ Main' = fs \o Tail(Main) /\ Growing' = Growing
        /\ Main # <<>> /\ Laid(fs) /\ Head(Main).op # "config"
        /\ \A i \in DOMAIN fs : fs[i].op # "config"
    BY <1>2, <2>1, ThenStacks DEF MainStep, Leaves
  <2>3. Main # StartUp
    BY <2>2, StartUpShape
  <2>4. \A i \in DOMAIN Main' : Main'[i].op # "config"
    <3>1. \A i \in DOMAIN Main' :
             \/ i \in DOMAIN fs /\ Main'[i] = fs[i]
             \/ i - Len(fs) + 1 \in DOMAIN Main /\ Main'[i] = Main[i - Len(fs) + 1]
      BY <1>0, <2>2, Stacked
    <3>2. QED
      BY <2>2, <2>3, <3>1 DEF LaidInv
  <2>5. Whole(queue')
    <3>1. Post("VISIT") \in Frame /\ Post("VISIT").op = "post"
      BY FrameTypes DEF Type, Post, Do
    <3>2. Whole(<<Post("VISIT")>>)
      BY <3>1 DEF Whole
    <3>3. <<Post("VISIT")>> \in Seq(Frame)
      BY <3>1
    <3>4. Whole(Append(queue, Post("VISIT")))
      BY <1>0, <3>1, <3>2, <3>3, AppendIsConcat, WholeGrows DEF LaidInv
    <3>5. QED
      BY <1>2, <3>4 DEF MainStep, LaidInv
  <2>6. QED
    BY <1>0, <2>2, <2>4, <2>5, LaidThen DEF LaidInv
<1>3. CASE TakeBlock
  <2>1. Whole(queue')
    BY <1>3, Taken DEF LaidInv, Whole
  <2>2. Laid(<<queue[1]>>)
    BY <1>3, Taken, OneIsLaid DEF LaidInv, Whole
  <2>3. QED
    BY <1>3, <2>1, <2>2, Taken DEF LaidInv
<1>4. CASE ConfigManager
  <2>1. \/ /\ Main # <<>> /\ Head(Main).op = "config"
           /\ Then("main", <<>>) /\ queue' = Append(queue, Do("create"))
        \/ Then("growing", <<>>) /\ queue' = queue /\ Growing # <<>>
    BY <1>4 DEF ConfigManager, At, Top, Main, Growing
  <2>2. CASE /\ Main # <<>> /\ Head(Main).op = "config"
             /\ Then("main", <<>>) /\ queue' = Append(queue, Do("create"))
    <3>1. Main = StartUp
      BY <1>0, <2>2 DEF LaidInv
    <3>2. Main' = <<>> \o Tail(Main) /\ Growing' = Growing
      BY <2>2, ThenStacks
    <3>3. Main' = <<Do("visit")>>
      BY <3>1, <3>2, StartUpShape
    <3>4. Do("create") \in Frame /\ Do("create").op = "create"
      BY FrameTypes DEF Op, Do
    <3>5. <<Do("create")>> \in Seq(Frame) /\ Whole(<<Do("create")>>)
      BY <3>4 DEF Whole
    <3>6. Whole(Append(queue, Do("create")))
      BY <1>0, <3>4, <3>5, AppendIsConcat, WholeGrows DEF LaidInv
    <3>7. Laid(Main') /\ \A i \in DOMAIN Main' : Main'[i].op # "config"
      BY <3>3, StartUpShape, OneIsLaid
    <3>8. QED
      BY <2>2, <3>2, <3>6, <3>7 DEF LaidInv
  <2>3. CASE Then("growing", <<>>) /\ queue' = queue /\ Growing # <<>>
    <3>1. Growing' = <<>> \o Tail(Growing) /\ Main' = Main
      BY <2>3, ThenStacks
    <3>2. <<>> \in Seq(Frame)
      OBVIOUS
    <3>3. Laid(<<>> \o Tail(Growing))
      BY <1>0, <2>3, <3>2, EmptyIsLaid, LaidThen DEF LaidInv
    <3>4. QED
      BY <2>3, <3>1, <3>3 DEF LaidInv
  <2>4. QED
    BY <2>1, <2>2, <2>3
<1>5. CASE QueueStep
  BY <1>0, <1>5, WholeGrows DEF QueueStep, LaidInv, Main, Growing
<1>6. CASE BridgeLogin
  <2>1. PICK f \in Frame : f.op = "login" /\ Main' = <<f>>
    BY <1>6 DEF BridgeLogin
  <2>2. Laid(Main') /\ \A i \in DOMAIN Main' : Main'[i].op # "config"
    BY <2>1, OneIsLaid
  <2>3. QED
    BY <1>6, <2>2 DEF BridgeLogin, LaidInv
<1>7. QED
  BY <1>1, <1>2, <1>3, <1>4, <1>5, <1>6, StepKinds

LEMMA WaitsGrows ==
    ASSUME NEW fs \in Seq(Frame), queue \in Seq(Frame), queue' = queue \o fs, Waits
    PROVE  Waits'
<1>1. \A i \in DOMAIN queue : i \in DOMAIN queue' /\ queue'[i] = queue[i]
  BY Appended
<1>2. PICK j \in DOMAIN queue :
         queue[j] = Do("create") /\ \A i \in 1 .. j - 1 : queue[i].op \in PostOp
  BY DEF Waits
<1>3. \A i \in 1 .. j - 1 : i \in DOMAIN queue
  OBVIOUS
<1>4. j \in DOMAIN queue' /\ queue'[j] = Do("create")
  BY <1>1, <1>2
<1>5. \A i \in 1 .. j - 1 : queue'[i].op \in PostOp
  BY <1>1, <1>2, <1>3
<1>6. QED
  BY <1>4, <1>5 DEF Waits

LEMMA WaitsTaken ==
    ASSUME TypeOK, TakeBlock, Waits
    PROVE  Growing' = <<Do("create")>> \/ (Early(Growing') /\ Waits')
<1>1. PICK j \in DOMAIN queue :
         queue[j] = Do("create") /\ \A i \in 1 .. j - 1 : queue[i].op \in PostOp
  BY DEF Waits
<1>2. CASE j = 1
  BY <1>1, <1>2, Taken
<1>3. CASE j # 1
  <2>1. j \in Nat /\ j > 1 /\ j - 1 \in DOMAIN queue' /\ queue'[j - 1] = Do("create")
    BY <1>1, <1>3, Taken
  <2>2. Early(<<queue[1]>>)
    BY <1>1, <2>1, Taken, OneIsLaid
  <2>3. \A i \in 1 .. j - 1 - 1 : queue'[i].op \in PostOp
    <3>1. TAKE i \in 1 .. j - 1 - 1
    <3>2. i + 1 \in 1 .. j - 1
      BY <2>1
    <3>3. /\ queue' \in Seq(Frame) /\ DOMAIN queue' = 1 .. Len(queue')
          /\ Len(queue') \in Nat
      BY Taken
    <3>4. i \in DOMAIN queue'
      BY <2>1, <3>3
    <3>5. queue'[i] = queue[i + 1]
      BY <3>4, Taken
    <3>6. QED
      BY <1>1, <3>2, <3>5
  <2>4. QED
    BY <2>1, <2>2, <2>3, Taken DEF Waits
<1>4. QED
  BY <1>2, <1>3

LEMMA EarlyTaken ==
    ASSUME TypeOK, TakeBlock, Early(queue)
    PROVE  Early(Growing') /\ Early(queue')
<1>1. Early(<<queue[1]>>)
  BY Taken, OneIsLaid DEF Early
<1>2. Early(queue')
  BY Taken DEF Early
<1>3. QED
  BY <1>1, <1>2, Taken

(* The frame of the block that creates the channels. *)
LEMMA CreateFrame ==
    /\ Do("create") \in Frame /\ Do("create").op = "create"
    /\ <<Do("create")>> \in Seq(Frame)
    /\ Head(<<Do("create")>>) = Do("create")
<1>1. Do("create") \in Frame /\ Do("create").op = "create"
  BY FrameTypes DEF Op, Do
<1>2. QED
  BY <1>1

(* A thread that runs nothing but its own SDK code. *)
LEMMA EarlyTop ==
    ASSUME TypeOK, Early(Growing), Growing # <<>>
    PROVE  Head(Growing).op \in PostOp
BY StackTypes DEF Early

LEMMA ChannelsKept ==
    ASSUME TypeOK, LaidInv, ChannelsFirst, Next
    PROVE  ChannelsFirst'
<1>0. /\ Main \in Seq(Frame) /\ Growing \in Seq(Frame) /\ queue \in Seq(Frame)
      /\ Main # <<>> => Main[1] = Head(Main) /\ 1 \in DOMAIN Main
  BY ThenStacks DEF TypeOK
<1>1. CASE channels \/ channels'
  <2>1. channels => channels'
    BY <1>1, StepKinds DEF GrowingStep, MainStep, TakeBlock, ConfigManager, QueueStep, BridgeLogin
  <2>2. QED
    BY <1>1, <2>1 DEF ChannelsFirst
<1>2. ASSUME ~channels, ~channels'
      PROVE  ChannelsFirst'
  <2>1. \/ Growing = <<Do("create")>>
        \/ Early(Growing) /\ ((Main = StartUp /\ Early(queue)) \/ Waits)
    BY <1>2 DEF ChannelsFirst
  <2>2. SUFFICES \/ Growing' = <<Do("create")>>
                 \/ Early(Growing') /\ ((Main' = StartUp /\ Early(queue')) \/ Waits')
    BY DEF ChannelsFirst
  <2>3. CASE GrowingStep
    <3>1. PICK fs \in Seq(Frame) : Then("growing", fs) /\ Leaves(Head(Growing).op, fs)
      BY <2>3 DEF GrowingStep
    <3>2. /\ Growing' = fs \o Tail(Growing) /\ Main' = Main /\ queue' = queue
          /\ Growing # <<>> /\ Head(Growing).op # "create"
      BY <2>3, <3>1, ThenStacks DEF GrowingStep
    <3>3. Early(Growing) /\ ((Main = StartUp /\ Early(queue)) \/ Waits)
      BY <2>1, <3>2, CreateFrame
    <3>4. Early(fs)
      BY <3>1, <3>2, <3>3, EarlyTop DEF Leaves
    <3>5. Early(Growing')
      BY <1>0, <3>2, <3>3, <3>4, EarlyThen
    <3>6. QED
      BY <3>2, <3>3, <3>5 DEF Waits
  <2>4. CASE MainStep
    <3>1. PICK fs \in Seq(Frame) : Then("main", fs) /\ Leaves(Head(Main).op, fs)
      BY <2>4 DEF MainStep
    <3>2. Growing' = Growing /\ Main # StartUp
      BY <2>4, <3>1, ThenStacks, StartUpShape DEF MainStep
    <3>3. Waits => Waits'
      <4>1. Post("VISIT") \in Frame
        BY FrameTypes DEF Type
      <4>2. <<Post("VISIT")>> \in Seq(Frame)
        BY <4>1
      <4>3. CASE queue' = queue
        BY <4>3 DEF Waits
      <4>4. CASE queue' = Append(queue, Post("VISIT"))
        <5>1. queue' = queue \o <<Post("VISIT")>>
          BY <1>0, <4>1, <4>4, AppendIsConcat
        <5>2. QED
          BY <1>0, <4>2, <5>1, WaitsGrows
      <4>5. QED
        BY <2>4, <4>3, <4>4 DEF MainStep
    <3>4. QED
      BY <2>1, <3>2, <3>3
  <2>5. CASE TakeBlock
    <3>1. Growing = <<>> /\ Main' = Main
      BY <2>5, Taken
    <3>2. (Main = StartUp /\ Early(queue)) \/ Waits
      BY <2>1, <3>1
    <3>3. QED
      BY <2>5, <3>1, <3>2, WaitsTaken, EarlyTaken
  <2>6. CASE ConfigManager
    <3>1. /\ Main # <<>> /\ Head(Main).op = "config"
          /\ Then("main", <<>>) /\ queue' = Append(queue, Do("create"))
      BY <1>2, <2>6 DEF ConfigManager, At, Top, Main
    <3>2. Growing' = Growing
      BY <3>1, ThenStacks
    <3>3. queue' = queue \o <<Do("create")>>
      BY <1>0, <3>1, AppendIsConcat, CreateFrame
    <3>4. Early(queue) => Waits'
      <4> SUFFICES ASSUME Early(queue)
                   PROVE  Waits'
        OBVIOUS
      <4>1. Len(queue) + 1 \in DOMAIN queue' /\ queue'[Len(queue) + 1] = Do("create")
        BY <1>0, <3>1
      <4>2. \A i \in 1 .. Len(queue) + 1 - 1 : i \in DOMAIN queue
        BY <1>0
      <4>3. \A i \in DOMAIN queue : queue'[i] = queue[i]
        BY <1>0, <3>1
      <4>4. \A i \in 1 .. Len(queue) + 1 - 1 : queue'[i].op \in PostOp
        BY <4>2, <4>3 DEF Early
      <4>5. QED
        BY <4>1, <4>4 DEF Waits
    <3>5. Waits => Waits'
      BY <1>0, <3>3, CreateFrame, WaitsGrows
    <3>6. QED
      BY <2>1, <3>2, <3>4, <3>5
  <2>7. CASE QueueStep
    <3>1. PICK fs \in Seq(Frame) : /\ queue' = queue \o fs
                                   /\ Main = StartUp => Early(fs)
      BY <2>7 DEF QueueStep
    <3>2. Growing' = Growing /\ Main' = Main
      BY <2>7 DEF QueueStep, Growing, Main
    <3>3. Main = StartUp /\ Early(queue) => Early(queue')
      BY <1>0, <3>1, EarlyGrows
    <3>4. Waits => Waits'
      BY <1>0, <3>1, WaitsGrows
    <3>5. QED
      BY <2>1, <3>2, <3>3, <3>4
  <2>8. CASE BridgeLogin
    BY <2>1, <2>8, StartUpShape DEF BridgeLogin, Waits
  <2>9. QED
    BY <2>3, <2>4, <2>5, <2>6, <2>7, <2>8, StepKinds
<1>3. QED
  BY <1>1, <1>2 DEF TypeOK

(* The VISIT that another thread owes is still owed after a step of t. *)
LEMMA LaterFrame ==
    ASSUME NEW fs \in Seq(Frame), NEW s \in Seq(Frame), s # <<>>,
           NEW i \in DOMAIN s, i > 1
    PROVE  \E k \in DOMAIN (fs \o Tail(s)) : (fs \o Tail(s))[k] = s[i]
<1>1. PICK r : r = fs \o Tail(s)
  OBVIOUS
<1>2. \A k \in DOMAIN s : k > 1 =>
         /\ Len(fs) + k - 1 \in DOMAIN r /\ r[Len(fs) + k - 1] = s[k]
         /\ Len(fs) + k - 1 \in Nat
  BY <1>1, Stacked
<1>3. \E k \in DOMAIN r : r[k] = s[i]
  BY <1>2
<1>4. QED
  BY <1>1, <1>3, Zenon

LEMMA EarlierFrame ==
    ASSUME NEW fs \in Seq(Frame), NEW s \in Seq(Frame), s # <<>>,
           NEW i \in DOMAIN fs
    PROVE  \E k \in DOMAIN (fs \o Tail(s)) : (fs \o Tail(s))[k] = fs[i]
<1>1. PICK r : r = fs \o Tail(s)
  OBVIOUS
<1>2. \A k \in DOMAIN fs : k \in DOMAIN r /\ r[k] = fs[k]
  BY <1>1, Stacked
<1>3. QED
  BY <1>1, <1>2, Zenon

(* The session changes its id only where its VISIT is laid out. *)
SameId == ses'.id = ses.id

LEMMA IdChanges ==
    ASSUME TypeOK, Next, ~SameId
    PROVE  \E t \in Thread : /\ stack[t] # <<>> /\ Head(stack[t]).op = "refresh"
                             /\ Then(t, <<>>) /\ UNCHANGED keep
<1>1. \A t \in Thread : OnEitherThread(t) =>
         \/ SameId
         \/ /\ stack[t] # <<>> /\ Head(stack[t]).op = "refresh"
            /\ Then(t, <<>>) /\ UNCHANGED keep
  <2>1. TAKE t \in Thread
  <2>2. CASE RefreshSessionId(t)
    BY <2>2 DEF RefreshSessionId, At, Top, Set, SameId, TypeOK, Ses
  <2>3. CASE GenerateVisit(t) \/ GenerateVisitEvent(t)
    BY <2>3 DEF GenerateVisit, GenerateVisitEvent, Set, SameId, TypeOK, Ses
  <2>4. CASE SetLoginUserId(t) \/ UserIdDidChanged(t)
    BY <2>4 DEF SetLoginUserId, UserIdDidChanged, Set, SameId, TypeOK, Ses
  <2>5. CASE ResendVisit(t)
    BY <2>5 DEF ResendVisit, Set, SameId, TypeOK, Ses
  <2>6. QED
    BY <2>2, <2>3, <2>4, <2>5 DEF OnEitherThread
<1>2. BecomeActive \/ PutAside => SameId
  BY DEF BecomeActive, PutAside, Set, SameId, TypeOK, Ses
<1>3. PostEventBuilder \/ ReadProperty \/ WriteEvent \/ GenerateAppReengage \/ PostBuilders
         => SameId
  BY DEF PostEventBuilder, ReadProperty, WriteEvent, GenerateAppReengage, PostBuilders, SameId
<1>4. TakeBlock \/ ConfigManager \/ (\E b \in BOOLEAN : SetEnabled(b)) => SameId
  BY DEF TakeBlock, ConfigManager, SetEnabled, SameId
<1>5. Track \/ EarlyTrack \/ LoginUser \/ OtherCall \/ LifeCycle \/ HandleJavascriptBridgeMessage
         => SameId
  <2>1. Track \/ EarlyTrack \/ LoginUser \/ OtherCall \/ LifeCycle => SameId
    BY CallsQueue DEF QueueStep, SameId
  <2>2. QED
    BY <2>1 DEF HandleJavascriptBridgeMessage, SameId
<1>6. QED
  BY <1>1, <1>2, <1>3, <1>4, <1>5 DEF Next

(* A frame that leads to the VISIT goes on to it while data are collected. *)
LEMMA OwedGoesOn ==
    ASSUME TypeOK, GrowingStep, SameId, channels, enabled,
           OwesTo(Head(Growing), ses.id)
    PROVE  \/ Visited'
           \/ \E fs \in Seq(Frame) : /\ Then("growing", fs)
                                     /\ \E i \in DOMAIN fs : OwesTo(fs[i], ses'.id)
<1> DEFINE f == Head(Growing)
           Goes(g) == /\ g \in Frame /\ OwesTo(g, ses'.id)
                      /\ Then("growing", <<g>>) \/ Then("growing", <<Do("visit"), g>>)
<1>1. Growing # <<>> /\ f = Top("growing") /\ f \in Frame
  BY StackTypes DEF GrowingStep, Growing, Top
<1> HIDE DEF f
<1>2. OwesTo(f, ses.id) /\ f.op \in PostOp
  BY <1>1 DEF OwesTo, PostOp, f
<1>3. ASSUME NEW g, Goes(g)
      PROVE  \E fs \in Seq(Frame) : /\ Then("growing", fs)
                                    /\ \E i \in DOMAIN fs : OwesTo(fs[i], ses'.id)
  <2>1. /\ <<g>> \in Seq(Frame) /\ 1 \in DOMAIN <<g>> /\ <<g>>[1] = g
        /\ <<Do("visit"), g>> \in Seq(Frame)
        /\ 2 \in DOMAIN <<Do("visit"), g>> /\ <<Do("visit"), g>>[2] = g
    <3>1. Do("visit") \in Frame
      BY StartUpShape
    <3>2. QED
      BY <1>3, <3>1
  <2>2. QED
    BY <1>3, <2>1
<1>4. \/ f.op = "visit" /\ GenerateVisit("growing")
      \/ f.op = "dispatchVisit" /\ GenerateVisitEvent("growing")
      \/ f.op = "post" /\ PostEventBuilder
      \/ f.op \in {"readUser", "readId"} /\ ReadProperty
      \/ f.op = "readKey" /\ WriteEvent
  <2>1. CASE OnGrowingThread
    BY <1>1, <1>2, <2>1
       DEF OnGrowingThread, PostEventBuilder, ReadProperty, WriteEvent, BecomeActive,
           PutAside, GenerateAppReengage, PostBuilders, SetEnabled, At, PostOp
  <2>2. CASE OnEitherThread("growing")
    BY <1>1, <1>2, <2>2
       DEF OnEitherThread, GenerateVisit, GenerateVisitEvent, RefreshSessionId,
           SetLoginUserId, UserIdDidChanged, ResendVisit, At, PostOp
  <2>3. QED
    BY <2>1, <2>2 DEF GrowingStep
<1>5. CASE f.op = "visit" /\ GenerateVisit("growing")
  <2>1. Do("dispatchVisit") \in Frame /\ Do("dispatchVisit").op = "dispatchVisit"
    BY FrameTypes DEF Op, Do
  <2>2. Goes(Do("dispatchVisit"))
    BY <1>5, <2>1 DEF GenerateVisit, OwesTo
  <2>3. QED
    BY <1>3, <2>2
<1>6. CASE f.op = "dispatchVisit" /\ GenerateVisitEvent("growing")
  <2>1. Post("VISIT") \in Frame /\ Post("VISIT").op = "post" /\ Post("VISIT").type = "VISIT"
    BY FrameTypes DEF Type, Post, Do
  <2>2. Goes(Post("VISIT"))
    BY <1>6, <2>1 DEF GenerateVisitEvent, OwesTo
  <2>3. QED
    BY <1>3, <2>2
<1>7. CASE f.op = "post" /\ PostEventBuilder
  <2> DEFINE g == [f EXCEPT !.op = "readUser"]
  <2>1. g \in Frame
    BY <1>1, FrameFields DEF Op
  <2>2. g.op = "readUser" /\ g.type = f.type
    BY <1>1 DEF Frame
  <2>3. f.type = "VISIT"
    BY <1>2, <1>7 DEF OwesTo
  <2>4. Then("growing", (IF ses.sent THEN <<>> ELSE <<Do("visit")>>) \o <<g>>)
    BY <1>1, <1>7 DEF PostEventBuilder
  <2> HIDE DEF g
  <2>5. Then("growing", <<g>>) \/ Then("growing", <<Do("visit"), g>>)
    BY <2>1, <2>4, VisitBefore
  <2>6. Goes(g)
    BY <2>1, <2>2, <2>3, <2>5 DEF OwesTo
  <2>7. QED
    BY <1>3, <2>6
<1>8. CASE f.op \in {"readUser", "readId"} /\ ReadProperty
  <2> DEFINE g == [f EXCEPT !.op = "readId", !.user = ses.user]
             h == [f EXCEPT !.op = "readKey", !.id = ses.id]
  <2>1. g \in Frame /\ h \in Frame
    BY <1>1, FrameFields, SesFields DEF Op
  <2>2. /\ g.op = "readId" /\ g.type = f.type
        /\ h.op = "readKey" /\ h.type = f.type /\ h.id = ses.id
    BY <1>1 DEF Frame
  <2>3. f.type = "VISIT"
    BY <1>2, <1>8 DEF OwesTo
  <2>4. Then("growing", <<g>>) \/ Then("growing", <<h>>)
    BY <1>1, <1>8 DEF ReadProperty
  <2> HIDE DEF g, h
  <2>5. OwesTo(g, ses'.id) /\ OwesTo(h, ses'.id)
    BY <2>2, <2>3 DEF OwesTo, SameId
  <2>6. Goes(g) \/ Goes(h)
    BY <2>1, <2>4, <2>5
  <2>7. QED
    BY <1>3, <2>6
<1>9. CASE f.op = "readKey" /\ WriteEvent
  <2> DEFINE e == [type |-> f.type, user |-> f.user, key |-> ses.key, id |-> f.id]
  <2>1. e.type = "VISIT" /\ e.id = ses.id
    BY <1>2, <1>9 DEF OwesTo
  <2>2. log' = Append(log, e)
    BY <1>1, <1>9 DEF WriteEvent
  <2> HIDE DEF e
  <2>3. log \in Seq(Event)
    BY DEF TypeOK
  <2>4. Len(log) + 1 \in DOMAIN log' /\ log'[Len(log) + 1] = e
    BY <2>2, <2>3
  <2>5. Visited'
    BY <2>1, <2>4 DEF Visited, SameId
  <2>6. QED
    BY <2>5
<1>10. QED
  BY <1>4, <1>5, <1>6, <1>7, <1>8, <1>9

LEMMA LogStays ==
    ASSUME TypeOK, Next, SameId, Visited
    PROVE  Visited'
<1>1. log' = log \/ \E e : log' = Append(log, e)
  BY CallsQueue
     DEF Next, OnEitherThread, GenerateVisit, GenerateVisitEvent, RefreshSessionId,
         SetLoginUserId, UserIdDidChanged, ResendVisit, TakeBlock, ConfigManager,
         PostEventBuilder, ReadProperty, WriteEvent, BecomeActive, PutAside,
         GenerateAppReengage, PostBuilders, SetEnabled, HandleJavascriptBridgeMessage,
         QueueStep, keep
<1>2. log \in Seq(Event)
  BY DEF TypeOK
<1>3. \A i \in DOMAIN log : i \in DOMAIN log' /\ log'[i] = log[i]
  BY <1>1, <1>2
<1>4. QED
  BY <1>3 DEF Visited, SameId

(* Turning data collection on begins a session. *)
LEMMA TurnedOn ==
    ASSUME TypeOK, Next, ~enabled, enabled'
    PROVE  /\ Growing # <<>> /\ Head(Growing).op = "enable"
           /\ Then("growing", NewSession) /\ UNCHANGED channels
<1>1. \E b \in BOOLEAN : SetEnabled(b)
  BY CallsQueue
     DEF Next, OnEitherThread, GenerateVisit, GenerateVisitEvent, RefreshSessionId,
         SetLoginUserId, UserIdDidChanged, ResendVisit, TakeBlock, ConfigManager,
         PostEventBuilder, ReadProperty, WriteEvent, BecomeActive, PutAside,
         GenerateAppReengage, PostBuilders, HandleJavascriptBridgeMessage,
         QueueStep, keep
<1>2. PICK b \in BOOLEAN : SetEnabled(b)
  BY <1>1
<1>3. b = TRUE
  BY <1>2 DEF SetEnabled
<1>4. QED
  BY <1>2, <1>3 DEF SetEnabled, At, Top, Growing

(* A VISIT in the queue waits behind the creation of the channels, or does not *)
(* need to.                                                                    *)
Behind(i) == channels \/ Growing = <<Do("create")>> \/ CreateBefore(i)

LEMMA QueuedStays ==
    ASSUME NEW fs \in Seq(Frame), queue \in Seq(Frame), queue' = queue \o fs,
           OwedByQueue, channels => channels', Growing' = Growing \/ channels'
    PROVE  OwedByQueue'
<1>1. \A i \in DOMAIN queue : i \in DOMAIN queue' /\ queue'[i] = queue[i]
  BY Appended
<1>2. PICK i \in DOMAIN queue :
         queue[i].op = "post" /\ queue[i].type = "VISIT" /\ Behind(i)
  BY DEF OwedByQueue, Behind
<1>3. CreateBefore(i) => CreateBefore(i)'
  <2>1. SUFFICES ASSUME NEW j \in 1 .. i - 1, queue[j] = Do("create")
                 PROVE  queue'[j] = Do("create")
    BY DEF CreateBefore
  <2>2. j \in DOMAIN queue
    OBVIOUS
  <2>3. QED
    BY <1>1, <2>1, <2>2
<1>4. Behind(i)'
  BY <1>2, <1>3 DEF Behind
<1>5. QED
  BY <1>1, <1>2, <1>4 DEF OwedByQueue, Behind

LEMMA QueuedTaken ==
    ASSUME TypeOK, TakeBlock, OwedByQueue
    PROVE  OwedByGrowing' \/ OwedByQueue'
<1>1. PICK i \in DOMAIN queue :
         queue[i].op = "post" /\ queue[i].type = "VISIT" /\ Behind(i)
  BY DEF OwedByQueue, Behind
<1>2. channels' = channels /\ Growing = <<>> /\ i \in Nat
  BY Taken DEF TakeBlock
<1>3. channels \/ CreateBefore(i)
  BY <1>1, <1>2 DEF Behind
<1>4. CASE i = 1
  <2>1. channels
    BY <1>3, <1>4 DEF CreateBefore
  <2>2. OwesTo(queue[1], ses'.id)
    BY <1>1, <1>4 DEF OwesTo
  <2>3. 1 \in DOMAIN Growing' /\ Growing'[1] = queue[1]
    BY Taken
  <2>4. QED
    BY <1>2, <2>1, <2>2, <2>3 DEF OwedByGrowing
<1>5. CASE i # 1
  <2>1. i - 1 \in DOMAIN queue' /\ queue'[i - 1] = queue[i]
    BY <1>5, Taken
  <2>2. CreateBefore(i) => Growing' = <<Do("create")>> \/ CreateBefore(i - 1)'
    <3>1. SUFFICES ASSUME NEW j \in 1 .. i - 1, queue[j] = Do("create")
                   PROVE  Growing' = <<Do("create")>> \/ CreateBefore(i - 1)'
      BY DEF CreateBefore
    <3>2. CASE j = 1
      BY <3>1, <3>2, Taken
    <3>3. CASE j # 1
      <4>1. j \in DOMAIN queue /\ j - 1 \in 1 .. i - 1 - 1
        BY <1>2, <3>3, Taken
      <4>2. queue'[j - 1] = Do("create")
        BY <3>1, <3>3, <4>1, Taken
      <4>3. QED
        BY <4>1, <4>2 DEF CreateBefore
    <3>4. QED
      BY <3>2, <3>3
  <2>3. Behind(i - 1)'
    BY <1>2, <1>3, <2>2 DEF Behind
  <2>4. QED
    BY <1>1, <2>1, <2>3 DEF OwedByQueue, Behind
<1>6. QED
  BY <1>4, <1>5

(* The session whose id is written has its VISIT laid out below. *)
LEMMA NewIdOwes ==
    ASSUME TypeOK, LaidInv, ChannelsFirst, Next, ~SameId
    PROVE  HasVisit(Main') \/ OwedByGrowing'
<1>1. PICK t \in Thread : /\ stack[t] # <<>> /\ Head(stack[t]).op = "refresh"
                          /\ Then(t, <<>>) /\ UNCHANGED keep
  BY IdChanges
<1>2. stack[t] \in Seq(Frame) /\ Laid(stack[t]) /\ <<>> \in Seq(Frame)
  BY DEF TypeOK, LaidInv, Thread, Main, Growing
<1>3. 1 \in DOMAIN stack[t] /\ stack[t][1].op = "refresh"
  BY <1>1, <1>2
<1>4. PICK j \in DOMAIN stack[t] : 1 < j /\ stack[t][j].op = "visit"
  BY <1>2, <1>3 DEF Laid
<1>5. \E k \in DOMAIN (<<>> \o Tail(stack[t])) : (<<>> \o Tail(stack[t]))[k] = stack[t][j]
  BY <1>1, <1>2, <1>4, LaterFrame
<1>6. stack'[t] = <<>> \o Tail(stack[t])
  BY <1>1 DEF TypeOK, Then
<1>7. \E k \in DOMAIN stack'[t] : stack'[t][k].op = "visit"
  BY <1>4, <1>5, <1>6
<1>8. CASE t = "main"
  BY <1>7, <1>8 DEF HasVisit, Main
<1>9. CASE t = "growing"
  <2>1. Head(Growing).op = "refresh" /\ Growing # <<>>
    BY <1>1, <1>9 DEF Growing
  <2>2. channels
    BY <2>1, CreateFrame, EarlyTop DEF ChannelsFirst, PostOp
  <2>3. channels'
    BY <1>1, <2>2 DEF keep
  <2>4. QED
    BY <1>7, <1>9, <2>3 DEF OwedByGrowing, OwesTo, Growing
<1>10. QED
  BY <1>8, <1>9 DEF Thread

LEMMA EnabledOwes ==
    ASSUME TypeOK, ChannelsFirst, Next, ~enabled, enabled'
    PROVE  OwedByGrowing'
<1>1. /\ Growing # <<>> /\ Head(Growing).op = "enable"
      /\ Then("growing", NewSession) /\ channels' = channels
  BY TurnedOn
<1>2. channels'
  BY <1>1, CreateFrame, EarlyTop DEF ChannelsFirst, PostOp
<1>3. Growing' = NewSession \o Tail(Growing) /\ Growing \in Seq(Frame)
  BY <1>1, ThenStacks
<1>4. 3 \in DOMAIN NewSession /\ NewSession[3].op = "visit"
  BY DEF NewSession, Do
<1>5. \E k \in DOMAIN (NewSession \o Tail(Growing)) :
         (NewSession \o Tail(Growing))[k] = NewSession[3]
  BY <1>1, <1>3, <1>4, NewSessionType, EarlierFrame
<1>6. \E k \in DOMAIN Growing' : Growing'[k].op = "visit"
  BY <1>3, <1>4, <1>5
<1>7. QED
  BY <1>2, <1>6 DEF OwedByGrowing, OwesTo

(* What GrowingThread owes, it still owes after a step of its own. *)
LEMMA GrowingOwes ==
    ASSUME TypeOK, GrowingStep, SameId, enabled, OwedByGrowing
    PROVE  Visited' \/ OwedByGrowing'
<1>1. /\ channels /\ channels' = channels /\ Growing # <<>> /\ Growing \in Seq(Frame)
      /\ Growing[1] = Head(Growing)
  BY StackTypes DEF GrowingStep, OwedByGrowing
<1>2. PICK i \in DOMAIN Growing : OwesTo(Growing[i], ses.id)
  BY DEF OwedByGrowing
<1>3. CASE i = 1
  <2>1. CASE Visited'
    BY <2>1
  <2>2. CASE ~Visited'
    <3>1. PICK fs \in Seq(Frame) : /\ Then("growing", fs)
                                   /\ \E k \in DOMAIN fs : OwesTo(fs[k], ses'.id)
      BY <1>1, <1>2, <1>3, <2>2, OwedGoesOn
    <3>2. PICK k \in DOMAIN fs : OwesTo(fs[k], ses'.id)
      BY <3>1
    <3>3. Growing' = fs \o Tail(Growing)
      BY <3>1, ThenStacks
    <3>4. \E n \in DOMAIN (fs \o Tail(Growing)) : (fs \o Tail(Growing))[n] = fs[k]
      BY <1>1, EarlierFrame
    <3>5. \E n \in DOMAIN Growing' : OwesTo(Growing'[n], ses'.id)
      BY <3>2, <3>3, <3>4
    <3>6. QED
      BY <1>1, <3>5 DEF OwedByGrowing
  <2>3. QED
    BY <2>1, <2>2
<1>4. CASE i # 1
  <2>1. PICK fs \in Seq(Frame) : Then("growing", fs)
    BY DEF GrowingStep
  <2>2. Growing' = fs \o Tail(Growing)
    BY <2>1, ThenStacks
  <2>3. i > 1
    BY <1>1, <1>4
  <2>4. \E n \in DOMAIN (fs \o Tail(Growing)) : (fs \o Tail(Growing))[n] = Growing[i]
    BY <1>1, <2>3, LaterFrame
  <2>5. \E n \in DOMAIN Growing' : OwesTo(Growing'[n], ses'.id)
    BY <1>2, <2>2, <2>4 DEF SameId
  <2>6. QED
    BY <1>1, <2>5 DEF OwedByGrowing
<1>5. QED
  BY <1>3, <1>4

(* What the main thread owes, it passes to the queue behind the channels. *)
LEMMA MainOwes ==
    ASSUME TypeOK, LaidInv, ChannelsFirst, Next, MainStep, enabled, HasVisit(Main)
    PROVE  HasVisit(Main') \/ OwedByQueue'
<1>1. Main # <<>> /\ Main \in Seq(Frame) /\ Main[1] = Head(Main) /\ Main # StartUp
  BY ThenStacks, StartUpShape DEF MainStep
<1>2. PICK i \in DOMAIN Main : Main[i].op \in {"visit", "dispatchVisit"}
  BY DEF HasVisit
<1>3. PICK fs \in Seq(Frame) : Then("main", fs)
  BY DEF MainStep
<1>4. Main' = fs \o Tail(Main) /\ Growing' = Growing
  BY <1>3, ThenStacks
<1>5. CASE i # 1
  <2>1. i > 1
    BY <1>1, <1>5
  <2>2. \E n \in DOMAIN (fs \o Tail(Main)) : (fs \o Tail(Main))[n] = Main[i]
    BY <1>1, <2>1, LaterFrame
  <2>3. QED
    BY <1>2, <1>4, <2>2 DEF HasVisit
<1>6. CASE i = 1
  <2>1. /\ Top("main") = Main[1] /\ stack["main"] # <<>>
        /\ Top("main").op \in {"visit", "dispatchVisit"}
    BY <1>1, <1>2, <1>6 DEF Main, Top
  <2>2. GenerateVisit("main") \/ GenerateVisitEvent("main")
    BY <2>1 DEF MainStep, OnEitherThread, RefreshSessionId, SetLoginUserId, UserIdDidChanged,
                ResendVisit, At
  <2>3. CASE GenerateVisit("main")
    <3>1. Then("main", <<Do("dispatchVisit")>>)
      BY <2>3 DEF GenerateVisit
    <3>2. Main' = <<Do("dispatchVisit")>> \o Tail(Main)
      BY <3>1, ThenStacks
    <3>3. Do("dispatchVisit") \in Frame /\ Do("dispatchVisit").op = "dispatchVisit"
      BY FrameTypes DEF Op, Do
    <3>4. /\ <<Do("dispatchVisit")>> \in Seq(Frame) /\ 1 \in DOMAIN <<Do("dispatchVisit")>>
          /\ <<Do("dispatchVisit")>>[1] = Do("dispatchVisit")
      BY <3>3
    <3>5. \E n \in DOMAIN (<<Do("dispatchVisit")>> \o Tail(Main)) :
             (<<Do("dispatchVisit")>> \o Tail(Main))[n] = <<Do("dispatchVisit")>>[1]
      BY <1>1, <3>4, EarlierFrame
    <3>6. QED
      BY <3>2, <3>3, <3>4, <3>5 DEF HasVisit
  <2>4. CASE GenerateVisitEvent("main")
    <3>1. queue' = Append(queue, Post("VISIT")) /\ channels' = channels
      BY <2>4 DEF GenerateVisitEvent
    <3>2. /\ Post("VISIT") \in Frame /\ Post("VISIT").op = "post" /\ Post("VISIT").type = "VISIT"
          /\ queue \in Seq(Frame)
      BY FrameTypes DEF Type, Post, Do, TypeOK
    <3>3. PICK n \in Nat : n = Len(queue) + 1
      BY <3>2
    <3>4. /\ n \in DOMAIN queue' /\ queue'[n] = Post("VISIT")
          /\ \A k \in DOMAIN queue : k \in 1 .. n - 1 /\ queue'[k] = queue[k]
      BY <3>1, <3>2, <3>3
    <3>5. Waits => CreateBefore(n)'
      BY <3>4 DEF Waits, CreateBefore
    <3>6. Behind(n)'
      BY <1>1, <1>4, <3>1, <3>5 DEF ChannelsFirst, Behind
    <3>7. QED
      BY <3>2, <3>4, <3>6 DEF OwedByQueue, Behind
  <2>5. QED
    BY <2>2, <2>3, <2>4
<1>7. QED
  BY <1>5, <1>6

LEMMA OwingKept ==
    ASSUME TypeOK, LaidInv, ChannelsFirst, Owing, Next
    PROVE  Owing'
<1> SUFFICES ASSUME enabled'
             PROVE  Visited' \/ HasVisit(Main') \/ OwedByGrowing' \/ OwedByQueue'
  BY DEF Owing
<1>0. queue \in Seq(Frame)
  BY DEF TypeOK
<1>1. CASE ~SameId
  BY <1>1, NewIdOwes
<1>2. CASE ~enabled
  BY <1>2, EnabledOwes
<1>3. ASSUME SameId, enabled
      PROVE  Visited' \/ HasVisit(Main') \/ OwedByGrowing' \/ OwedByQueue'
  <2>1. Visited \/ HasVisit(Main) \/ OwedByGrowing \/ OwedByQueue
    BY <1>3 DEF Owing
  <2>2. CASE Visited
    BY <1>3, <2>2, LogStays
  <2>3. CASE GrowingStep
    <3>1. PICK fs \in Seq(Frame) : Then("growing", fs)
      BY <2>3 DEF GrowingStep
    <3>2. Main' = Main /\ queue' = queue /\ channels' = channels
      BY <2>3, <3>1, ThenStacks DEF GrowingStep
    <3>3. Growing # <<Do("create")>>
      BY <2>3, CreateFrame DEF GrowingStep
    <3>4. OwedByQueue => OwedByQueue'
      <4>1. SUFFICES ASSUME OwedByQueue
                     PROVE  OwedByQueue'
        OBVIOUS
      <4>2. PICK i \in DOMAIN queue :
               queue[i].op = "post" /\ queue[i].type = "VISIT" /\ Behind(i)
        BY <4>1 DEF OwedByQueue, Behind
      <4>3. channels \/ CreateBefore(i)
        BY <3>3, <4>2 DEF Behind
      <4>4. Behind(i)'
        BY <3>2, <4>3 DEF Behind, CreateBefore
      <4>5. QED
        BY <3>2, <4>2, <4>4 DEF OwedByQueue, Behind
    <3>5. QED
      BY <1>3, <2>1, <2>2, <2>3, <3>2, <3>4, GrowingOwes
  <2>4. CASE MainStep
    <3>1. PICK fs \in Seq(Frame) : Then("main", fs)
      BY <2>4 DEF MainStep
    <3>2. Growing' = Growing /\ channels' = channels
      BY <2>4, <3>1, ThenStacks DEF MainStep
    <3>3. OwedByGrowing => OwedByGrowing'
      BY <1>3, <3>2 DEF OwedByGrowing, SameId
    <3>4. \E gs \in Seq(Frame) : queue' = queue \o gs
      <4>1. Post("VISIT") \in Frame
        BY FrameTypes DEF Type
      <4>2. <<>> \in Seq(Frame) /\ <<Post("VISIT")>> \in Seq(Frame) /\ queue = queue \o <<>>
        BY <1>0, <4>1
      <4>3. QED
        BY <1>0, <2>4, <4>1, <4>2, AppendIsConcat DEF MainStep
    <3>5. OwedByQueue => OwedByQueue'
      BY <1>0, <3>2, <3>4, QueuedStays
    <3>6. QED
      BY <1>3, <2>1, <2>2, <2>4, <3>3, <3>5, MainOwes
  <2>5. CASE TakeBlock
    <3>1. Growing = <<>> /\ Main' = Main
      BY <2>5, Taken
    <3>2. ~OwedByGrowing
      BY <3>1 DEF OwedByGrowing
    <3>3. QED
      BY <2>1, <2>2, <2>5, <3>1, <3>2, QueuedTaken
  <2>6. CASE ConfigManager
    <3>1. CASE /\ Main # <<>> /\ Head(Main).op = "config"
               /\ Then("main", <<>>) /\ queue' = Append(queue, Do("create"))
      <4>1. Main' = <<>> \o Tail(Main) /\ Main \in Seq(Frame) /\ Main[1] = Head(Main)
        <5>1. Main' = <<>> \o Tail(Main) /\ Main \in Seq(Frame)
          BY <3>1, ThenStacks, Zenon
        <5>2. QED
          BY <3>1, <5>1
      <4>2. 1 \in DOMAIN Main
        BY <3>1, <4>1
      <4>3. Main = StartUp
        BY <3>1, <4>1, <4>2 DEF LaidInv
      <4>4. Main' = <<Do("visit")>>
        BY <4>1, <4>3, StartUpShape
      <4>5. QED
        BY <4>4, StartUpShape DEF HasVisit
    <3>2. CASE /\ Growing # <<>> /\ Head(Growing).op = "create"
               /\ Then("growing", <<>>) /\ channels' = TRUE /\ queue' = queue
      <4>1. Growing' = <<>> \o Tail(Growing) /\ Main' = Main /\ Growing \in Seq(Frame)
        BY <3>2, ThenStacks
      <4>2. <<>> \in Seq(Frame) /\ Growing[1] = Head(Growing) /\ queue = queue \o <<>>
        BY <1>0, <3>2, <4>1
      <4>3. OwedByGrowing => OwedByGrowing'
        <5>1. SUFFICES ASSUME NEW i \in DOMAIN Growing, OwesTo(Growing[i], ses.id)
                       PROVE  OwedByGrowing'
          BY DEF OwedByGrowing
        <5>2. i > 1
          BY <3>2, <4>1, <4>2, <5>1 DEF OwesTo
        <5>3. \E k \in DOMAIN (<<>> \o Tail(Growing)) : (<<>> \o Tail(Growing))[k] = Growing[i]
          BY <3>2, <4>1, <4>2, <5>2, LaterFrame
        <5>4. \E k \in DOMAIN Growing' : OwesTo(Growing'[k], ses'.id)
          BY <1>3, <4>1, <5>1, <5>3 DEF SameId
        <5>5. QED
          BY <3>2, <5>4 DEF OwedByGrowing
      <4>4. OwedByQueue => OwedByQueue'
        BY <1>0, <3>2, <4>2, QueuedStays
      <4>5. QED
        BY <2>1, <2>2, <4>1, <4>3, <4>4
    <3>3. QED
      BY <2>6, <3>1, <3>2 DEF ConfigManager, At, Top, Main, Growing
  <2>7. CASE QueueStep
    <3>1. Main' = Main /\ Growing' = Growing /\ channels' = channels
      BY <2>7 DEF QueueStep, Main, Growing
    <3>2. OwedByGrowing => OwedByGrowing'
      BY <1>3, <3>1 DEF OwedByGrowing, SameId
    <3>3. OwedByQueue => OwedByQueue'
      BY <1>0, <2>7, <3>1, QueuedStays DEF QueueStep
    <3>4. QED
      BY <2>1, <2>2, <3>1, <3>2, <3>3
  <2>8. CASE BridgeLogin
    <3>1. Main = <<>> /\ Growing' = Growing /\ channels' = channels /\ queue' = queue
      BY <2>8 DEF BridgeLogin
    <3>2. ~HasVisit(Main)
      BY <3>1 DEF HasVisit
    <3>3. OwedByGrowing => OwedByGrowing'
      BY <1>3, <3>1 DEF OwedByGrowing, SameId
    <3>4. OwedByQueue => OwedByQueue'
      BY <3>1 DEF OwedByQueue, CreateBefore
    <3>5. QED
      BY <2>1, <2>2, <3>2, <3>3, <3>4
  <2>9. QED
    BY <2>3, <2>4, <2>5, <2>6, <2>7, <2>8, StepKinds
<1>4. QED
  BY <1>1, <1>2, <1>3

(* The tracker starts with the first session's VISIT laid out behind the *)
(* channels.                                                             *)
LEMMA InitRests ==
    ASSUME Init
    PROVE  RestInv
<1>1. TypeOK
  BY InitType
<1>2. Main = StartUp /\ Growing = <<>> /\ queue = <<>>
  BY DEF Init, Thread, Main, Growing
<1>3. DOMAIN StartUp = 1 .. 2 /\ StartUp[1].op = "config" /\ StartUp[2].op = "visit"
  BY DEF StartUp, Do
<1>4. Laid(StartUp) /\ HasVisit(StartUp)
  BY <1>3 DEF Laid, HasVisit
<1>5. LaidInv
  BY <1>2, <1>4, EmptyIsLaid DEF LaidInv, Whole
<1>6. ChannelsFirst
  BY <1>2, EmptyIsLaid DEF ChannelsFirst
<1>7. QED
  BY <1>1, <1>2, <1>4, <1>5, <1>6 DEF RestInv, Owing

(***************************************************************************)
(* Whatever a page changes on the main thread meanwhile: once all is done  *)
(* and data collection is on, the current session has its VISIT.           *)
(***************************************************************************)
THEOREM RestIsVisited == Spec => []AtRestVisited
<1>1. Init => RestInv
  BY InitRests
<1>2. RestInv /\ [Next]_vars => RestInv'
  <2>1. CASE Next
    BY <2>1, NextType, LaidKept, ChannelsKept, OwingKept DEF RestInv
  <2>2. CASE UNCHANGED vars
    <3>1. UNCHANGED <<ses, stack, enabled, channels, builders, queue, log, app, calls, races>>
      BY <2>2 DEF vars, keep, env
    <3>2. Main' = Main /\ Growing' = Growing
      BY <3>1 DEF Main, Growing
    <3>3. TypeOK' = TypeOK
      BY <3>1 DEF TypeOK
    <3>4. LaidInv' = LaidInv /\ ChannelsFirst' = ChannelsFirst
      BY <3>1, <3>2 DEF LaidInv, ChannelsFirst, Waits
    <3>5. Owing' = Owing
      BY <3>1, <3>2 DEF Owing, Visited, OwedByGrowing, OwedByQueue, CreateBefore
    <3>6. QED
      BY <3>3, <3>4, <3>5 DEF RestInv
  <2>3. QED
    BY <2>1, <2>2
<1>3. RestInv => AtRestVisited
  BY DEF RestInv, Owing, AtRestVisited, Visited, HasVisit, OwedByGrowing, OwedByQueue,
         Main, Growing, Thread
<1>4. QED
  BY <1>1, <1>2, <1>3, PTL DEF Spec

-----------------------------------------------------------------------------
(***************************************************************************)
(* A deep link is attributed to the session of the return.  The blocks of  *)
(* the life cycle and of app_reengage run on an empty stack (Lone), so the *)
(* state of the session cannot change while the posts they make wait on    *)
(* it; and the builders are posted right after the block that makes the    *)
(* session active, because one call queues both.                           *)
(***************************************************************************)
Lone == {"become", "resign", "background", "reengage", "postBuilders"}

Active == ses.state = "active"

(* What is on GrowingThread's stack. *)
StackReengages ==
    \A i \in DOMAIN Growing :
        /\ Growing[i].op \in Lone => i = 1 /\ Len(Growing) = 1
        /\ Growing[i].type = "REENGAGE" \/ Growing[i].op = "postBuilders" => Active

(* The block before the queue leaves the session active. *)
BecomesActive ==
    \/ Growing = <<Do("become")>>
    \/ Active /\ ~At("growing", "resign") /\ ~At("growing", "background")

QueueReengages ==
    \A i \in DOMAIN queue :
        /\ queue[i].type # "REENGAGE"
        /\ queue[i].op = "postBuilders" =>
              IF i = 1 THEN BecomesActive ELSE queue[i - 1] = Do("become")

ReengageInv == TypeOK /\ StackReengages /\ QueueReengages

(* The frames fs may be left by a step. *)
Quiet(fs, active) ==
    /\ fs \in Seq(Frame)
    /\ \A i \in DOMAIN fs : /\ fs[i].op \notin Lone
                            /\ fs[i].type = "REENGAGE" => active

LEMMA QuietOne ==
    ASSUME NEW active, NEW f \in Frame, f.op \notin Lone, f.type = "REENGAGE" => active
    PROVE  Quiet(<<f>>, active)
BY DEF Quiet

LEMMA QuietNone == \A active : Quiet(<<>>, active)
BY DEF Quiet

LEMMA QuietSession == \A active : Quiet(NewSession, active)
<1>1. /\ DOMAIN NewSession = 1 .. 3
      /\ \A i \in 1 .. 3 : NewSession[i].op \notin Lone /\ NewSession[i].type = "VISIT"
  BY DEF NewSession, Do, Lone
<1>2. QED
  BY <1>1, NewSessionType DEF Quiet

(* What a step of GrowingThread does to the state and to its stack. *)
Turns(fs) ==
    /\ Then("growing", fs) /\ Quiet(fs, Active')
    /\ Head(Growing).op = "become" => Active'
    /\ Head(Growing).op \notin {"become", "resign", "background"} => (Active' <=> Active)

LEMMA EitherThreadTurns ==
    ASSUME TypeOK, NEW t \in Thread, OnEitherThread(t)
    PROVE  /\ ses'.state = ses.state /\ stack[t] # <<>>
           /\ \E fs : Then(t, fs) /\ Quiet(fs, Top(t).type = "REENGAGE")
<1> DEFINE f == Top(t)
           a == f.type = "REENGAGE"
<1>1. stack[t] # <<>> /\ ses \in Ses
  BY DEF OnEitherThread, GenerateVisit, GenerateVisitEvent, RefreshSessionId, SetLoginUserId,
         UserIdDidChanged, ResendVisit, At, TypeOK
<1>2. f \in Frame
  BY <1>1, TopType
<1> HIDE DEF f, a
<1>3. CASE RefreshSessionId(t)
  <2>1. Then(t, <<>>) /\ ses'.state = ses.state
    BY <1>1, <1>3 DEF RefreshSessionId, Set, Ses
  <2>2. QED
    BY <1>1, <2>1, QuietNone
<1>4. CASE GenerateVisit(t)
  <2>1. Do("dispatchVisit") \in Frame /\ Do("dispatchVisit").op = "dispatchVisit"
        /\ Do("dispatchVisit").type = "VISIT"
    BY FrameTypes DEF Op, Do
  <2>2. Quiet(<<Do("dispatchVisit")>>, a)
    BY <2>1, QuietOne DEF Lone
  <2>3. (Then(t, <<>>) \/ Then(t, <<Do("dispatchVisit")>>)) /\ ses'.state = ses.state
    BY <1>1, <1>4 DEF GenerateVisit, Set, Ses
  <2>4. QED
    BY <1>1, <2>2, <2>3, QuietNone DEF a, f
<1>5. CASE GenerateVisitEvent(t)
  <2>1. Post("VISIT") \in Frame /\ Post("VISIT").op = "post" /\ Post("VISIT").type = "VISIT"
    BY FrameTypes DEF Type, Post, Do
  <2>2. Quiet(<<Post("VISIT")>>, a)
    BY <2>1, QuietOne DEF Lone
  <2>3. (Then(t, <<>>) \/ Then(t, <<Post("VISIT")>>)) /\ ses'.state = ses.state
    BY <1>5 DEF GenerateVisitEvent
  <2>4. QED
    BY <1>1, <2>2, <2>3, QuietNone DEF a, f
<1>6. CASE SetLoginUserId(t)
  <2> DEFINE g == [f EXCEPT !.op = "setUser"]
             h == [f EXCEPT !.op = "setKey", !.old = ses.user]
             k == [f EXCEPT !.op = "userChanged"]
  <2>1. g \in Frame /\ h \in Frame /\ k \in Frame
    BY <1>2, FrameFields, SesFields DEF Op
  <2>2. /\ g.op = "setUser" /\ h.op = "setKey" /\ k.op = "userChanged"
        /\ g.type = f.type /\ h.type = f.type /\ k.type = f.type
    BY <1>2 DEF Frame
  <2>3. Then(t, <<>>) \/ Then(t, <<g>>) \/ Then(t, <<h>>) \/ Then(t, <<k>>)
    BY <1>6 DEF SetLoginUserId, f
  <2>4. ses'.state = ses.state
    BY <1>1, <1>6 DEF SetLoginUserId, Set, Ses
  <2> HIDE DEF g, h, k
  <2>5. Quiet(<<g>>, a) /\ Quiet(<<h>>, a) /\ Quiet(<<k>>, a)
    BY <2>1, <2>2, QuietOne DEF Lone, a
  <2>6. QED
    BY <1>1, <2>3, <2>4, <2>5, QuietNone DEF a, f
<1>7. CASE UserIdDidChanged(t)
  <2> DEFINE g == [f EXCEPT !.op = "latest"]
  <2>1. g \in Frame
    BY <1>2, FrameFields DEF Op
  <2>2. g.op = "latest" /\ g.type = f.type
    BY <1>2 DEF Frame
  <2>3. (Then(t, <<>>) \/ Then(t, <<g>>)) /\ ses'.state = ses.state
    BY <1>7 DEF UserIdDidChanged, f
  <2> HIDE DEF g
  <2>4. Quiet(<<g>>, a)
    BY <2>1, <2>2, QuietOne DEF Lone, a
  <2>5. QED
    BY <1>1, <2>3, <2>4, QuietNone DEF a, f
<1>8. CASE ResendVisit(t)
  <2>1. (Then(t, <<>>) \/ Then(t, NewSession)) /\ ses'.state = ses.state
    BY <1>1, <1>8 DEF ResendVisit, Set, Ses
  <2>2. QED
    BY <1>1, <2>1, QuietNone, QuietSession
<1>9. QED
  BY <1>3, <1>4, <1>5, <1>6, <1>7, <1>8 DEF OnEitherThread

LEMMA GrowingTurns ==
    ASSUME TypeOK, StackReengages, GrowingStep
    PROVE  \E fs : Turns(fs)
<1> DEFINE f == Head(Growing)
<1>1. Growing # <<>> /\ f = Top("growing") /\ f \in Frame /\ ses \in Ses
  BY StackTypes DEF GrowingStep, Growing, Top, TypeOK
<1>2. f.type = "REENGAGE" \/ f.op = "postBuilders" => Active
  BY <1>1, StackTypes DEF StackReengages, f
<1> HIDE DEF f
<1>3. SUFFICES \E fs : /\ Then("growing", fs) /\ Quiet(fs, Active')
                       /\ f.op = "become" => Active'
                       /\ f.op \notin {"become", "resign", "background"} => (Active' <=> Active)
  BY DEF Turns, f
<1>4. \A fs, g : Quiet(fs, Active) /\ ses'.state = ses.state => Quiet(fs, Active')
  BY DEF Active
<1>5. CASE OnEitherThread("growing")
  <2>1. /\ ses'.state = ses.state
        /\ \E fs : Then("growing", fs) /\ Quiet(fs, f.type = "REENGAGE")
    BY <1>1, <1>5, EitherThreadTurns DEF Thread
  <2>2. \A fs : Quiet(fs, f.type = "REENGAGE") => Quiet(fs, Active)
    BY <1>2 DEF Quiet
  <2>3. f.op \notin {"become", "resign", "background"}
    BY <1>1, <1>5 DEF OnEitherThread, GenerateVisit, GenerateVisitEvent, RefreshSessionId,
                      SetLoginUserId, UserIdDidChanged, ResendVisit, At
  <2>4. QED
    BY <1>4, <2>1, <2>2, <2>3 DEF Active
<1>6. CASE PostEventBuilder
  <2> DEFINE g == [f EXCEPT !.op = "readUser"]
  <2>1. g \in Frame
    BY <1>1, FrameFields DEF Op
  <2>2. g.op = "readUser" /\ g.type = f.type
    BY <1>1 DEF Frame
  <2>3. /\ Then("growing", IF ~enabled THEN <<>>
                           ELSE (IF ses.sent THEN <<>> ELSE <<Do("visit")>>) \o <<g>>)
        /\ ses' = ses /\ f.op = "post"
    BY <1>1, <1>6 DEF PostEventBuilder, At
  <2> HIDE DEF g
  <2>4. Then("growing", <<>>) \/ Then("growing", <<g>>) \/ Then("growing", <<Do("visit"), g>>)
    BY <2>1, <2>3, VisitBefore
  <2>5. Quiet(<<g>>, Active)
    BY <1>2, <2>1, <2>2, QuietOne DEF Lone
  <2>6. Quiet(<<Do("visit"), g>>, Active)
    <3>1. PICK fs : fs = <<Do("visit"), g>>
      OBVIOUS
    <3>2. /\ fs \in Seq(Frame) /\ DOMAIN fs = 1 .. 2
          /\ fs[1] = Do("visit") /\ fs[2] = g
      <4>1. <<Do("visit"), g>> \in Seq(Frame)
        BY <2>1, VisitBefore
      <4>2. fs \in Seq(Frame)
        BY <3>1, <4>1, Zenon
      <4>3. QED
        BY <3>1, <4>2
    <3>3. Do("visit").op = "visit" /\ Do("visit").type = "VISIT"
      BY DEF Do
    <3>4. Quiet(fs, Active)
      BY <1>2, <2>2, <3>2, <3>3 DEF Quiet, Lone
    <3>5. QED
      BY <3>1, <3>4
  <2>7. QED
    BY <1>4, <2>3, <2>4, <2>5, <2>6, QuietNone DEF Active
<1>7. CASE ReadProperty
  <2> DEFINE g == [f EXCEPT !.op = "readId", !.user = ses.user]
             h == [f EXCEPT !.op = "readKey", !.id = ses.id]
  <2>1. g \in Frame /\ h \in Frame
    BY <1>1, FrameFields, SesFields DEF Op
  <2>2. /\ g.op = "readId" /\ g.type = f.type
        /\ h.op = "readKey" /\ h.type = f.type
    BY <1>1 DEF Frame
  <2>3. /\ Then("growing", <<g>>) \/ Then("growing", <<h>>)
        /\ ses' = ses /\ f.op \in {"readUser", "readId"}
    BY <1>1, <1>7 DEF ReadProperty, At
  <2> HIDE DEF g, h
  <2>4. Quiet(<<g>>, Active) /\ Quiet(<<h>>, Active)
    BY <1>2, <2>1, <2>2, QuietOne DEF Lone
  <2>5. QED
    BY <1>4, <2>3, <2>4 DEF Active
<1>8. CASE WriteEvent \/ \E b \in BOOLEAN : SetEnabled(b)
  <2>1. /\ Then("growing", <<>>) \/ Then("growing", NewSession)
        /\ ses' = ses /\ f.op \in {"readKey", "enable", "disable"}
    BY <1>1, <1>8 DEF WriteEvent, SetEnabled, At
  <2>2. QED
    BY <2>1, QuietNone, QuietSession DEF Active
<1>9. CASE BecomeActive
  <2>1. /\ Then("growing", <<>>) \/ Then("growing", NewSession)
        /\ Active' /\ f.op = "become"
    BY <1>1, <1>9 DEF BecomeActive, At, Set, Ses, Active
  <2>2. QED
    BY <2>1, QuietNone, QuietSession
<1>10. CASE PutAside
  <2>1. Post("APP_CLOSED") \in Frame /\ Post("APP_CLOSED").op = "post"
        /\ Post("APP_CLOSED").type = "APP_CLOSED"
    BY FrameTypes DEF Type, Post, Do
  <2>2. Quiet(<<Post("APP_CLOSED")>>, Active')
    BY <2>1, QuietOne DEF Lone
  <2>3. /\ Then("growing", <<>>) \/ Then("growing", <<Post("APP_CLOSED")>>)
        /\ f.op \in {"resign", "background"}
    BY <1>1, <1>10 DEF PutAside, At
  <2>4. QED
    BY <2>2, <2>3, QuietNone
<1>11. CASE GenerateAppReengage
  <2>1. Post("REENGAGE") \in Frame /\ Post("REENGAGE").op = "post"
    BY FrameTypes DEF Type, Post, Do
  <2>2. Active => Quiet(<<Post("REENGAGE")>>, Active)
    BY <2>1, QuietOne DEF Lone
  <2>3. /\ Then("growing", <<>>) \/ (Active /\ Then("growing", <<Post("REENGAGE")>>))
        /\ ses' = ses /\ f.op = "reengage"
    BY <1>1, <1>11 DEF GenerateAppReengage, At, Active
  <2>4. QED
    BY <1>4, <2>2, <2>3, QuietNone DEF Active
<1>12. CASE PostBuilders
  <2>1. builders \in Nat /\ Post("REENGAGE") \in Frame /\ Post("REENGAGE").op = "post"
    BY FrameTypes DEF TypeOK, Type, Post, Do
  <2>2. PICK fs : fs = [i \in 1..builders |-> Post("REENGAGE")]
    OBVIOUS
  <2>3. fs \in Seq(Frame) /\ \A i \in DOMAIN fs : fs[i] = Post("REENGAGE")
    <3>1. fs \in [1..builders -> Frame]
      BY <2>1, <2>2
    <3>2. QED
      BY <2>1, <2>2, <3>1, SeqDef
  <2>4. Then("growing", fs) /\ ses' = ses /\ f.op = "postBuilders"
    BY <1>1, <1>12, <2>2 DEF PostBuilders, At
  <2>5. Quiet(fs, Active)
    BY <1>2, <2>1, <2>3, <2>4 DEF Quiet, Lone
  <2>6. QED
    BY <1>4, <2>4, <2>5 DEF Active
<1>13. QED
  BY <1>5, <1>6, <1>7, <1>8, <1>9, <1>10, <1>11, <1>12 DEF GrowingStep, OnGrowingThread

LEMMA StillActive ==
    ASSUME TypeOK, MainStep \/ TakeBlock \/ ConfigManager \/ QueueStep \/ BridgeLogin
    PROVE  Active' <=> Active
<1>1. MainStep => ses'.state = ses.state
  BY EitherThreadTurns DEF MainStep, Thread
<1>2. QED
  BY <1>1 DEF TakeBlock, ConfigManager, QueueStep, BridgeLogin, Active

(* The stack after a step of GrowingThread. *)
LEMMA StackTurns ==
    ASSUME TypeOK, StackReengages, GrowingStep, NEW fs, Turns(fs)
    PROVE  /\ Growing' \in Seq(Frame)
           /\ \A k \in DOMAIN Growing' :
                 /\ Growing'[k].op \notin Lone
                 /\ Growing'[k].type = "REENGAGE" => Active'
<1>1. /\ Growing' = fs \o Tail(Growing) /\ Growing \in Seq(Frame) /\ Growing # <<>>
      /\ fs \in Seq(Frame) /\ Quiet(fs, Active')
  BY ThenStacks DEF Turns, Quiet, GrowingStep
<1>2. PICK r : r = fs \o Tail(Growing)
  OBVIOUS
<1>3. /\ r \in Seq(Frame)
      /\ \A k \in DOMAIN r :
            \/ k \in DOMAIN fs /\ r[k] = fs[k]
            \/ /\ k > Len(fs)
               /\ k - Len(fs) + 1 \in DOMAIN Growing /\ k - Len(fs) + 1 > 1
               /\ r[k] = Growing[k - Len(fs) + 1]
  BY <1>1, <1>2, Stacked
<1>4. ASSUME NEW k \in DOMAIN r
      PROVE  r[k].op \notin Lone /\ (r[k].type = "REENGAGE" => Active')
  <2>1. CASE k \in DOMAIN fs /\ r[k] = fs[k]
    BY <1>1, <2>1 DEF Quiet
  <2>2. ASSUME NEW i \in DOMAIN Growing, i > 1, r[k] = Growing[i]
        PROVE  r[k].op \notin Lone /\ (r[k].type = "REENGAGE" => Active')
    <3>1. r[k].op \notin Lone
      BY <2>2 DEF StackReengages
    <3>2. 1 \in DOMAIN Growing /\ Growing[1] = Head(Growing) /\ Len(Growing) # 1
      BY <1>1, <2>2
    <3>3. Head(Growing).op \notin Lone
      BY <3>2 DEF StackReengages
    <3>4. Active' <=> Active
      BY <3>3 DEF Turns, Lone
    <3>5. QED
      BY <2>2, <3>1, <3>4 DEF StackReengages
  <2>3. QED
    BY <1>3, <2>1, <2>2
<1>5. QED
  BY <1>1, <1>2, <1>3, <1>4

LEMMA StackReengagesKept ==
    ASSUME TypeOK, ReengageInv, Next
    PROVE  StackReengages'
<1>1. CASE GrowingStep
  <2>1. PICK fs : Turns(fs)
    BY <1>1, GrowingTurns DEF ReengageInv
  <2>2. \A k \in DOMAIN Growing' :
           Growing'[k].op \notin Lone /\ (Growing'[k].type = "REENGAGE" => Active')
    BY <1>1, <2>1, StackTurns DEF ReengageInv
  <2>3. QED
    BY <2>2 DEF StackReengages, Lone
<1>2. CASE Growing' = Growing /\ (Active' <=> Active)
  BY <1>2 DEF ReengageInv, StackReengages
<1>3. CASE TakeBlock
  <2>1. Growing' = <<queue[1]>> /\ 1 \in DOMAIN queue /\ queue[1] \in Frame /\ Growing = <<>>
    BY <1>3, Taken
  <2>2. queue[1].type # "REENGAGE" /\ (queue[1].op = "postBuilders" => BecomesActive)
    BY <2>1 DEF ReengageInv, QueueReengages
  <2>3. BecomesActive => Active'
    BY <1>3, <2>1, StillActive DEF BecomesActive
  <2>4. DOMAIN Growing' = {1} /\ Growing'[1] = queue[1] /\ Len(Growing') = 1
    BY <2>1
  <2>5. QED
    BY <2>2, <2>3, <2>4 DEF StackReengages
<1>4. CASE ConfigManager /\ Growing' # Growing
  <2>1. Growing # <<>> /\ Then("growing", <<>>)
    BY <1>4, ThenStacks DEF ConfigManager, At, Growing
  <2>2. Growing' = <<>> \o Tail(Growing) /\ Growing \in Seq(Frame)
    BY <2>1, ThenStacks
  <2>3. \A k \in DOMAIN Growing' : k + 1 \in DOMAIN Growing /\ Growing'[k] = Growing[k + 1]
    BY <2>1, <2>2
  <2>4. \A k \in DOMAIN Growing' : k + 1 # 1
    BY <2>2
  <2>5. Active' <=> Active
    BY <1>4, StillActive
  <2>6. QED
    BY <2>3, <2>4, <2>5 DEF ReengageInv, StackReengages, Lone
<1>5. CASE MainStep \/ QueueStep \/ BridgeLogin
  <2>1. Growing' = Growing
    BY <1>5, ThenStacks DEF MainStep, QueueStep, BridgeLogin, Growing
  <2>2. QED
    BY <1>2, <1>5, <2>1, StillActive
<1>6. CASE ConfigManager /\ Growing' = Growing
  BY <1>2, <1>6, StillActive
<1>7. QED
  BY <1>1, <1>3, <1>4, <1>5, <1>6, StepKinds

(* What holds before the block holds while other blocks run. *)
LEMMA BecomesActiveKept ==
    ASSUME TypeOK, ReengageInv, Next, ~TakeBlock, BecomesActive
    PROVE  BecomesActive'
<1>1. CASE GrowingStep
  <2>1. PICK fs : Turns(fs)
    BY <1>1, GrowingTurns DEF ReengageInv
  <2>2. Active'
    <3>1. CASE Growing = <<Do("become")>>
      BY <2>1, <3>1 DEF Turns, Do
    <3>2. CASE Active /\ ~At("growing", "resign") /\ ~At("growing", "background")
      <4>1. Head(Growing).op \notin {"resign", "background"}
        BY <1>1, <3>2 DEF At, Top, Growing, GrowingStep
      <4>2. QED
        BY <2>1, <3>2, <4>1 DEF Turns
    <3>3. QED
      BY <3>1, <3>2 DEF BecomesActive
  <2>3. Growing' # <<>> => Head(Growing').op \notin Lone
    <3>1. /\ Growing' \in Seq(Frame)
          /\ \A k \in DOMAIN Growing' : Growing'[k].op \notin Lone
      BY <1>1, <2>1, StackTurns DEF ReengageInv
    <3>2. Growing' # <<>> => 1 \in DOMAIN Growing' /\ Growing'[1] = Head(Growing')
      BY <3>1
    <3>3. QED
      BY <3>1, <3>2
  <2>4. QED
    BY <2>2, <2>3 DEF BecomesActive, At, Top, Growing, Lone
<1>2. CASE MainStep \/ QueueStep \/ BridgeLogin
  <2>1. Growing' = Growing
    BY <1>2, ThenStacks DEF MainStep, QueueStep, BridgeLogin, Growing
  <2>2. QED
    BY <1>2, <2>1, StillActive DEF BecomesActive, At, Top, Growing
<1>3. CASE ConfigManager
  <2>1. Active' <=> Active
    BY <1>3, StillActive
  <2>2. CASE Growing' = Growing
    BY <2>1, <2>2 DEF BecomesActive, At, Top, Growing
  <2>3. CASE Growing' # Growing
    <3>1. Growing # <<>> /\ Head(Growing).op = "create" /\ Then("growing", <<>>)
      BY <1>3, <2>3, ThenStacks DEF ConfigManager, At, Top, Growing
    <3>2. Growing # <<Do("become")>>
      BY <3>1 DEF Do
    <3>3. Growing' = <<>> \o Tail(Growing) /\ Growing \in Seq(Frame)
      BY <3>1, ThenStacks
    <3>4. Growing' # <<>> => 2 \in DOMAIN Growing /\ Head(Growing') = Growing[2]
      BY <3>1, <3>3
    <3>5. Growing' # <<>> => Head(Growing').op \notin Lone
      BY <3>4 DEF ReengageInv, StackReengages
    <3>6. QED
      BY <2>1, <3>2, <3>5 DEF BecomesActive, At, Top, Growing, Lone
  <2>4. QED
    BY <2>2, <2>3
<1>4. QED
  BY <1>1, <1>2, <1>3, StepKinds

LEMMA QueueFollows ==
    ASSUME TypeOK, QueueReengages, NEW fs \in Seq(Frame), queue' = queue \o fs, Follows(fs),
           BecomesActive => BecomesActive'
    PROVE  QueueReengages'
<1>1. /\ queue' \in Seq(Frame) /\ queue \in Seq(Frame)
      /\ \A i \in DOMAIN queue : i \in DOMAIN queue' /\ queue'[i] = queue[i]
      /\ \A i \in DOMAIN queue' :
            \/ i \in DOMAIN queue /\ queue'[i] = queue[i]
            \/ i > Len(queue) /\ i - Len(queue) \in DOMAIN fs /\ queue'[i] = fs[i - Len(queue)]
  BY Appended DEF TypeOK
<1>2. ASSUME NEW i \in DOMAIN queue', i \in DOMAIN queue, queue'[i] = queue[i]
      PROVE  /\ queue'[i].type # "REENGAGE"
             /\ queue'[i].op = "postBuilders" =>
                   IF i = 1 THEN BecomesActive' ELSE queue'[i - 1] = Do("become")
  <2>1. i # 1 => i - 1 \in DOMAIN queue
    BY <1>1, <1>2
  <2>2. QED
    BY <1>1, <1>2, <2>1 DEF QueueReengages
<1>3. ASSUME NEW i \in DOMAIN queue', i > Len(queue), i - Len(queue) \in DOMAIN fs,
             queue'[i] = fs[i - Len(queue)]
      PROVE  /\ queue'[i].type # "REENGAGE"
             /\ queue'[i].op = "postBuilders" => i # 1 /\ queue'[i - 1] = Do("become")
  <2>1. fs[i - Len(queue)].type # "REENGAGE"
    BY <1>3 DEF Follows
  <2>2. ASSUME queue'[i].op = "postBuilders"
        PROVE  i # 1 /\ queue'[i - 1] = Do("become")
    <3>1. i - Len(queue) > 1 /\ fs[i - Len(queue) - 1] = Do("become")
      BY <1>3, <2>2 DEF Follows
    <3>2. /\ Len(queue) \in Nat /\ i \in Nat /\ DOMAIN queue = 1 .. Len(queue)
          /\ DOMAIN queue' = 1 .. Len(queue') /\ Len(queue') \in Nat
      BY <1>1
    <3>3. i # 1 /\ i - 1 \in DOMAIN queue' /\ i - 1 \notin DOMAIN queue
          /\ i - 1 - Len(queue) = i - Len(queue) - 1
      BY <3>1, <3>2
    <3>4. QED
      BY <1>1, <3>1, <3>3
  <2>3. QED
    BY <1>3, <2>1, <2>2
<1>4. QED
  BY <1>1, <1>2, <1>3 DEF QueueReengages

LEMMA QueueReengagesKept ==
    ASSUME TypeOK, ReengageInv, Next
    PROVE  QueueReengages'
<1>0. queue \in Seq(Frame) /\ QueueReengages
  BY DEF TypeOK, ReengageInv
<1>1. ASSUME NEW f \in Frame, f.type # "REENGAGE", f.op # "postBuilders"
      PROVE  <<f>> \in Seq(Frame) /\ Follows(<<f>>)
  BY <1>1 DEF Follows
<1>2. CASE TakeBlock
  <2>1. ASSUME NEW i \in DOMAIN queue'
        PROVE  /\ queue'[i].type # "REENGAGE"
               /\ queue'[i].op = "postBuilders" =>
                     IF i = 1 THEN BecomesActive' ELSE queue'[i - 1] = Do("become")
    <3>1. /\ i \in Nat /\ i + 1 \in DOMAIN queue /\ queue'[i] = queue[i + 1]
          /\ i + 1 # 1 /\ i + 1 - 1 = i
      BY <1>2, Taken
    <3>2. queue'[i].type # "REENGAGE"
      BY <1>0, <3>1 DEF QueueReengages
    <3>3. queue'[i].op = "postBuilders" => queue[i] = Do("become")
      BY <1>0, <3>1 DEF QueueReengages
    <3>4. i = 1 => Growing' = <<queue[i]>>
      BY <1>2, Taken
    <3>5. i # 1 => queue'[i - 1] = queue[i]
      <4>1. i # 1 => i - 1 \in DOMAIN queue'
        BY <1>2, Taken
      <4>2. \A k \in DOMAIN queue' : queue'[k] = queue[k + 1]
        BY <1>2, Taken
      <4>3. QED
        BY <3>1, <4>1, <4>2
    <3>6. QED
      BY <3>2, <3>3, <3>4, <3>5 DEF BecomesActive
  <2>2. QED
    BY <2>1 DEF QueueReengages
<1>3. CASE ~TakeBlock
  <2>1. BecomesActive => BecomesActive'
    BY <1>3, BecomesActiveKept
  <2>2. \E fs \in Seq(Frame) : queue' = queue \o fs /\ Follows(fs)
    <3>1. CASE queue' = queue
      <4>1. <<>> \in Seq(Frame) /\ Follows(<<>>) /\ queue = queue \o <<>>
        BY <1>0 DEF Follows
      <4>2. QED
        BY <3>1, <4>1
    <3>2. CASE queue' = Append(queue, Post("VISIT"))
      <4>1. Post("VISIT") \in Frame /\ Post("VISIT").op = "post" /\ Post("VISIT").type = "VISIT"
        BY FrameTypes DEF Type, Post, Do
      <4>2. queue' = queue \o <<Post("VISIT")>>
        BY <1>0, <3>2, <4>1, AppendIsConcat
      <4>3. QED
        BY <1>1, <4>1, <4>2
    <3>3. CASE queue' = Append(queue, Do("create"))
      <4>1. Do("create") \in Frame /\ Do("create").op = "create" /\ Do("create").type = "VISIT"
        BY FrameTypes DEF Op, Do
      <4>2. queue' = queue \o <<Do("create")>>
        BY <1>0, <3>3, <4>1, AppendIsConcat
      <4>3. QED
        BY <1>1, <4>1, <4>2
    <3>4. CASE QueueStep
      BY <3>4 DEF QueueStep
    <3>5. QED
      BY <1>3, <3>1, <3>2, <3>3, <3>4, StepKinds
         DEF GrowingStep, MainStep, ConfigManager, BridgeLogin
  <2>3. QED
    BY <1>0, <2>1, <2>2, QueueFollows
<1>4. QED
  BY <1>2, <1>3

(* Only WriteEvent writes, what GrowingThread has on top of its stack. *)
LEMMA WritesTop ==
    ASSUME TypeOK, Next, log' # log
    PROVE  /\ Growing # <<>>
           /\ \E e : log' = Append(log, e) /\ e.type = Head(Growing).type
<1>1. WriteEvent
  BY CallsQueue
     DEF Next, OnEitherThread, GenerateVisit, GenerateVisitEvent, RefreshSessionId,
         SetLoginUserId, UserIdDidChanged, ResendVisit, TakeBlock, ConfigManager,
         PostEventBuilder, ReadProperty, BecomeActive, PutAside,
         GenerateAppReengage, PostBuilders, SetEnabled, HandleJavascriptBridgeMessage,
         QueueStep, keep
<1> DEFINE e == [type |-> Head(Growing).type, user |-> Head(Growing).user,
                 key |-> ses.key, id |-> Head(Growing).id]
<1>2. Growing # <<>> /\ log' = Append(log, e)
  BY <1>1 DEF WriteEvent, At, Top, Growing
<1>3. e.type = Head(Growing).type
  OBVIOUS
<1>4. QED
  BY <1>2, <1>3

(***************************************************************************)
(* However the app is put aside, opened by links and activated: an         *)
(* app_reengage event is written while the session is active, so it names  *)
(* the session that the return has renewed.                                *)
(***************************************************************************)
THEOREM ReengagesAfterReturn == Spec => ReengagesInNewSession
<1>1. Init => ReengageInv
  <2>1. Init => Growing = <<>> /\ queue = <<>>
    BY DEF Init, Thread, Growing
  <2>2. QED
    BY <2>1, InitType DEF ReengageInv, StackReengages, QueueReengages
<1>2. ReengageInv /\ [Next]_vars => ReengageInv'
  <2>1. CASE Next
    BY <2>1, NextType, StackReengagesKept, QueueReengagesKept DEF ReengageInv
  <2>2. CASE UNCHANGED vars
    <3>1. UNCHANGED <<ses, stack, enabled, channels, builders, queue, log, app, calls, races>>
      BY <2>2 DEF vars, keep, env
    <3>2. TypeOK' = TypeOK
      BY <3>1 DEF TypeOK
    <3>3. Growing' = Growing /\ (Active' <=> Active) /\ (BecomesActive' <=> BecomesActive)
      BY <3>1 DEF Growing, Active, BecomesActive, At, Top
    <3>4. ReengageInv => StackReengages' /\ QueueReengages'
      BY <3>1, <3>3 DEF ReengageInv, StackReengages, QueueReengages
    <3>5. QED
      BY <3>2, <3>4 DEF ReengageInv
  <2>3. QED
    BY <2>1, <2>2
<1>3. ReengageInv /\ [Next]_vars =>
         [Len(log') > Len(log) /\ log'[Len(log')].type = "REENGAGE" => ses.state = "active"]_vars
  <2>1. SUFFICES ASSUME ReengageInv, Next, Len(log') > Len(log),
                        log'[Len(log')].type = "REENGAGE"
                 PROVE  Active
    BY DEF Active
  <2>2. log \in Seq(Event) /\ log' # log
    BY <2>1 DEF ReengageInv, TypeOK
  <2>3. /\ Growing # <<>>
        /\ \E e : log' = Append(log, e) /\ e.type = Head(Growing).type
    BY <2>1, <2>2, WritesTop DEF ReengageInv
  <2>4. Head(Growing).type = "REENGAGE"
    BY <2>1, <2>2, <2>3
  <2>5. 1 \in DOMAIN Growing /\ Growing[1] = Head(Growing)
    BY <2>1, <2>3, StackTypes DEF ReengageInv
  <2>6. QED
    BY <2>1, <2>4, <2>5 DEF ReengageInv, StackReengages
<1>4. QED
  BY <1>1, <1>2, <1>3, PTL DEF Spec, ReengagesInNewSession

=============================================================================
