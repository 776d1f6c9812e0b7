-------------------------- MODULE ActivationProofs --------------------------
(***************************************************************************)
(* Proofs about Activation: type correctness, that no fetch holds the      *)
(* event back with nobody to end it, and that the flag of the installation *)
(* follows the event.                                                      *)
(***************************************************************************)
EXTENDS Activation, TLAPS

(* The blocks GrowingThread runs, and what is left of them step by step. *)
AfterEvent == {<<"json", "wrote">>, <<"wrote">>,
               <<"json", "wrote", "deferred">>, <<"wrote", "deferred">>, <<"deferred">>}
Blocks == {<<>>, <<"activate", "json", "wrote">>, <<"defer", "json", "wrote", "deferred">>,
           <<"json", "protobuf">>, <<"protobuf">>, <<"json">>} \cup AfterEvent

(* A flag is set, or about to be set, only after the event. *)
Written ==
    /\ todo \in Blocks
    /\ todo \in AfterEvent => made # <<>>
    /\ flags.wrote \/ file.wrote => made # <<>>

Bag == [Task -> Nat]

(* The invariant, by what the actions disturb together. *)
Fetches ==
    /\ pending \in Bag /\ asa \in AsaState /\ caid \in CaidState
    /\ AsaFetchEnds /\ CaidFetchEnds

Events ==
    /\ flags \in Flags /\ file \in Flags
    /\ made \in Seq(Name)
    /\ stored \subseteq DOMAIN made /\ upload \subseteq DOMAIN made /\ received \subseteq DOMAIN made
    /\ Written

Device  == enabled \in BOOLEAN /\ agent \in BOOLEAN /\ clipboard \in Content
Numbers == /\ toggles \in Nat /\ links \in Nat /\ errors \in Nat
           /\ lost \in Nat /\ crashes \in Nat /\ redone \in Nat

Inv == Fetches /\ Events /\ Device /\ Numbers

-----------------------------------------------------------------------------
(* Tasks *)

(* Adding tasks takes none away. *)
LEMMA PlusType ==
    ASSUME NEW p \in Bag, NEW T
    PROVE  /\ Plus(p, T) \in Bag
           /\ \A t \in Task : Plus(p, T)[t] >= p[t]
           /\ \A t \in Task : t \in T /\ t # "remove" => Plus(p, T)[t] > 0
  BY DEF Plus, Bag

(* One task ends; the others stay. *)
LEMMA MinusType ==
    ASSUME NEW p \in Bag, NEW t \in Task, p[t] > 0
    PROVE  /\ Minus(p, t) \in Bag
           /\ \A u \in Task \ {t} : Minus(p, t)[u] = p[u]
  BY DEF Minus, Bag

LEMMA TaskNames ==
    /\ Ending \subseteq Task /\ CaidTask \subseteq Task
    /\ {"load", "activate", "defer", "agent", "remove", "read", "clear", "armed",
      "config"} \subseteq Task
    /\ "block" \in Task /\ "timer" \in Task
    /\ "remove" \notin Ending /\ "timer" \notin Ending
  BY DEF Ending, Task, CaidTask, AsaTask, GrowingTask

(* Whether status s has its end among the tasks p. *)
AsaEnds(s, p)  == s = "Fetching" => \E t \in Ending : p[t] > 0
CaidEnds(s, p) == s = "Fetching" => p["timer"] > 0

LEMMA AsaEndsGrows ==
    ASSUME NEW s, NEW p \in Bag, NEW T, AsaEnds(s, p)
    PROVE  AsaEnds(s, Plus(p, T))
  <1>1. /\ Plus(p, T) \in Bag
        /\ \A t \in Task : Plus(p, T)[t] >= p[t]
    BY PlusType
  <1>2. ASSUME NEW t \in Ending, p[t] > 0
        PROVE  Plus(p, T)[t] > 0
    <2>1. t \in Task
      BY TaskNames
    <2>2. p[t] \in Nat /\ Plus(p, T)[t] \in Nat /\ Plus(p, T)[t] >= p[t]
      BY <1>1, <2>1 DEF Bag
    <2>3. QED
      BY <2>2, <1>2
  <1>3. QED
    BY <1>2 DEF AsaEnds

LEMMA CaidEndsGrows ==
    ASSUME NEW s, NEW p \in Bag, NEW T, CaidEnds(s, p)
    PROVE  CaidEnds(s, Plus(p, T))
  <1>1. /\ Plus(p, T) \in Bag
        /\ \A t \in Task : Plus(p, T)[t] >= p[t]
    BY PlusType
  <1>2. /\ p["timer"] \in Nat /\ Plus(p, T)["timer"] \in Nat
        /\ Plus(p, T)["timer"] >= p["timer"]
    BY <1>1, TaskNames DEF Bag
  <1>3. QED
    BY <1>2 DEF CaidEnds

(* Starting a fetch, while p of the tasks are under way. *)
LEMMA AsaStartEnds ==
    ASSUME Fetches, NEW on \in BOOLEAN, NEW p \in Bag, AsaEnds(asa.status, p)
    PROVE  /\ AsaStarted(on) \in AsaState
           /\ Plus(p, AsaTasks(on)) \in Bag
           /\ AsaEnds(AsaStarted(on).status, Plus(p, AsaTasks(on)))
  <1>1. /\ Plus(p, AsaTasks(on)) \in Bag
        /\ \A t \in Task : t \in AsaTasks(on) /\ t # "remove" => Plus(p, AsaTasks(on))[t] > 0
    BY PlusType
  <1>2. AsaEnds(asa.status, Plus(p, AsaTasks(on)))
    BY AsaEndsGrows
  <1>3. asa \in AsaState
    BY DEF Fetches
  <1>4. CASE StartsAsa(on)
    <2>1. "queued" \in AsaTasks(on) /\ "queued" \in Ending /\ "queued" \in Task
      BY <1>4 DEF AsaTasks, Ending, Task, AsaTask
    <2>2. Plus(p, AsaTasks(on))["queued"] > 0
      BY <1>1, <2>1
    <2>3. AsaEnds(AsaStarted(on).status, Plus(p, AsaTasks(on)))
      BY <2>1, <2>2 DEF AsaEnds
    <2>4. AsaStarted(on) = [status |-> "Fetching", retriesLeft |-> RetryCount, listening |-> TRUE]
      BY <1>4 DEF AsaStarted
    <2>5. RetryCount \in Nat
      BY ActivationAssumption
    <2>6. AsaStarted(on) \in AsaState
      BY <2>4, <2>5 DEF AsaState, Status
    <2>7. QED
      BY <1>1, <2>3, <2>6
  <1>5. CASE ~StartsAsa(on)
    <2>1. \/ AsaStarted(on) = asa
          \/ \E s \in {"Completed", "Denied"} : AsaStarted(on) = [asa EXCEPT !.status = s]
      BY <1>5 DEF AsaStarted
    <2>2. QED
      BY <1>1, <1>2, <1>3, <2>1 DEF AsaEnds, AsaState, Status
  <1>6. QED
    BY <1>4, <1>5

LEMMA CaidStartEnds ==
    ASSUME Fetches, NEW p \in Bag, CaidEnds(caid.status, p)
    PROVE  /\ CaidStarted \in CaidState
           /\ Plus(p, CaidTasks) \in Bag
           /\ CaidEnds(CaidStarted.status, Plus(p, CaidTasks))
  <1>1. /\ Plus(p, CaidTasks) \in Bag
        /\ \A t \in Task : t \in CaidTasks /\ t # "remove" => Plus(p, CaidTasks)[t] > 0
    BY PlusType
  <1>2. CaidEnds(caid.status, Plus(p, CaidTasks))
    BY CaidEndsGrows
  <1>3. caid \in CaidState
    BY DEF Fetches
  <1>4. CASE caid.status # "Fetching" /\ CAIDEnabled
    <2>1. "timer" \in CaidTasks /\ "timer" \in Task
      BY <1>4 DEF CaidTasks, CaidTask, Task
    <2>2. Plus(p, CaidTasks)["timer"] > 0
      BY <1>1, <2>1
    <2>3. QED
      BY <1>1, <1>4, <2>2 DEF CaidStarted, CaidState, CaidEnds, Status
  <1>5. CASE ~(caid.status # "Fetching" /\ CAIDEnabled)
    <2>1. CaidStarted = caid \/ CaidStarted = [caid EXCEPT !.status = "Denied"]
      BY <1>5 DEF CaidStarted
    <2>2. QED
      BY <1>1, <1>2, <1>3, <2>1 DEF CaidEnds, CaidState, Status
  <1>6. QED
    BY <1>4, <1>5

-----------------------------------------------------------------------------
(* The blocks that start fetches *)

(* What such a block leaves. *)
Started(c) ==
    /\ asa' \in AsaState /\ pending' \in Bag
    /\ AsaEnds(asa'.status, pending') /\ CaidEnds(c, pending')
    /\ todo' \in Blocks \ AfterEvent

LEMMA NewBlocks ==
    /\ <<>> \in Blocks \ AfterEvent
    /\ <<"activate", "json", "wrote">> \in Blocks \ AfterEvent
    /\ <<"defer", "json", "wrote", "deferred">> \in Blocks \ AfterEvent
    /\ <<"json", "protobuf">> \in Blocks \ AfterEvent
    /\ <<"protobuf">> \in Blocks \ AfterEvent
    /\ <<"json">> \in Blocks \ AfterEvent
  BY DEF Blocks, AfterEvent

LEMMA GenerateStarts ==
    ASSUME Fetches, Idle, NEW on \in BOOLEAN, NEW p \in Bag, NEW c,
           AsaEnds(asa.status, p), CaidEnds(c, p),
           GenerateAppActivation(on, p)
    PROVE  Started(c)
  <1> DEFINE q == Plus(p, AsaTasks(on))
  <1>1. AsaStarted(on) \in AsaState /\ q \in Bag /\ AsaEnds(AsaStarted(on).status, q)
    BY AsaStartEnds
  <1>2. CaidEnds(c, q)
    BY CaidEndsGrows
  <1>3. asa' = AsaStarted(on)
    BY DEF GenerateAppActivation
  <1>4. CASE agent
    <2>1. pending' = q
      BY <1>4 DEF GenerateAppActivation
    <2>2. todo' = <<"activate", "json", "wrote">> \/ todo' = <<>>
      BY <1>4 DEF GenerateAppActivation
    <2>3. todo' \in Blocks \ AfterEvent
      BY <2>2, NewBlocks
    <2>4. QED
      BY <1>1, <1>2, <1>3, <2>1, <2>3 DEF Started
  <1>5. CASE ~agent
    <2>1. pending' = Plus(q, {"agent"}) /\ todo' = <<>>
      BY <1>5 DEF GenerateAppActivation, Idle
    <2> HIDE DEF q
    <2>2. /\ Plus(q, {"agent"}) \in Bag
          /\ AsaEnds(AsaStarted(on).status, Plus(q, {"agent"}))
          /\ CaidEnds(c, Plus(q, {"agent"}))
      BY <1>1, <1>2, PlusType, AsaEndsGrows, CaidEndsGrows
    <2>3. todo' \in Blocks \ AfterEvent
      BY <2>1, NewBlocks
    <2>4. QED
      BY <1>1, <1>3, <2>1, <2>2, <2>3 DEF Started
  <1>6. QED
    BY <1>4, <1>5

LEMMA LoadStarts ==
    ASSUME Fetches, Idle, NEW on \in BOOLEAN, NEW p \in Bag,
           AsaEnds(asa.status, p), CaidEnds(caid.status, p),
           LoadClipboard(on, p)
    PROVE  Fetches' /\ todo' \in Blocks \ AfterEvent
  <1> DEFINE q == Plus(p, CaidTasks)
  <1>1. SUFFICES caid' \in CaidState /\ Started(caid'.status)
    BY DEF Started, Fetches, AsaFetchEnds, CaidFetchEnds, AsaEnds, CaidEnds, Underway
  <1>2. CASE ~on
    <2>1. pending' = p /\ todo' = <<>> /\ asa' = asa /\ caid' = caid
      BY <1>2 DEF LoadClipboard, fetcher, Idle
    <2>2. QED
      BY <2>1, NewBlocks DEF Started, Fetches
  <1>3. CASE on
    <2>1. CaidStarted \in CaidState /\ q \in Bag /\ CaidEnds(CaidStarted.status, q)
      BY CaidStartEnds
    <2>2. AsaEnds(asa.status, q)
      BY AsaEndsGrows
    <2>3. caid' = CaidStarted
      BY <1>3 DEF LoadClipboard
    <2>4. \/ pending' = q /\ UNCHANGED <<todo, asa>>
          \/ asa' = AsaStarted(on) /\ pending' = Plus(q, AsaTasks(on)) /\ UNCHANGED todo
          \/ pending' = Plus(q, {"read"}) /\ UNCHANGED <<todo, asa>>
          \/ GenerateAppActivation(on, q)
      BY <1>3 DEF LoadClipboard
    <2>5. UNCHANGED todo => todo' \in Blocks \ AfterEvent
      BY NewBlocks DEF Idle
    <2> HIDE DEF q
    <2>6. CASE pending' = q /\ UNCHANGED <<todo, asa>>
      BY <2>1, <2>2, <2>3, <2>5, <2>6 DEF Started, Fetches
    <2>7. CASE asa' = AsaStarted(on) /\ pending' = Plus(q, AsaTasks(on)) /\ UNCHANGED todo
      <3>1. AsaStarted(on) \in AsaState /\ Plus(q, AsaTasks(on)) \in Bag
            /\ AsaEnds(AsaStarted(on).status, Plus(q, AsaTasks(on)))
        BY <2>1, <2>2, AsaStartEnds
      <3>2. CaidEnds(CaidStarted.status, Plus(q, AsaTasks(on)))
        BY <2>1, CaidEndsGrows
      <3>3. QED
        BY <2>1, <2>3, <2>5, <2>7, <3>1, <3>2 DEF Started
    <2>8. CASE pending' = Plus(q, {"read"}) /\ UNCHANGED <<todo, asa>>
      <3>1. /\ Plus(q, {"read"}) \in Bag
            /\ AsaEnds(asa.status, Plus(q, {"read"}))
            /\ CaidEnds(CaidStarted.status, Plus(q, {"read"}))
        BY <2>1, <2>2, PlusType, AsaEndsGrows, CaidEndsGrows
      <3>2. QED
        BY <2>1, <2>3, <2>5, <2>8, <3>1 DEF Started, Fetches
    <2>9. CASE GenerateAppActivation(on, q)
      <3>1. Started(CaidStarted.status)
        BY <2>1, <2>2, <2>9, GenerateStarts
      <3>2. QED
        BY <2>1, <2>3, <3>1
    <2>10. QED
      BY <2>4, <2>6, <2>7, <2>8, <2>9
  <1>4. QED
    BY <1>2, <1>3

-----------------------------------------------------------------------------
(* The fetches, action by action *)

LEMMA FetchesAre ==
    /\ Fetches <=> /\ pending \in Bag /\ asa \in AsaState /\ caid \in CaidState
                   /\ AsaEnds(asa.status, pending) /\ CaidEnds(caid.status, pending)
    /\ Fetches' <=> /\ pending' \in Bag /\ asa' \in AsaState /\ caid' \in CaidState
                    /\ AsaEnds(asa'.status, pending') /\ CaidEnds(caid'.status, pending')
  BY DEF Fetches, AsaFetchEnds, CaidFetchEnds, AsaEnds, CaidEnds, Underway

(* The end of a task that ends no fetch. *)
LEMMA TaskEnds ==
    ASSUME Fetches, NEW t \in Task, Underway(t)
    PROVE  /\ Minus(pending, t) \in Bag
           /\ t \notin Ending => AsaEnds(asa.status, Minus(pending, t))
           /\ t # "timer" => CaidEnds(caid.status, Minus(pending, t))
  <1>1. pending \in Bag /\ pending[t] > 0
    BY DEF Fetches, Underway
  <1>2. /\ Minus(pending, t) \in Bag
        /\ \A u \in Task \ {t} : Minus(pending, t)[u] = pending[u]
    BY <1>1, MinusType
  <1>3. AsaEnds(asa.status, pending) /\ CaidEnds(caid.status, pending)
    BY FetchesAre
  <1>4. QED
    BY <1>2, <1>3, TaskNames DEF AsaEnds, CaidEnds

(* A task of GrowingAsaFetcher ends and the tasks T begin. *)
LEMMA AsaGoesOn ==
    ASSUME Fetches, NEW t \in Task \ {"timer"}, Underway(t), NEW T, NEW a \in AsaState,
           AsaStep(Plus(Minus(pending, t), T), a),
           \/ a.status # "Fetching"
           \/ \E u \in Ending : u \in T
           \/ t \notin Ending /\ a.status = asa.status
    PROVE  Fetches'
  <1> DEFINE p == Minus(pending, t)
  <1>1. p \in Bag /\ CaidEnds(caid.status, p) /\ (t \notin Ending => AsaEnds(asa.status, p))
    BY TaskEnds
  <1>2. pending' = Plus(p, T) /\ asa' = a /\ caid' = caid
    BY DEF AsaStep
  <1> HIDE DEF p
  <1>3. Plus(p, T) \in Bag /\ CaidEnds(caid.status, Plus(p, T))
    BY <1>1, PlusType, CaidEndsGrows
  <1>4. CASE a.status # "Fetching"
    BY <1>2, <1>3, <1>4, FetchesAre DEF AsaEnds
  <1>5. CASE \E u \in Ending : u \in T
    <2>1. PICK u \in Ending : u \in T
      BY <1>5
    <2>2. u \in Task /\ u # "remove"
      BY TaskNames
    <2>3. Plus(p, T)[u] > 0
      BY <1>1, <2>1, <2>2, PlusType
    <2>4. AsaEnds(a.status, Plus(p, T))
      BY <2>3 DEF AsaEnds
    <2>5. QED
      BY <1>2, <1>3, <2>4, FetchesAre
  <1>6. CASE t \notin Ending /\ a.status = asa.status
    <2>1. AsaEnds(asa.status, Plus(p, T))
      BY <1>1, <1>6, AsaEndsGrows
    <2>2. QED
      BY <1>2, <1>3, <1>6, <2>1, FetchesAre
  <1>7. QED
    BY <1>4, <1>5, <1>6

LEMMA NoneBegins ==
    ASSUME NEW p \in Bag
    PROVE  Plus(p, {}) = p
  BY DEF Plus, Bag

(* The same where no task begins. *)
LEMMA AsaStops ==
    ASSUME Fetches, NEW t \in Task \ {"timer"}, Underway(t), NEW a \in AsaState,
           AsaStep(Minus(pending, t), a), a.status # "Fetching"
    PROVE  Fetches'
  <1>1. Minus(pending, t) \in Bag /\ CaidEnds(caid.status, Minus(pending, t))
    BY TaskEnds
  <1>2. QED
    BY <1>1, FetchesAre DEF AsaStep, AsaEnds

LEMMA AsaFetches ==
    ASSUME Fetches, Asa
    PROVE  Fetches'
  <1>a. asa \in AsaState
    BY DEF Fetches
  <1>s. \A s \in Status : [asa EXCEPT !.status = s] \in AsaState
    BY <1>a DEF AsaState
  <1>t. AsaTask \subseteq Task \ {"timer"}
    BY DEF Task, AsaTask
  <1>1. CASE FetchAttribution
    <2>1. "queued" \in Task \ {"timer"} /\ "running" \in Ending /\ Underway("queued")
      BY <1>1, <1>t DEF AsaTask, Ending, FetchAttribution
    <2>2. QED
      BY <1>1, <1>a, <2>1, AsaGoesOn DEF FetchAttribution
  <1>2. CASE AttributionArrives
    <2>1. PICK t \in {"answered", "failed"} :
             AsaStep(Plus(Minus(pending, "running"), IF asa.status = "Fetching" THEN {t} ELSE {}), asa)
      BY <1>2 DEF AttributionArrives
    <2>2. "running" \in Task \ {"timer"} /\ t \in Ending /\ Underway("running")
      BY <1>2, <1>t DEF AsaTask, Ending, AttributionArrives
    <2>3. CASE asa.status = "Fetching"
      <3>1. AsaStep(Plus(Minus(pending, "running"), {t}), asa)
        BY <2>1, <2>3
      <3>2. QED
        BY <1>a, <2>2, <3>1, AsaGoesOn
    <2>4. CASE asa.status # "Fetching"
      <3>1. AsaStep(Plus(Minus(pending, "running"), {}), asa)
        BY <2>1, <2>4
      <3>2. QED
        BY <1>a, <2>2, <2>4, <3>1, AsaGoesOn
    <2>5. QED
      BY <2>3, <2>4
  <1>3. CASE AttributionDenied
    <2>1. "running" \in Task \ {"timer"} /\ Underway("running")
      BY <1>3, <1>t DEF AsaTask, AttributionDenied
    <2>2. [asa EXCEPT !.status = "Denied"] \in AsaState
      BY <1>s DEF Status
    <2>3. [asa EXCEPT !.status = "Denied"].status # "Fetching"
      BY <1>a DEF AsaState
    <2>4. QED
      BY <1>3, <2>1, <2>2, <2>3, AsaStops DEF AttributionDenied
  <1>4. CASE SaveAttribution
    <2>1. "answered" \in Task \ {"timer"} /\ Underway("answered")
      BY <1>4, <1>t DEF AsaTask, SaveAttribution
    <2>2. [asa EXCEPT !.status = "Success"] \in AsaState
      BY <1>s DEF Status
    <2>3. [asa EXCEPT !.status = "Success"].status # "Fetching"
      BY <1>a DEF AsaState
    <2>4. QED
      BY <1>4, <2>1, <2>2, <2>3, AsaStops DEF SaveAttribution
  <1>5. CASE RetryOrFail
    <2>1. "failed" \in Task \ {"timer"} /\ "queued" \in Ending /\ Underway("failed")
      BY <1>5, <1>t DEF AsaTask, Ending, RetryOrFail
    <2>2. CASE asa.retriesLeft > 0
      <3>1. [asa EXCEPT !.retriesLeft = @ - 1] \in AsaState
        BY <1>a, <2>2 DEF AsaState
      <3>2. QED
        BY <1>5, <2>1, <2>2, <3>1, AsaGoesOn DEF RetryOrFail
    <2>3. CASE ~(asa.retriesLeft > 0)
      <3>1. [asa EXCEPT !.status = "Failure"] \in AsaState
        BY <1>s DEF Status
      <3>2. [asa EXCEPT !.status = "Failure"].status # "Fetching"
        BY <1>a DEF AsaState
      <3>3. QED
        BY <1>5, <2>1, <2>3, <3>1, <3>2, AsaStops DEF RetryOrFail
    <2>4. QED
      BY <2>2, <2>3
  <1>6. CASE TimeOut
    <2>1. "armed" \in Task \ {"timer"} /\ "armed" \notin Ending /\ "due" \in Ending /\ Underway("armed")
      BY <1>6, <1>t DEF AsaTask, Ending, TimeOut
    <2>2. QED
      BY <1>6, <1>a, <2>1, AsaGoesOn DEF TimeOut
  <1>7. CASE EndFetch
    <2> DEFINE a == [asa EXCEPT !.status = "Failure", !.retriesLeft = 0]
    <2>1. "due" \in Task \ {"timer"} /\ "running" \in Task \ {"timer", "due"} /\ Underway("due")
      BY <1>7, <1>t DEF AsaTask, EndFetch
    <2>2. a \in AsaState /\ a.status # "Fetching"
      BY <1>a DEF AsaState, Status
    <2>3. CASE AsaStep(Minus(pending, "due"), a)
      BY <2>1, <2>2, <2>3, AsaStops
    <2>4. CASE Underway("running") /\ AsaStep(Minus(Minus(pending, "due"), "running"), a)
      <3> DEFINE p == Minus(pending, "due")
      <3>1. p \in Bag /\ CaidEnds(caid.status, p)
        BY <2>1, TaskEnds
      <3>2. p["running"] = pending["running"] /\ pending["running"] > 0
        BY <2>1, <2>4, MinusType DEF Fetches, Underway
      <3>3. pending' = Minus(p, "running") /\ asa' = a /\ caid' = caid
        BY <2>4 DEF AsaStep
      <3> HIDE DEF p
      <3>4. Minus(p, "running") \in Bag /\ Minus(p, "running")["timer"] = p["timer"]
        BY <2>1, <3>1, <3>2, MinusType, TaskNames
      <3>5. QED
        BY <2>2, <3>1, <3>3, <3>4, FetchesAre DEF AsaEnds, CaidEnds
    <2>5. QED
      BY <1>7, <2>3, <2>4 DEF EndFetch
  <1>8. QED
    BY <1>1, <1>2, <1>3, <1>4, <1>5, <1>6, <1>7 DEF Asa

(* What a channel's send makes of asa, and the tasks that begin. *)
LEMMA WillSendType ==
    ASSUME Fetches, NEW B
    PROVE  /\ AsaWillSend(B).asa \in AsaState
           /\ \/ AsaWillSend(B).asa.status # "Fetching"
              \/ "queued" \in AsaWillSend(B).tasks
              \/ AsaWillSend(B).asa = asa
  <1> DEFINE N      == {i \in B : made[i] = "activate"}
             absent == asa.listening /\ N = {} /\ flags.wrote
             retry  == asa.listening /\ N # {} /\ asa.status = "Failure"
  <1>1. asa \in AsaState
    BY DEF Fetches
  <1>2. /\ AsaWillSend(B).asa = IF absent THEN [asa EXCEPT !.status = "Completed"]
                                ELSE IF retry THEN [asa EXCEPT !.status = "Fetching", !.retriesLeft = 1]
                                ELSE asa
        /\ AsaWillSend(B).tasks = IF absent THEN {"remove"} ELSE IF retry THEN {"queued"} ELSE {}
    BY DEF AsaWillSend
  <1> HIDE DEF absent, retry
  <1>3. CASE absent
    BY <1>1, <1>2, <1>3 DEF AsaState, Status
  <1>4. CASE ~absent /\ retry
    <2>1. AsaWillSend(B).tasks = {"queued"}
      BY <1>2, <1>4
    <2>2. [asa EXCEPT !.status = "Fetching", !.retriesLeft = 1] \in AsaState
      BY <1>1 DEF AsaState, Status
    <2>3. AsaWillSend(B).asa = [asa EXCEPT !.status = "Fetching", !.retriesLeft = 1]
      BY <1>2, <1>4
    <2>4. QED
      BY <2>1, <2>2, <2>3
  <1>5. CASE ~absent /\ ~retry
    BY <1>1, <1>2, <1>5
  <1>6. QED
    BY <1>3, <1>4, <1>5

LEMMA SendFetches ==
    ASSUME Fetches, NEW c, SendEventsOfChannel(c)
    PROVE  Fetches'
  <1>1. PICK r \in {AsaWillSend(CaidWillSend(IF c = "json" THEN stored ELSE {})),
                    AsaWillSend(IF c = "json" THEN stored ELSE {})} :
           asa' = r.asa /\ pending' = Plus(pending, r.tasks)
    BY DEF SendEventsOfChannel
  <1>2. r.asa \in AsaState /\ (r.asa.status # "Fetching" \/ "queued" \in r.tasks \/ r.asa = asa)
    BY <1>1, WillSendType
  <1>3. caid' = caid
    BY DEF SendEventsOfChannel
  <1>4. pending \in Bag /\ AsaEnds(asa.status, pending) /\ CaidEnds(caid.status, pending) /\ caid \in CaidState
    BY FetchesAre
  <1>5. /\ Plus(pending, r.tasks) \in Bag
        /\ AsaEnds(asa.status, Plus(pending, r.tasks))
        /\ CaidEnds(caid.status, Plus(pending, r.tasks))
    BY <1>4, PlusType, AsaEndsGrows, CaidEndsGrows
  <1>6. ASSUME "queued" \in r.tasks
        PROVE  Plus(pending, r.tasks)["queued"] > 0 /\ "queued" \in Ending
    <2>1. "queued" \in Task /\ "queued" \in Ending
      BY DEF Task, AsaTask, Ending
    <2>2. QED
      BY <1>4, <1>6, <2>1, PlusType
  <1>7. AsaEnds(r.asa.status, Plus(pending, r.tasks))
    BY <1>2, <1>5, <1>6 DEF AsaEnds
  <1>8. QED
    BY <1>1, <1>2, <1>3, <1>4, <1>5, <1>7, FetchesAre

LEMMA DidSendFetches ==
    ASSUME Fetches, DidSend
    PROVE  Fetches'
  <1>1. CASE asa.listening
    <2>1. /\ asa' = [asa EXCEPT !.status = "Completed"] /\ caid' = caid
          /\ pending' = Plus(pending, {"remove"})
      BY <1>1 DEF DidSend
    <2>2. asa' \in AsaState /\ asa'.status # "Fetching"
      BY <2>1 DEF Fetches, AsaState, Status
    <2>3. Plus(pending, {"remove"}) \in Bag /\ CaidEnds(caid.status, Plus(pending, {"remove"}))
      BY FetchesAre, PlusType, CaidEndsGrows
    <2>4. QED
      BY <2>1, <2>2, <2>3, FetchesAre DEF AsaEnds
  <1>2. CASE ~asa.listening
    BY <1>2 DEF DidSend, Fetches, AsaFetchEnds, CaidFetchEnds, Underway
  <1>3. QED
    BY <1>1, <1>2

LEMMA BlockFetches ==
    ASSUME Fetches, enabled \in BOOLEAN,
           Block \/ SetDataCollectionEnabled \/ ReadPasteboard \/ ClearPasteboard
    PROVE  Fetches'
  <1>0. asa \in AsaState /\ caid \in CaidState
    BY DEF Fetches
  <1>1. CASE RunLoadClipboard
    <2>1. /\ Minus(pending, "load") \in Bag
          /\ AsaEnds(asa.status, Minus(pending, "load"))
          /\ CaidEnds(caid.status, Minus(pending, "load"))
      BY <1>1, TaskEnds, TaskNames DEF RunLoadClipboard, Ending
    <2>2. QED
      BY <1>1, <2>1, LoadStarts DEF RunLoadClipboard
  <1>2. CASE SetDataCollectionEnabled
    <2>1. enabled' \in BOOLEAN /\ Idle /\ LoadClipboard(enabled', pending)
      BY <1>2 DEF SetDataCollectionEnabled
    <2>2. QED
      BY <2>1, FetchesAre, LoadStarts
  <1>3. CASE PasteboardIsOther
    <2>1. /\ Minus(pending, "activate") \in Bag
          /\ AsaEnds(asa.status, Minus(pending, "activate"))
          /\ CaidEnds(caid.status, Minus(pending, "activate"))
      BY <1>3, TaskEnds, TaskNames DEF PasteboardIsOther, Ending
    <2>2. Started(caid.status) /\ caid' = caid
      BY <1>3, <2>1, GenerateStarts DEF PasteboardIsOther
    <2>3. QED
      BY <1>0, <2>2, FetchesAre DEF Started
  <1>4. ASSUME NEW t \in {"defer", "agent", "clear", "config"}, Underway(t),
               pending' = Minus(pending, t), UNCHANGED fetcher
        PROVE  Fetches'
    <2>1. /\ Minus(pending, t) \in Bag
          /\ AsaEnds(asa.status, Minus(pending, t)) /\ CaidEnds(caid.status, Minus(pending, t))
      BY <1>4, TaskEnds, TaskNames DEF Ending
    <2>2. QED
      BY <1>0, <1>4, <2>1, FetchesAre DEF fetcher
  <1>5. CASE PasteboardIsDeepLink
    BY <1>4, <1>5 DEF PasteboardIsDeepLink
  <1>6. CASE UserAgentArrives
    BY <1>4, <1>6 DEF UserAgentArrives
  <1>7. CASE ClearPasteboard \/ ConfigManager
    BY <1>4, <1>7 DEF ClearPasteboard, ConfigManager
  <1>8. CASE RemoveInterceptor
    <2>1. asa' = [asa EXCEPT !.listening = FALSE] /\ caid' = caid /\ pending' = Minus(pending, "remove")
      BY <1>8 DEF RemoveInterceptor
    <2>2. asa' \in AsaState /\ asa'.status = asa.status
      BY <1>0, <2>1 DEF AsaState
    <2>3. /\ Minus(pending, "remove") \in Bag
          /\ AsaEnds(asa.status, Minus(pending, "remove"))
          /\ CaidEnds(caid.status, Minus(pending, "remove"))
      BY <1>8, TaskEnds, TaskNames DEF RemoveInterceptor
    <2>4. QED
      BY <1>0, <2>1, <2>2, <2>3, FetchesAre
  <1>9. CASE ReadPasteboard
    <2> DEFINE p == Minus(pending, "read")
    <2>1. p \in Bag /\ AsaEnds(asa.status, p) /\ CaidEnds(caid.status, p)
      BY <1>9, TaskEnds, TaskNames DEF ReadPasteboard, Ending
    <2> HIDE DEF p
    <2>2. \E T : pending' = Plus(p, T)
      BY <1>9 DEF ReadPasteboard, p
    <2>3. PICK T : pending' = Plus(p, T)
      BY <2>2
    <2>4. Plus(p, T) \in Bag /\ AsaEnds(asa.status, Plus(p, T)) /\ CaidEnds(caid.status, Plus(p, T))
      BY <2>1, PlusType, AsaEndsGrows, CaidEndsGrows
    <2>5. QED
      BY <1>0, <1>9, <2>3, <2>4, FetchesAre DEF ReadPasteboard, fetcher
  <1>10. QED
    BY <1>1, <1>2, <1>3, <1>5, <1>6, <1>7, <1>8, <1>9 DEF Block

LEMMA CaidFetches ==
    ASSUME Fetches, HandleURL \/ CaidArrives \/ CaidTimeOut
    PROVE  Fetches'
  <1>0. asa \in AsaState /\ caid \in CaidState /\ pending \in Bag
    BY DEF Fetches
  <1>1. CASE HandleURL
    <2>1. AsaEnds(asa.status, pending) /\ CaidEnds(caid.status, pending)
      BY FetchesAre
    <2>2. /\ CaidStarted \in CaidState /\ Plus(pending, CaidTasks) \in Bag
          /\ CaidEnds(CaidStarted.status, Plus(pending, CaidTasks))
          /\ AsaEnds(asa.status, Plus(pending, CaidTasks))
      BY <1>0, <2>1, CaidStartEnds, AsaEndsGrows
    <2>3. QED
      BY <1>0, <1>1, <2>2, FetchesAre DEF HandleURL
  <1>2. ASSUME NEW t \in CaidTask, NEW s \in Status, CaidStep(t, s), s # "Fetching"
        PROVE  Fetches'
    <2>1. /\ Underway(t) /\ asa' = asa /\ pending' = Minus(pending, t)
          /\ caid' = [caid EXCEPT !.status = s]
      BY <1>2 DEF CaidStep
    <2>2. caid' \in CaidState /\ caid'.status # "Fetching"
      BY <1>0, <1>2, <2>1 DEF CaidState
    <2>3. Minus(pending, t) \in Bag /\ AsaEnds(asa.status, Minus(pending, t))
      BY <1>2, <2>1, TaskEnds, TaskNames DEF Ending, CaidTask
    <2>4. QED
      BY <1>0, <2>1, <2>2, <2>3, FetchesAre DEF CaidEnds
  <1>3. CASE CaidArrives
    BY <1>2, <1>3 DEF CaidArrives, CaidTask, Status
  <1>4. CASE CaidTimeOut
    <2> DEFINE s == IF caid.status = "Fetching" THEN "Failure" ELSE caid.status
    <2>1. s \in Status /\ s # "Fetching"
      BY <1>0 DEF CaidState, Status
    <2>2. CaidStep("timer", s)
      BY <1>4 DEF CaidTimeOut
    <2> HIDE DEF s
    <2>3. QED
      BY <1>2, <2>1, <2>2 DEF CaidTask
  <1>5. QED
    BY <1>1, <1>3, <1>4

LEMMA CrashFetches ==
    ASSUME Crash
    PROVE  Fetches'
  <1>1. Launched \in Bag
    BY DEF Launched, Bag
  <1>2. IdleAsa \in AsaState /\ IdleAsa.status # "Fetching"
    BY DEF IdleAsa, AsaState, Status
  <1>3. IdleCaid \in CaidState /\ IdleCaid.status # "Fetching"
    BY DEF IdleCaid, CaidState, Status
  <1>4. QED
    BY <1>1, <1>2, <1>3, FetchesAre DEF Crash, AsaEnds, CaidEnds

LEMMA FetchesStep ==
    ASSUME Fetches, enabled \in BOOLEAN, [Next]_vars
    PROVE  Fetches'
  <1>1. CASE UNCHANGED <<pending, fetcher>>
    BY <1>1 DEF fetcher, Fetches, AsaFetchEnds, CaidFetchEnds, Underway
  <1>2. CASE BlockStep
    <2>1. CASE \E c \in SendStep : SendEventsOfChannel(c)
      BY <2>1, SendFetches
    <2>2. QED
      BY <1>1, <1>2, <2>1 DEF BlockStep, PostEvent, SetActivateWrote, SetActivateDefer,
                              ReturnFromSend, NotReachable
  <1>3. CASE SendAllChannelEvents \/ SendInstant \/ UploadFails
    BY <1>1, <1>3 DEF SendAllChannelEvents, SendInstant, UploadFails
  <1>4. CASE UNCHANGED vars
    BY <1>1, <1>4 DEF vars
  <1>5. QED
    BY <1>2, <1>3, <1>4, AsaFetches, BlockFetches, CaidFetches, CrashFetches, DidSendFetches
       DEF Next

-----------------------------------------------------------------------------
(* The events and the flags *)

(* What is left of a block after its first step. *)
LEMMA Tails ==
    /\ Tail(<<"activate", "json", "wrote">>) = <<"json", "wrote">>
    /\ Tail(<<"defer", "json", "wrote", "deferred">>) = <<"json", "wrote", "deferred">>
    /\ Tail(<<"json", "protobuf">>) = <<"protobuf">>
    /\ Tail(<<"json", "wrote">>) = <<"wrote">>
    /\ Tail(<<"json", "wrote", "deferred">>) = <<"wrote", "deferred">>
    /\ Tail(<<"wrote", "deferred">>) = <<"deferred">>
    /\ Tail(<<"protobuf">>) = <<>> /\ Tail(<<"json">>) = <<>>
    /\ Tail(<<"wrote">>) = <<>> /\ Tail(<<"deferred">>) = <<>>
  OBVIOUS

(* The rest of a block after a step is the rest of a block. *)
LEMMA Rest ==
    ASSUME todo \in Blocks, todo # <<>>
    PROVE  /\ Tail(todo) \in Blocks
           /\ Head(todo) \in {"wrote", "deferred"} => todo \in AfterEvent
           /\ Tail(todo) \in AfterEvent => todo \in AfterEvent \/ Head(todo) \in Name
  <1>1. \/ todo = <<"activate", "json", "wrote">> \/ todo = <<"defer", "json", "wrote", "deferred">>
        \/ todo = <<"json", "protobuf">> \/ todo = <<"protobuf">> \/ todo = <<"json">>
        \/ todo \in AfterEvent
    BY DEF Blocks
  <1>2. <<>> \notin AfterEvent /\ <<"protobuf">> \notin AfterEvent
    BY NewBlocks
  <1>3. AfterEvent \subseteq Blocks /\ <<>> \in Blocks /\ <<"protobuf">> \in Blocks
    BY NewBlocks DEF Blocks
  <1>4. CASE todo \in AfterEvent
    BY Tails, <1>4 DEF AfterEvent, Blocks
  <1>5. CASE todo = <<"activate", "json", "wrote">>
    <2>1. Head(todo) = "activate" /\ Tail(todo) \in AfterEvent
      BY Tails, <1>5 DEF AfterEvent
    <2>2. QED
      BY <1>3, <2>1 DEF Name
  <1>6. CASE todo = <<"defer", "json", "wrote", "deferred">>
    <2>1. Head(todo) = "defer" /\ Tail(todo) \in AfterEvent
      BY Tails, <1>6 DEF AfterEvent
    <2>2. QED
      BY <1>3, <2>1 DEF Name
  <1>7. CASE todo \in {<<"json", "protobuf">>, <<"protobuf">>, <<"json">>}
    <2>1. Tail(todo) \in {<<>>, <<"protobuf">>}
      BY Tails, <1>7
    <2>2. Head(todo) \in SendStep
      BY <1>7 DEF SendStep
    <2>3. QED
      BY <1>2, <1>3, <2>1, <2>2 DEF SendStep
  <1>8. QED
    BY <1>1, <1>4, <1>5, <1>6, <1>7

(* A flag is set to a value that keeps to the events. *)
LEMMA FlagsKept ==
    ASSUME Events, NEW f \in Flags, SetFlags(f), f.wrote => made # <<>>
    PROVE  /\ flags' \in Flags /\ file' \in Flags
           /\ flags'.wrote \/ file'.wrote => made # <<>>
  <1>1. flags' = f /\ file' \in {f, file}
    BY DEF SetFlags
  <1>2. QED
    BY <1>1 DEF Events, Written

LEMMA EventPosted ==
    ASSUME Events, NEW n \in Name, PostEvent(n)
    PROVE  Events'
  <1>1. /\ todo # <<>> /\ todo' = Tail(todo) /\ made' = Append(made, n)
        /\ stored' \in {stored, stored \cup {Len(made) + 1}}
        /\ UNCHANGED <<flags, file, upload, received>>
    BY DEF PostEvent, Pop, disk
  <1>2. todo' \in Blocks
    BY <1>1, Rest DEF Events, Written
  <1>3. made \in Seq(Name) /\ made' \in Seq(Name) /\ Len(made') = Len(made) + 1
    BY <1>1 DEF Events
  <1>4. DOMAIN made = 1 .. Len(made) /\ DOMAIN made' = 1 .. Len(made) + 1 /\ Len(made) \in Nat
    BY <1>3
  <1>5. DOMAIN made \subseteq DOMAIN made' /\ Len(made) + 1 \in DOMAIN made' /\ made' # <<>>
    BY <1>3, <1>4
  <1>6. QED
    BY <1>1, <1>2, <1>3, <1>5 DEF Events, Written

LEMMA FlagStep ==
    ASSUME Events, SetActivateWrote \/ SetActivateDefer
    PROVE  Events'
  <1>0. flags \in Flags /\ todo \in Blocks /\ (todo \in AfterEvent => made # <<>>)
    BY DEF Events, Written
  <1>1. /\ todo # <<>> /\ Head(todo) \in {"wrote", "deferred"} /\ todo' = Tail(todo)
        /\ UNCHANGED events
    BY DEF SetActivateWrote, SetActivateDefer, Pop
  <1>2. made # <<>> /\ todo' \in Blocks
    BY <1>0, <1>1, Rest
  <1>3. \E f \in Flags : SetFlags(f)
    <2>1. [flags EXCEPT !.wrote = TRUE] \in Flags /\ [flags EXCEPT !.defer = TRUE] \in Flags
      BY <1>0 DEF Flags
    <2>2. QED
      BY <2>1 DEF SetActivateWrote, SetActivateDefer
  <1>4. flags' \in Flags /\ file' \in Flags
    BY <1>2, <1>3, FlagsKept
  <1>5. QED
    BY <1>1, <1>2, <1>4 DEF Events, Written, events

(* setActivateSent:YES, or no flag *)
LEMMA SentStep ==
    ASSUME Events, SetFlags([flags EXCEPT !.sent = TRUE]) \/ UNCHANGED disk
    PROVE  /\ flags' \in Flags /\ file' \in Flags
           /\ flags'.wrote \/ file'.wrote => made # <<>>
  <1>1. CASE SetFlags([flags EXCEPT !.sent = TRUE])
    <2>1. /\ [flags EXCEPT !.sent = TRUE] \in Flags
          /\ [flags EXCEPT !.sent = TRUE].wrote = flags.wrote
      BY DEF Events, Flags
    <2>2. QED
      BY <1>1, <2>1, FlagsKept DEF Events, Written
  <1>2. CASE UNCHANGED disk
    BY <1>2 DEF disk, Events, Written
  <1>3. QED
    BY <1>1, <1>2

LEMMA WillSendSubset ==
    ASSUME NEW B
    PROVE  AsaWillSend(B).out \subseteq B /\ CaidWillSend(B) \subseteq B
  BY DEF AsaWillSend, CaidWillSend

LEMMA SendKeepsEvents ==
    ASSUME Events, NEW c \in SendStep, SendEventsOfChannel(c)
    PROVE  Events'
  <1>1. /\ todo # <<>> /\ Head(todo) \in SendStep /\ todo' = Tail(todo)
        /\ UNCHANGED <<made, stored, received>>
    BY DEF SendEventsOfChannel, Pop
  <1>2. \E B \in {stored, {}} : upload' \subseteq upload \cup B
    <2>1. PICK caidFirst \in BOOLEAN :
            LET B == IF c = "json" THEN stored ELSE {}
                r == AsaWillSend(IF caidFirst THEN CaidWillSend(B) ELSE B)
            IN  upload' = upload \cup (IF caidFirst THEN r.out ELSE CaidWillSend(r.out))
      BY DEF SendEventsOfChannel
    <2> DEFINE B == IF c = "json" THEN stored ELSE {}
               r == AsaWillSend(IF caidFirst THEN CaidWillSend(B) ELSE B)
    <2>2. upload' = upload \cup (IF caidFirst THEN r.out ELSE CaidWillSend(r.out))
      BY <2>1
    <2>3. (IF caidFirst THEN r.out ELSE CaidWillSend(r.out)) \subseteq B
      BY WillSendSubset
    <2>4. QED
      BY <2>2, <2>3
  <1>3. SetFlags([flags EXCEPT !.sent = TRUE]) \/ UNCHANGED disk
    BY DEF SendEventsOfChannel
  <1>4. /\ flags' \in Flags /\ file' \in Flags
        /\ flags'.wrote \/ file'.wrote => made # <<>>
    BY <1>3, SentStep
  <1>5. upload' \subseteq DOMAIN made
    BY <1>2 DEF Events
  <1>6. /\ todo' \in Blocks
        /\ todo' \in AfterEvent => todo \in AfterEvent
    <2>1. Head(todo) \notin Name
      BY <1>1 DEF SendStep, Name
    <2>2. QED
      BY <1>1, <2>1, Rest DEF Events, Written
  <1>7. QED
    BY <1>1, <1>4, <1>5, <1>6 DEF Events, Written

LEMMA DidSendEvents ==
    ASSUME Events, DidSend
    PROVE  Events'
  <1>1. SetFlags([flags EXCEPT !.sent = TRUE]) \/ UNCHANGED disk
    BY DEF DidSend
  <1>2. /\ flags' \in Flags /\ file' \in Flags
        /\ flags'.wrote \/ file'.wrote => made # <<>>
    BY <1>1, SentStep
  <1>3. /\ received' = received \cup upload /\ stored' = stored \ upload /\ upload' = {}
        /\ made' = made /\ todo' = todo
    BY DEF DidSend
  <1>4. QED
    BY <1>2, <1>3 DEF Events, Written

(* A step that leaves the events and the flags alone, and goes on with its *)
(* block or begins another one.                                           *)
LEMMA OtherStep ==
    ASSUME Events, UNCHANGED <<disk, events>>,
           \/ todo' \in Blocks \ AfterEvent
           \/ UNCHANGED todo
           \/ \E c \in SendStep : Pop(c)
    PROVE  Events'
  <1>1. /\ todo' \in Blocks
        /\ todo' \in AfterEvent => todo \in AfterEvent
    <2>1. CASE \E c \in SendStep : Pop(c)
      <3>1. todo # <<>> /\ Head(todo) \in SendStep /\ todo' = Tail(todo)
        BY <2>1 DEF Pop
      <3>2. Head(todo) \notin Name
        BY <3>1 DEF SendStep, Name
      <3>3. QED
        BY <3>1, <3>2, Rest DEF Events, Written
    <2>2. QED
      BY <2>1 DEF Events, Written
  <1>2. QED
    BY <1>1 DEF Events, Written, disk, events

LEMMA BlockEvents ==
    ASSUME Inv, Block \/ SetDataCollectionEnabled
    PROVE  Events'
  <1>0. Events /\ Fetches /\ enabled \in BOOLEAN
    BY DEF Inv, Device
  <1>1. UNCHANGED <<disk, events>>
    BY DEF Block, SetDataCollectionEnabled, RunLoadClipboard, PasteboardIsOther,
           PasteboardIsDeepLink, UserAgentArrives, RemoveInterceptor, ConfigManager
  <1>2. CASE RunLoadClipboard
    <2>1. /\ Minus(pending, "load") \in Bag
          /\ AsaEnds(asa.status, Minus(pending, "load"))
          /\ CaidEnds(caid.status, Minus(pending, "load"))
      BY <1>0, <1>2, TaskEnds, TaskNames DEF RunLoadClipboard, Ending
    <2>2. todo' \in Blocks \ AfterEvent
      BY <1>0, <1>2, <2>1, LoadStarts DEF RunLoadClipboard
    <2>3. QED
      BY <1>0, <1>1, <2>2, OtherStep
  <1>3. CASE SetDataCollectionEnabled
    <2>1. enabled' \in BOOLEAN /\ Idle /\ LoadClipboard(enabled', pending)
      BY <1>0, <1>3 DEF SetDataCollectionEnabled
    <2>2. todo' \in Blocks \ AfterEvent
      BY <1>0, <2>1, FetchesAre, LoadStarts
    <2>3. QED
      BY <1>0, <1>1, <2>2, OtherStep
  <1>4. CASE PasteboardIsOther
    <2>1. /\ Minus(pending, "activate") \in Bag
          /\ AsaEnds(asa.status, Minus(pending, "activate"))
          /\ CaidEnds(caid.status, Minus(pending, "activate"))
      BY <1>0, <1>4, TaskEnds, TaskNames DEF PasteboardIsOther, Ending
    <2>2. todo' \in Blocks \ AfterEvent
      BY <1>0, <1>4, <2>1, GenerateStarts DEF PasteboardIsOther, Started
    <2>3. QED
      BY <1>0, <1>1, <2>2, OtherStep
  <1>5. CASE PasteboardIsDeepLink \/ UserAgentArrives
    <2>1. todo' \in Blocks \ AfterEvent
      BY <1>5, NewBlocks DEF PasteboardIsDeepLink, UserAgentArrives
    <2>2. QED
      BY <1>0, <1>1, <2>1, OtherStep
  <1>6. CASE RemoveInterceptor \/ ConfigManager
    BY <1>0, <1>1, <1>6, OtherStep DEF RemoveInterceptor, ConfigManager
  <1>7. QED
    BY <1>2, <1>3, <1>4, <1>5, <1>6 DEF Block

LEMMA EventsStep ==
    ASSUME Inv, [Next]_vars
    PROVE  Events'
  <1>0. Events
    BY DEF Inv
  <1>1. CASE BlockStep
    <2>1. CASE ReturnFromSend \/ NotReachable
      <3>1. UNCHANGED <<disk, events>> /\ \E c \in SendStep : Pop(c)
        BY <2>1 DEF ReturnFromSend, NotReachable, SendStep
      <3>2. QED
        BY <1>0, <3>1, OtherStep
    <2>2. QED
      BY <1>0, <1>1, <2>1, EventPosted, FlagStep, SendKeepsEvents DEF BlockStep
  <1>2. CASE SendAllChannelEvents \/ SendInstant
    <2>1. todo' \in Blocks \ AfterEvent /\ UNCHANGED <<disk, events>>
      BY <1>2, NewBlocks DEF SendAllChannelEvents, SendInstant
    <2>2. QED
      BY <1>0, <2>1, OtherStep
  <1>3. CASE UploadFails
    <2>1. upload' = {} /\ UNCHANGED <<disk, todo, made, stored, received>>
      BY <1>3 DEF UploadFails
    <2>2. QED
      BY <1>0, <2>1 DEF Events, Written, disk
  <1>4. CASE Crash
    <2>1. flags' = file /\ todo' = <<>> /\ upload' = {} /\ UNCHANGED <<file, made, stored, received>>
      BY <1>4 DEF Crash
    <2>2. todo' \in Blocks \ AfterEvent
      BY <2>1, NewBlocks
    <2>3. QED
      BY <1>0, <2>1, <2>2 DEF Events, Written
  <1>5. CASE Asa \/ ReadPasteboard \/ ClearPasteboard \/ HandleURL \/ CaidArrives \/ CaidTimeOut
    <2>1. UNCHANGED <<disk, events, todo>>
      BY <1>5 DEF Asa, AsaStep, FetchAttribution, AttributionArrives, AttributionDenied,
                  SaveAttribution, RetryOrFail, TimeOut, EndFetch, ReadPasteboard,
                  ClearPasteboard, HandleURL, CaidArrives, CaidTimeOut, CaidStep
    <2>2. QED
      BY <1>0, <2>1, OtherStep
  <1>6. CASE UNCHANGED vars
    BY <1>0, <1>6, OtherStep DEF vars
  <1>7. QED
    BY <1>0, <1>1, <1>2, <1>3, <1>4, <1>5, <1>6, BlockEvents, DidSendEvents DEF Next

-----------------------------------------------------------------------------
(* The theorems *)

LEMMA DeviceStep ==
    ASSUME Device, [Next]_vars
    PROVE  Device'
  <1>1. \/ enabled' \in BOOLEAN \/ enabled' = enabled
    BY DEF Device, Next, vars, Block, RunLoadClipboard, PasteboardIsOther, PasteboardIsDeepLink,
           UserAgentArrives, RemoveInterceptor, ConfigManager, BlockStep, PostEvent, SetActivateWrote,
           SetActivateDefer, SendEventsOfChannel, ReturnFromSend, NotReachable, Asa, AsaStep,
           FetchAttribution, AttributionArrives, AttributionDenied, SaveAttribution, RetryOrFail,
           TimeOut, EndFetch, ReadPasteboard, ClearPasteboard, SetDataCollectionEnabled, HandleURL,
           SendAllChannelEvents, SendInstant, DidSend, UploadFails, CaidArrives, CaidTimeOut,
           CaidStep, Crash
  <1>2. agent' \in BOOLEAN
    BY DEF Device, Next, vars, Block, RunLoadClipboard, PasteboardIsOther, PasteboardIsDeepLink,
           UserAgentArrives, RemoveInterceptor, ConfigManager, BlockStep, PostEvent, SetActivateWrote,
           SetActivateDefer, SendEventsOfChannel, ReturnFromSend, NotReachable, Asa, AsaStep,
           FetchAttribution, AttributionArrives, AttributionDenied, SaveAttribution, RetryOrFail,
           TimeOut, EndFetch, ReadPasteboard, ClearPasteboard, SetDataCollectionEnabled, HandleURL,
           SendAllChannelEvents, SendInstant, DidSend, UploadFails, CaidArrives, CaidTimeOut,
           CaidStep, Crash
  <1>3. clipboard' = clipboard \/ clipboard' = "other"
    BY DEF Next, vars, Block, RunLoadClipboard, PasteboardIsOther, PasteboardIsDeepLink,
           UserAgentArrives, RemoveInterceptor, ConfigManager, BlockStep, PostEvent, SetActivateWrote,
           SetActivateDefer, SendEventsOfChannel, ReturnFromSend, NotReachable, Asa, AsaStep,
           FetchAttribution, AttributionArrives, AttributionDenied, SaveAttribution, RetryOrFail,
           TimeOut, EndFetch, ReadPasteboard, ClearPasteboard, SetDataCollectionEnabled, HandleURL,
           SendAllChannelEvents, SendInstant, DidSend, UploadFails, CaidArrives, CaidTimeOut,
           CaidStep, Crash
  <1>4. QED
    BY <1>1, <1>2, <1>3 DEF Device, Content

LEMMA NumbersStep ==
    ASSUME Numbers, [Next]_vars
    PROVE  Numbers'
  <1>1. /\ toggles' \in {toggles, toggles + 1} /\ links' \in {links, links + 1}
        /\ errors' \in {errors, errors + 1} /\ crashes' \in {crashes, crashes + 1}
        /\ redone' \in {redone, redone + 1}
    BY DEF Next, vars, counts, Block, RunLoadClipboard, PasteboardIsOther, PasteboardIsDeepLink,
           UserAgentArrives, RemoveInterceptor, ConfigManager, BlockStep, PostEvent, SetActivateWrote,
           SetActivateDefer, SendEventsOfChannel, ReturnFromSend, NotReachable, Asa, AsaStep,
           FetchAttribution, AttributionArrives, AttributionDenied, SaveAttribution, RetryOrFail,
           TimeOut, EndFetch, ReadPasteboard, ClearPasteboard, SetDataCollectionEnabled, HandleURL,
           SendAllChannelEvents, SendInstant, DidSend, UploadFails, CaidArrives, CaidTimeOut,
           CaidStep, Crash
  <1>2. lost' \in {lost, lost + 1}
    BY DEF Next, vars, disk, SetFlags, Block, RunLoadClipboard, PasteboardIsOther, PasteboardIsDeepLink,
           UserAgentArrives, RemoveInterceptor, ConfigManager, BlockStep, PostEvent, SetActivateWrote,
           SetActivateDefer, SendEventsOfChannel, ReturnFromSend, NotReachable, Asa, AsaStep,
           FetchAttribution, AttributionArrives, AttributionDenied, SaveAttribution, RetryOrFail,
           TimeOut, EndFetch, ReadPasteboard, ClearPasteboard, SetDataCollectionEnabled, HandleURL,
           SendAllChannelEvents, SendInstant, DidSend, UploadFails, CaidArrives, CaidTimeOut,
           CaidStep, Crash
  <1>3. QED
    BY <1>1, <1>2 DEF Numbers

LEMMA InitInv ==
    ASSUME Init
    PROVE  Inv
  <1>1. Launched \in Bag
    BY DEF Launched, Bag
  <1>2. IdleAsa \in AsaState /\ IdleAsa.status # "Fetching"
    BY DEF IdleAsa, AsaState, Status
  <1>3. IdleCaid \in CaidState /\ IdleCaid.status # "Fetching"
    BY DEF IdleCaid, CaidState, Status
  <1>4. Fetches
    BY <1>1, <1>2, <1>3 DEF Init, Fetches, AsaFetchEnds, CaidFetchEnds
  <1>5. NoFlags \in Flags /\ ~NoFlags.wrote
    BY DEF NoFlags, Flags
  <1>6. Events
    BY <1>5, NewBlocks DEF Init, Events, Written
  <1>7. Device
    BY ActivationAssumption DEF Init, Device, Content
  <1>8. Numbers
    BY DEF Init, Numbers
  <1>9. QED
    BY <1>4, <1>6, <1>7, <1>8 DEF Inv

LEMMA Invariant == Spec => []Inv
  <1>1. Init => Inv
    BY InitInv
  <1>2. ASSUME Inv, [Next]_vars
        PROVE  Inv'
    <2>1. Fetches'
      BY <1>2, FetchesStep DEF Inv, Device
    <2>2. Events' /\ Device' /\ Numbers'
      BY <1>2, EventsStep, DeviceStep, NumbersStep DEF Inv
    <2>3. QED
      BY <2>1, <2>2 DEF Inv
  <1>3. QED
    BY <1>1, <1>2, PTL DEF Spec

(* Every variable keeps its type. *)
THEOREM TypeCorrect == Spec => []TypeOK
  <1>1. Inv => TypeOK
    <2>1. Blocks \subseteq Seq(Step)
      BY DEF Blocks, AfterEvent, Step, Name, SendStep
    <2>2. QED
      BY <2>1 DEF Inv, Fetches, Events, Written, Device, Numbers, TypeOK, Bag
  <1>2. QED
    BY <1>1, Invariant, PTL

(* Neither fetcher holds the ACTIVATE event back with nobody to end that:  *)
(* not after retries, late answers, time-outs or a new process.            *)
THEOREM FetchesEnd == Spec => []FetchEnds
  <1>1. Inv => FetchEnds
    BY DEF Inv, Fetches, FetchEnds
  <1>2. QED
    BY <1>1, Invariant, PTL

(* No end of the process and no failed write leaves an installation marked *)
(* as activated without the event.                                         *)
THEOREM FlagFollowsEvent == Spec => []NeverSkipped
  <1>1. Inv => NeverSkipped
    BY DEF Inv, Events, Written, NeverSkipped
  <1>2. QED
    BY <1>1, Invariant, PTL

-----------------------------------------------------------------------------
(***************************************************************************)
(* How often the event is made.  In a process it is on its way at most     *)
(* once: as one task, which hands it to the next, or in the block that     *)
(* posts it and sets the flag.                                             *)
(***************************************************************************)
Source == {"load", "read", "activate", "defer", "agent"}
Making == {<<"activate", "json", "wrote">>, <<"defer", "json", "wrote", "deferred">>}

(* There is room for an event: no process has made one and kept its flag. *)
Room == Len(made) <= redone

None(p)    == \A t \in Source : p[t] = 0
Only(p, s) == p[s] = 1 /\ \A t \in Source \ {s} : p[t] = 0

(* One is under way, and may lead to the event only if there is room. *)
Single(p) ==
    \/ None(p)
    \/ \E s \in Source : /\ Only(p, s)
                         /\ todo \notin Making \cup AfterEvent
                         /\ Room \/ (s = "load" /\ flags.wrote)

Once ==
    /\ Single(pending)
    /\ todo \in Making => Room
    /\ Len(made) <= 1 + redone

OnceInv == toggles = 0 => Once

LEMMA SourceTasks ==
    /\ Source \subseteq Task
    /\ Source \cap (AsaTask \cup CaidTask \cup {"remove", "clear", "config"}) = {}
  BY DEF Source, Task, GrowingTask, AsaTask, CaidTask

(* Tasks that are no source begin or end. *)
LEMMA SourcesKept ==
    ASSUME NEW p \in Bag
    PROVE  /\ \A T : T \cap Source = {} => \A t \in Source : Plus(p, T)[t] = p[t]
           /\ \A u \in Task \ Source : \A t \in Source : Minus(p, u)[t] = p[t]
  BY SourceTasks DEF Plus, Minus, Bag

(* One source begins where there is none. *)
LEMMA SourceBegins ==
    ASSUME NEW p \in Bag, None(p), NEW s \in Source, NEW T, T \cap Source = {s}
    PROVE  Only(Plus(p, T), s)
  <1>1. \A t \in Source : t \in Task /\ t # "remove"
    BY SourceTasks
  <1>2. \A t \in Source : t \in T <=> t = s
    OBVIOUS
  <1>3. \A t \in Source : Plus(p, T)[t] = IF t = s THEN p[t] + 1 ELSE p[t]
    BY <1>1, <1>2 DEF Plus
  <1>4. QED
    BY <1>3 DEF None, Only

(* The only source ends. *)
LEMMA SourceEnds ==
    ASSUME pending \in Bag, Once, NEW s \in Source, Underway(s)
    PROVE  /\ Minus(pending, s) \in Bag /\ None(Minus(pending, s))
           /\ todo \notin Making \cup AfterEvent
           /\ Room \/ (s = "load" /\ flags.wrote)
  <1>1. s \in Task /\ pending[s] > 0
    BY SourceTasks DEF Underway
  <1>2. PICK t \in Source : /\ Only(pending, t)
                            /\ todo \notin Making \cup AfterEvent
                            /\ Room \/ (t = "load" /\ flags.wrote)
    BY <1>1 DEF Once, Single, None
  <1>3. t = s
    BY <1>1, <1>2 DEF Only
  <1>4. /\ Minus(pending, s) \in Bag
        /\ \A u \in Task \ {s} : Minus(pending, s)[u] = pending[u]
    BY <1>1, MinusType
  <1>5. Minus(pending, s)[s] = 0
    BY <1>1, <1>2, <1>3 DEF Minus, Only, Bag
  <1>6. None(Minus(pending, s))
    BY <1>2, <1>3, <1>4, <1>5, SourceTasks DEF None, Only
  <1>7. QED
    BY <1>2, <1>3, <1>4, <1>6

(* A block of one or two steps makes no event. *)
LEMMA ShortBlocks ==
    /\ <<>> \notin Making /\ <<"wrote">> \notin Making /\ <<"wrote", "deferred">> \notin Making
    /\ <<"deferred">> \notin Making /\ <<"protobuf">> \notin Making
    /\ <<"json">> \notin Making /\ <<"json", "protobuf">> \notin Making
  BY DEF Making

(* The rest of a block makes no event. *)
LEMMA RestMakesNone ==
    ASSUME todo \in Blocks, todo # <<>>
    PROVE  /\ Tail(todo) \notin Making
           /\ Head(todo) \in Name => todo \in Making
  <1>1. \A s \in Making : Len(s) >= 3 /\ Head(s) \in Name
    BY DEF Making, Name
  <1>2. CASE todo \in AfterEvent \cup {<<"json", "protobuf">>, <<"protobuf">>, <<"json">>}
    <2>1. \/ todo = <<"json", "wrote">> \/ todo = <<"wrote">> \/ todo = <<"deferred">>
          \/ todo = <<"json", "wrote", "deferred">> \/ todo = <<"wrote", "deferred">>
          \/ todo = <<"json", "protobuf">> \/ todo = <<"protobuf">> \/ todo = <<"json">>
      BY <1>2 DEF AfterEvent
    <2>2. Head(todo) \notin Name
      BY <2>1 DEF Name
    <2>3. \/ Tail(todo) = <<>> \/ Tail(todo) = <<"wrote">> \/ Tail(todo) = <<"deferred">>
          \/ Tail(todo) = <<"wrote", "deferred">> \/ Tail(todo) = <<"protobuf">>
      BY <2>1, Tails
    <2>4. Tail(todo) \notin Making
      BY <2>3, ShortBlocks
    <2>5. QED
      BY <2>2, <2>4
  <1>3. CASE todo \in Making
    <2>1. Head(Tail(todo)) = "json"
      BY <1>3 DEF Making
    <2>2. QED
      BY <1>1, <1>3, <2>1 DEF Name
  <1>4. QED
    BY <1>2, <1>3 DEF Blocks, Making

(* A step that makes nothing and begins nothing of this. *)
LEMMA OnceKept ==
    ASSUME Once, UNCHANGED <<made, redone>>, \A t \in Source : pending'[t] = pending[t],
           flags.wrote => flags'.wrote,
           todo' \in Making => todo \in Making,
           todo' \in AfterEvent => todo \in AfterEvent
    PROVE  Once'
  <1>1. Room' <=> Room
    BY DEF Room
  <1>2. None(pending') <=> None(pending)
    BY DEF None
  <1>3. \A s \in Source : Only(pending', s) <=> Only(pending, s)
    BY DEF Only
  <1>4. Single(pending)'
    BY <1>1, <1>2, <1>3 DEF Once, Single
  <1>5. QED
    BY <1>1, <1>4 DEF Once

(* The last task has led to a block or to the next task. *)
LEMMA OnceMoves ==
    ASSUME Once, UNCHANGED <<made, redone>>, Room,
           \/ None(pending')
           \/ todo' \notin Making \cup AfterEvent /\ \E s \in Source : Only(pending', s)
    PROVE  Once'
  <1>1. Room'
    BY DEF Room
  <1>2. Single(pending)'
    BY <1>1 DEF Single
  <1>3. QED
    BY <1>1, <1>2 DEF Once, Room

(* generateAppActivation, the only source being over *)
LEMMA GenerateOnce ==
    ASSUME Idle, NEW on \in BOOLEAN, NEW p \in Bag, None(p), GenerateAppActivation(on, p)
    PROVE  \/ None(pending')
           \/ todo' \notin Making \cup AfterEvent /\ \E s \in Source : Only(pending', s)
  <1> DEFINE q == Plus(p, AsaTasks(on))
  <1>1. AsaTasks(on) \cap Source = {}
    BY SourceTasks DEF AsaTasks, AsaTask
  <1>2. q \in Bag /\ None(q)
    BY <1>1, SourcesKept, PlusType DEF None
  <1>3. CASE agent
    <2>1. pending' = q
      BY <1>3 DEF GenerateAppActivation
    <2>2. QED
      BY <1>2, <2>1
  <1>4. CASE ~agent
    <2>1. pending' = Plus(q, {"agent"}) /\ todo' = <<>>
      BY <1>4 DEF GenerateAppActivation, Idle
    <2>2. "agent" \in Source /\ {"agent"} \cap Source = {"agent"}
      BY DEF Source
    <2> HIDE DEF q
    <2>3. Only(Plus(q, {"agent"}), "agent")
      BY <1>2, <2>2, SourceBegins
    <2>4. <<>> \notin Making \cup AfterEvent
      BY NewBlocks DEF Making
    <2>5. QED
      BY <2>1, <2>2, <2>3, <2>4
  <1>5. QED
    BY <1>3, <1>4

LEMMA LoadOnce ==
    ASSUME Fetches, Once, RunLoadClipboard, enabled \in BOOLEAN
    PROVE  Once'
  <1> DEFINE p == Minus(pending, "load")
             q == Plus(p, CaidTasks)
  <1>1. /\ Idle /\ Underway("load") /\ LoadClipboard(enabled, p)
        /\ UNCHANGED <<made, redone, flags>>
    BY DEF RunLoadClipboard, disk, events, counts
  <1>2. /\ p \in Bag /\ None(p) /\ (Room \/ flags.wrote)
    <2>1. "load" \in Source /\ pending \in Bag
      BY DEF Source, Fetches
    <2>2. QED
      BY <1>1, <2>1, SourceEnds
  <1>3. q \in Bag /\ None(q)
    <2>1. CaidTasks \cap Source = {}
      BY SourceTasks DEF CaidTasks
    <2>2. QED
      BY <1>2, <2>1, SourcesKept, PlusType DEF None
  <1>4. <<>> \notin Making \cup AfterEvent
    BY NewBlocks DEF Making
  <1>5. \/ None(pending') /\ todo' = todo
        \/ Room /\ todo' = todo /\ Only(pending', "read")
        \/ Room /\ GenerateAppActivation(enabled, q)
    <2>1. AsaTasks(enabled) \cap Source = {}
      BY SourceTasks DEF AsaTasks, AsaTask
    <2>2. "read" \in Source /\ {"read"} \cap Source = {"read"}
      BY DEF Source
    <2>3. None(Plus(q, AsaTasks(enabled)))
      BY <1>3, <2>1, SourcesKept DEF None
    <2>4. Only(Plus(q, {"read"}), "read")
      BY <1>3, <2>2, SourceBegins
    <2>5. \/ pending' = p /\ todo' = todo
          \/ pending' = q /\ todo' = todo
          \/ pending' = Plus(q, AsaTasks(enabled)) /\ todo' = todo
          \/ ~flags.wrote /\ pending' = Plus(q, {"read"}) /\ todo' = todo
          \/ ~flags.wrote /\ GenerateAppActivation(enabled, q)
      BY <1>1 DEF LoadClipboard
    <2> HIDE DEF p, q
    <2>6. QED
      BY <1>2, <1>3, <2>3, <2>4, <2>5
  <1> HIDE DEF p, q
  <1>6. CASE None(pending') /\ todo' = todo
    BY <1>1, <1>4, <1>6 DEF Once, Single, Idle, Room
  <1>7. CASE Room /\ todo' = todo /\ Only(pending', "read")
    <2>1. "read" \in Source
      BY DEF Source
    <2>2. QED
      BY <1>1, <1>4, <1>7, <2>1, OnceMoves DEF Idle
  <1>8. CASE Room /\ GenerateAppActivation(enabled, q)
    BY <1>1, <1>3, <1>8, GenerateOnce, OnceMoves
  <1>9. QED
    BY <1>5, <1>6, <1>7, <1>8

(* The other tasks on the way to the event. *)
LEMMA SourceOnce ==
    ASSUME Fetches, Device, Once,
           \/ PasteboardIsOther \/ PasteboardIsDeepLink \/ UserAgentArrives \/ ReadPasteboard
    PROVE  Once'
  <1>1. pending \in Bag /\ enabled \in BOOLEAN /\ clipboard \in Content
    BY DEF Fetches, Device
  <1>2. UNCHANGED <<made, redone>>
    BY DEF PasteboardIsOther, PasteboardIsDeepLink, UserAgentArrives, ReadPasteboard, events, counts
  <1>3. "activate" \in Source /\ "defer" \in Source /\ "agent" \in Source /\ "read" \in Source
    BY DEF Source
  <1>4. CASE PasteboardIsOther
    <2>1. /\ Idle /\ Underway("activate")
          /\ GenerateAppActivation(enabled, Minus(pending, "activate"))
      BY <1>4 DEF PasteboardIsOther
    <2>2. Minus(pending, "activate") \in Bag /\ None(Minus(pending, "activate")) /\ Room
      BY <1>1, <1>3, <2>1, SourceEnds
    <2>3. QED
      BY <1>1, <1>2, <2>1, <2>2, GenerateOnce, OnceMoves
  <1>5. CASE PasteboardIsDeepLink
    <2>1. Underway("defer") /\ pending' = Minus(pending, "defer")
      BY <1>5 DEF PasteboardIsDeepLink
    <2>2. None(pending') /\ Room
      BY <1>1, <1>3, <2>1, SourceEnds
    <2>3. QED
      BY <1>2, <2>2, OnceMoves
  <1>6. CASE UserAgentArrives
    <2>1. Underway("agent") /\ pending' = Minus(pending, "agent")
      BY <1>6 DEF UserAgentArrives
    <2>2. None(pending') /\ Room
      BY <1>1, <1>3, <2>1, SourceEnds
    <2>3. QED
      BY <1>2, <2>2, OnceMoves
  <1>7. CASE ReadPasteboard
    <2> DEFINE p == Minus(pending, "read")
    <2>1. Underway("read") /\ todo' = todo
      BY <1>7 DEF ReadPasteboard
    <2>2. p \in Bag /\ None(p) /\ todo \notin Making \cup AfterEvent /\ Room
      BY <1>1, <1>3, <2>1, SourceEnds
    <2>3. \/ pending' = Plus(p, {"defer", "clear"})
          \/ pending' = Plus(p, {"clear"})
          \/ pending' = Plus(p, {"activate"})
      BY <1>1, <1>7 DEF ReadPasteboard, Content
    <2>4. /\ {"defer", "clear"} \cap Source = {"defer"}
          /\ {"clear"} \cap Source = {} /\ {"activate"} \cap Source = {"activate"}
      BY DEF Source
    <2> HIDE DEF p
    <2>5. /\ Only(Plus(p, {"defer", "clear"}), "defer")
          /\ Only(Plus(p, {"activate"}), "activate")
      BY <1>3, <2>2, <2>4, SourceBegins
    <2>6. None(Plus(p, {"clear"}))
      BY <2>2, <2>4, SourcesKept DEF None
    <2>7. QED
      BY <1>2, <1>3, <2>1, <2>2, <2>3, <2>5, <2>6, OnceMoves
  <1>8. QED
    BY <1>4, <1>5, <1>6, <1>7

(* The event is made where there is room, and nothing else is on its way. *)
LEMMA PostOnce ==
    ASSUME Events, Fetches, Numbers, Once, NEW n \in Name, PostEvent(n)
    PROVE  Once'
  <1>1. /\ todo # <<>> /\ Head(todo) = n /\ todo' = Tail(todo) /\ made' = Append(made, n)
        /\ UNCHANGED <<pending, redone>>
    BY DEF PostEvent, Pop, counts
  <1>2. todo \in Blocks /\ made \in Seq(Name) /\ redone \in Nat
    BY DEF Events, Written, Numbers
  <1>3. todo \in Making /\ todo' \notin Making
    BY <1>1, <1>2, RestMakesNone
  <1>4. Room /\ None(pending)
    BY <1>3 DEF Once, Single
  <1>5. Len(made') = Len(made) + 1 /\ Len(made) \in Nat
    BY <1>1, <1>2
  <1>6. Len(made') <= 1 + redone'
    BY <1>1, <1>2, <1>4, <1>5 DEF Room
  <1>7. QED
    BY <1>1, <1>3, <1>4, <1>6 DEF Once, Single

(* Another step of a block. *)
LEMMA PopOnce ==
    ASSUME Events, Once, NEW s \in Step \ Name, Pop(s), UNCHANGED <<made, redone>>,
           \A t \in Source : pending'[t] = pending[t], flags.wrote => flags'.wrote
    PROVE  Once'
  <1>1. todo # <<>> /\ Head(todo) = s /\ todo' = Tail(todo) /\ todo \in Blocks
    BY DEF Pop, Events, Written
  <1>2. todo' \notin Making /\ (todo' \in AfterEvent => todo \in AfterEvent)
    BY <1>1, Rest, RestMakesNone
  <1>3. QED
    BY <1>2, OnceKept

LEMMA BlockStepOnce ==
    ASSUME Events, Fetches, Numbers, Once, BlockStep
    PROVE  Once'
  <1>0. pending \in Bag /\ flags \in Flags
    BY DEF Fetches, Events
  <1>1. ASSUME NEW n \in Name, PostEvent(n)
        PROVE  Once'
    BY <1>1, PostOnce
  <1>2. CASE SetActivateWrote \/ SetActivateDefer
    <2>1. PICK s \in {"wrote", "deferred"} : Pop(s)
      BY <1>2 DEF SetActivateWrote, SetActivateDefer
    <2>2. UNCHANGED <<made, redone, pending>>
      BY <1>2 DEF SetActivateWrote, SetActivateDefer, events, counts
    <2>3. flags' \in {[flags EXCEPT !.wrote = TRUE], [flags EXCEPT !.defer = TRUE]}
      BY <1>2 DEF SetActivateWrote, SetActivateDefer, SetFlags
    <2>4. flags.wrote => flags'.wrote
      BY <1>0, <2>3 DEF Flags
    <2>5. s \in Step \ Name
      BY DEF Step, Name
    <2>6. QED
      BY <2>1, <2>2, <2>4, <2>5, PopOnce
  <1>3. ASSUME NEW c \in SendStep, SendEventsOfChannel(c)
        PROVE  Once'
    <2>1. Pop(c) /\ UNCHANGED <<made, redone>> /\ c \in Step \ Name
      BY <1>3 DEF SendEventsOfChannel, counts, Step, Name, SendStep
    <2>2. PICK T \in {{}, {"remove"}, {"queued"}} : pending' = Plus(pending, T)
      BY <1>3 DEF SendEventsOfChannel, AsaWillSend
    <2>3. T \cap Source = {}
      BY DEF Source
    <2>4. \A t \in Source : pending'[t] = pending[t]
      BY <1>0, <2>2, <2>3, SourcesKept
    <2>5. flags' = [flags EXCEPT !.sent = TRUE] \/ flags' = flags
      BY <1>3 DEF SendEventsOfChannel, SetFlags, disk
    <2>6. flags.wrote => flags'.wrote
      BY <1>0, <2>5 DEF Flags
    <2>7. QED
      BY <2>1, <2>4, <2>6, PopOnce
  <1>4. CASE ReturnFromSend \/ NotReachable
    <2>1. PICK s \in SendStep : Pop(s)
      BY <1>4 DEF ReturnFromSend, NotReachable, SendStep
    <2>2. UNCHANGED <<made, redone, pending, flags>> /\ s \in Step \ Name
      BY <1>4 DEF ReturnFromSend, NotReachable, events, counts, disk, Step, Name, SendStep
    <2>3. QED
      BY <2>1, <2>2, PopOnce
  <1>5. QED
    BY <1>1, <1>2, <1>3, <1>4 DEF BlockStep

(* Tasks of the fetchers and of the pasteboard. *)
LEMMA TasksOnce ==
    ASSUME Fetches, Once,
           \/ Asa \/ ClearPasteboard \/ RemoveInterceptor \/ ConfigManager
           \/ HandleURL \/ CaidArrives \/ CaidTimeOut
    PROVE  Once'
  <1>0. pending \in Bag
    BY DEF Fetches
  <1>1. UNCHANGED <<made, redone, flags, todo>>
    BY DEF Asa, FetchAttribution, AttributionArrives, AttributionDenied, SaveAttribution,
           RetryOrFail, TimeOut, EndFetch, AsaStep, ClearPasteboard, RemoveInterceptor,
           ConfigManager, HandleURL, CaidArrives, CaidTimeOut, CaidStep, disk, events, counts
  <1>2. ASSUME NEW t \in AsaTask \cup CaidTask \cup {"clear", "remove", "config"}, Underway(t)
        PROVE  /\ Minus(pending, t) \in Bag
               /\ \A u \in Source : Minus(pending, t)[u] = pending[u]
    <2>1. t \in Task \ Source
      BY SourceTasks DEF Task, GrowingTask
    <2>2. QED
      BY <1>0, <1>2, <2>1, MinusType, SourcesKept DEF Underway
  <1>3. ASSUME NEW t \in AsaTask, Underway(t), NEW T \in SUBSET AsaTask,
               pending' = Plus(Minus(pending, t), T)
        PROVE  \A u \in Source : pending'[u] = pending[u]
    <2>1. T \cap Source = {}
      BY SourceTasks
    <2>2. /\ Minus(pending, t) \in Bag
          /\ \A u \in Source : Minus(pending, t)[u] = pending[u]
      BY <1>2, <1>3
    <2> DEFINE p == Minus(pending, t)
    <2>3. p \in Bag /\ pending' = Plus(p, T)
      BY <1>3, <2>2
    <2> HIDE DEF p
    <2>4. \A u \in Source : pending'[u] = p[u]
      BY <2>1, <2>3, SourcesKept
    <2>5. QED
      BY <2>2, <2>4 DEF p
  <1>4. CASE ClearPasteboard \/ RemoveInterceptor \/ ConfigManager \/ CaidArrives \/ CaidTimeOut
    <2>1. PICK t \in CaidTask \cup {"clear", "remove", "config"} :
             Underway(t) /\ pending' = Minus(pending, t)
      BY <1>4 DEF ClearPasteboard, RemoveInterceptor, ConfigManager, CaidArrives, CaidTimeOut, CaidStep, CaidTask
    <2>2. QED
      BY <1>1, <1>2, <2>1, OnceKept
  <1>5. CASE HandleURL
    <2>1. pending' = Plus(pending, CaidTasks) /\ CaidTasks \cap Source = {}
      BY <1>5, SourceTasks DEF HandleURL, CaidTasks
    <2>2. QED
      BY <1>0, <1>1, <2>1, OnceKept, SourcesKept
  <1>6. CASE Asa
    <2>1. \/ \E t \in AsaTask, T \in SUBSET AsaTask :
                Underway(t) /\ pending' = Plus(Minus(pending, t), T)
          \/ \E t \in AsaTask : Underway(t) /\ pending' = Minus(pending, t)
          \/ /\ Underway("due") /\ Underway("running")
             /\ pending' = Minus(Minus(pending, "due"), "running")
      <3>1. CASE FetchAttribution
        BY <3>1 DEF FetchAttribution, AsaStep, AsaTask
      <3>2. CASE AttributionArrives
        BY <3>2 DEF AttributionArrives, AsaStep, AsaTask
      <3>3. CASE AttributionDenied
        BY <3>3 DEF AttributionDenied, AsaStep, AsaTask
      <3>4. CASE SaveAttribution
        BY <3>4 DEF SaveAttribution, AsaStep, AsaTask
      <3>5. CASE RetryOrFail
        BY <3>5 DEF RetryOrFail, AsaStep, AsaTask
      <3>6. CASE TimeOut
        BY <3>6 DEF TimeOut, AsaStep, AsaTask
      <3>7. CASE EndFetch
        BY <3>7 DEF EndFetch, AsaStep, AsaTask
      <3>8. QED
        BY <1>6, <3>1, <3>2, <3>3, <3>4, <3>5, <3>6, <3>7 DEF Asa
    <2>2. CASE \E t \in AsaTask, T \in SUBSET AsaTask :
                  Underway(t) /\ pending' = Plus(Minus(pending, t), T)
      BY <1>1, <1>3, <2>2, OnceKept
    <2>3. CASE \E t \in AsaTask : Underway(t) /\ pending' = Minus(pending, t)
      BY <1>1, <1>2, <2>3, OnceKept
    <2>4. CASE /\ Underway("due") /\ Underway("running")
               /\ pending' = Minus(Minus(pending, "due"), "running")
      <3>1. /\ "due" \in AsaTask /\ "running" \in AsaTask
            /\ "running" \in Task \ Source
        BY SourceTasks DEF AsaTask, Task
      <3>2. /\ Minus(pending, "due") \in Bag
            /\ \A u \in Source : Minus(pending, "due")[u] = pending[u]
        BY <1>2, <2>4, <3>1
      <3>3. \A u \in Source : pending'[u] = Minus(pending, "due")[u]
        BY <2>4, <3>1, <3>2, SourcesKept
      <3>4. QED
        BY <1>1, <3>2, <3>3, OnceKept
    <2>5. QED
      BY <2>1, <2>2, <2>3, <2>4
  <1>7. QED
    BY <1>4, <1>5, <1>6

(* The next process loads the clipboard; it makes the event if no flag was kept. *)
LEMMA CrashOnce ==
    ASSUME Events, Numbers, Once, Crash
    PROVE  Once'
  <1>1. /\ redone' = IF made # <<>> /\ ~file.wrote THEN redone + 1 ELSE redone
        /\ flags' = file /\ todo' = <<>> /\ pending' = Launched /\ made' = made
    BY DEF Crash
  <1>2. made \in Seq(Name) /\ redone \in Nat /\ Len(made) \in Nat /\ Len(made) <= 1 + redone
    BY DEF Events, Numbers, Once
  <1>3. Only(Launched, "load") /\ "load" \in Source
    BY SourceTasks DEF Only, Launched, Source
  <1>4. <<>> \notin Making \cup AfterEvent
    BY NewBlocks DEF Making
  <1>5. CASE made # <<>> /\ ~file.wrote
    <2>1. redone' = redone + 1
      BY <1>1, <1>5
    <2>2. Len(made') <= redone' /\ Len(made') <= 1 + redone'
      BY <1>1, <1>2, <2>1
    <2>3. QED
      BY <1>1, <1>3, <1>4, <2>2 DEF Once, Single, Room
  <1>6. CASE file.wrote
    <2>1. redone' = redone
      BY <1>1, <1>6
    <2>2. QED
      BY <1>1, <1>2, <1>3, <1>4, <1>6, <2>1 DEF Once, Single, Room
  <1>7. CASE made = <<>> /\ ~file.wrote
    <2>1. redone' = redone /\ Len(made) = 0
      BY <1>1, <1>7
    <2>2. Len(made') <= redone' /\ Len(made') <= 1 + redone'
      BY <1>1, <1>2, <2>1
    <2>3. QED
      BY <1>1, <1>3, <1>4, <2>2 DEF Once, Single, Room
  <1>8. QED
    BY <1>5, <1>6, <1>7

LEMMA OnceStep ==
    ASSUME Inv, OnceInv, [Next]_vars
    PROVE  OnceInv'
  <1>0. Events /\ Fetches /\ Device /\ Numbers /\ enabled \in BOOLEAN
    BY DEF Inv, Device
  <1>1. toggles' = 0 => toggles = 0 /\ ~SetDataCollectionEnabled
    <2>1. CASE SetDataCollectionEnabled
      <3>1. toggles' = toggles + 1 /\ toggles \in Nat
        BY <1>0, <2>1 DEF SetDataCollectionEnabled, Numbers
      <3>2. QED
        BY <3>1
    <2>2. CASE ~SetDataCollectionEnabled
      <3>1. toggles' = toggles
        BY <2>2 DEF Next, Block, RunLoadClipboard, PasteboardIsOther, PasteboardIsDeepLink,
            UserAgentArrives, RemoveInterceptor, ConfigManager, BlockStep, PostEvent, SetActivateWrote,
            SetActivateDefer, SendEventsOfChannel, ReturnFromSend, NotReachable, Asa,
            FetchAttribution, AttributionArrives, AttributionDenied, SaveAttribution,
            RetryOrFail, TimeOut, EndFetch, AsaStep, ReadPasteboard, ClearPasteboard, HandleURL,
            SendAllChannelEvents, SendInstant, DidSend, UploadFails, CaidArrives, CaidTimeOut,
            CaidStep, Crash, vars, counts
      <3>2. QED
        BY <2>2, <3>1
    <2>3. QED
      BY <2>1, <2>2
  <1> SUFFICES ASSUME toggles' = 0
               PROVE  Once'
    BY DEF OnceInv
  <1>2. Once /\ ~SetDataCollectionEnabled
    BY <1>1 DEF OnceInv
  <1>3. CASE SendAllChannelEvents \/ SendInstant
    <2>1. /\ UNCHANGED <<made, redone, pending, flags>>
          /\ todo' = <<"json", "protobuf">> \/ todo' = <<"json">>
      BY <1>3 DEF SendAllChannelEvents, SendInstant, events, counts, disk
    <2>2. todo' \notin Making
      BY <2>1, ShortBlocks
    <2>3. todo' \notin AfterEvent
      BY <2>1, NewBlocks
    <2>4. QED
      BY <1>2, <2>1, <2>2, <2>3, OnceKept
  <1>4. CASE DidSend
    <2>1. /\ UNCHANGED <<made, redone, todo>>
          /\ pending' = pending \/ pending' = Plus(pending, {"remove"})
          /\ flags' = flags \/ flags' = [flags EXCEPT !.sent = TRUE]
      BY <1>4 DEF DidSend, counts, disk, SetFlags
    <2>2. {"remove"} \cap Source = {} /\ pending \in Bag /\ flags \in Flags
      BY <1>0 DEF Source, Fetches, Events
    <2>3. \A t \in Source : pending'[t] = pending[t]
      BY <2>1, <2>2, SourcesKept
    <2>4. flags.wrote => flags'.wrote
      BY <2>1, <2>2 DEF Flags
    <2>5. QED
      BY <1>2, <2>1, <2>3, <2>4, OnceKept
  <1>5. CASE UploadFails \/ UNCHANGED vars
    <2>1. UNCHANGED <<made, redone, pending, flags, todo>>
      BY <1>5 DEF UploadFails, vars, events, counts, disk
    <2>2. QED
      BY <1>2, <2>1, OnceKept
  <1>6. QED
    BY <1>0, <1>2, <1>3, <1>4, <1>5, LoadOnce, SourceOnce, BlockStepOnce, TasksOnce, CrashOnce
    DEF Next, Block

LEMMA OnceStart == Init => OnceInv
  <1> SUFFICES ASSUME Init
               PROVE  Once
    BY DEF OnceInv
  <1>1. pending = Launched /\ todo = <<>> /\ made = <<>> /\ redone = 0
    BY DEF Init
  <1>2. Only(Launched, "load") /\ "load" \in Source
    BY SourceTasks DEF Only, Launched, Source
  <1>3. <<>> \notin Making \cup AfterEvent
    BY NewBlocks DEF Making
  <1>4. Len(made) = 0
    BY <1>1
  <1>5. QED
    BY <1>1, <1>2, <1>3, <1>4 DEF Once, Single, Room

(* Without calls of setDataCollectionEnabled: the event is made once by an    *)
(* installation, and once more for each process that ended between the event  *)
(* and its flag in the file.                                                  *)
THEOREM MadeOnce == Spec => []ActivatedOnce
  <1>1. OnceInv => ActivatedOnce
    BY DEF OnceInv, Once, ActivatedOnce
  <1>2. Inv /\ OnceInv /\ [Next]_vars => OnceInv'
    BY OnceStep
  <1>3. QED
    BY <1>1, <1>2, OnceStart, Invariant, PTL DEF Spec

-----------------------------------------------------------------------------
(* What a fetch of GrowingAsaFetcher has left to do *)

Work(p, n) ==
    3 * p["queued"] + 2 * p["running"] + p["answered"] + p["failed"]
    + 2 * p["armed"] + p["due"] + 3 * n

AsaWork == Work(pending, asa.retriesLeft)

(***************************************************************************)
(* Every step of GrowingAsaFetcher uses up some of the work that is left,  *)
(* and while it is fetching nothing else adds to it: neither a later start *)
(* or send nor a late answer prolongs the fetch (startFetchWithTimeOut:,   *)
(* retry, GrowingAsaFetcher.m).  With FetchEnds, there is work left as     *)
(* long as the event is held back.                                         *)
(***************************************************************************)
AsaAdvances ==
    /\ Asa => AsaWork' < AsaWork
    /\ asa.status = "Fetching" => AsaWork' <= AsaWork

(* No more attempts and time-outs under way in q than in p. *)
Fewer(p, q) == \A t \in AsaTask : q[t] <= p[t]

LEMMA AsaTasksAre == AsaTask \subseteq Task /\ "remove" \notin AsaTask
  BY DEF AsaTask, Task

LEMMA BagNumbers ==
    ASSUME NEW p \in Bag
    PROVE  \A t \in AsaTask : p[t] \in Nat
  BY AsaTasksAre DEF Bag

LEMMA PlusCounts ==
    ASSUME NEW p \in Bag, NEW T
    PROVE  \A t \in AsaTask : Plus(p, T)[t] = IF t \in T THEN p[t] + 1 ELSE p[t]
  BY AsaTasksAre DEF Plus, Bag

LEMMA MinusCounts ==
    ASSUME NEW p \in Bag, NEW t \in Task
    PROVE  \A u \in AsaTask : Minus(p, t)[u] = IF u = t THEN p[u] - 1 ELSE p[u]
  BY AsaTasksAre DEF Minus, Bag

LEMMA WorkType ==
    ASSUME NEW p \in Bag, NEW n \in Nat
    PROVE  Work(p, n) \in Nat
  <1>1. \A t \in AsaTask : p[t] \in Nat
    BY BagNumbers
  <1> QED  BY <1>1 DEF Work, AsaTask

LEMMA WorkMonotone ==
    ASSUME NEW p \in Bag, NEW q \in Bag, Fewer(p, q), NEW m \in Nat, NEW n \in Nat, m <= n
    PROVE  Work(q, m) <= Work(p, n)
  <1>1. \A t \in AsaTask : p[t] \in Nat /\ q[t] \in Nat /\ q[t] <= p[t]
    BY BagNumbers DEF Fewer
  <1> QED  BY <1>1 DEF Work, AsaTask

LEMMA FewerTransitive ==
    ASSUME NEW p \in Bag, NEW q \in Bag, NEW r \in Bag, Fewer(p, q), Fewer(q, r)
    PROVE  Fewer(p, r)
  <1>1. \A t \in AsaTask : p[t] \in Nat /\ q[t] \in Nat /\ r[t] \in Nat
    BY BagNumbers
  <1> QED  BY <1>1 DEF Fewer

LEMMA FewerPlus ==
    ASSUME NEW p \in Bag, NEW T, T \cap AsaTask = {}
    PROVE  Plus(p, T) \in Bag /\ Fewer(p, Plus(p, T))
  <1>1. \A t \in AsaTask : Plus(p, T)[t] = p[t] /\ p[t] \in Nat
    BY PlusCounts, BagNumbers
  <1> QED  BY <1>1, PlusType DEF Fewer

LEMMA FewerMinus ==
    ASSUME NEW p \in Bag, NEW t \in Task, p[t] > 0
    PROVE  Minus(p, t) \in Bag /\ Fewer(p, Minus(p, t))
  <1>1. \A u \in AsaTask : p[u] \in Nat
    BY BagNumbers
  <1> QED  BY <1>1, MinusType, MinusCounts DEF Fewer

(* Its own steps. *)
LEMMA AsaWorks ==
    ASSUME pending \in Bag, asa \in AsaState, Asa
    PROVE  AsaWork' < AsaWork
  <1> DEFINE n == asa.retriesLeft
  <1>1. n \in Nat /\ \A t \in AsaTask : pending[t] \in Nat /\ t \in Task
    BY BagNumbers, AsaTasksAre DEF AsaState
  <1>2. \A t \in AsaTask : Underway(t) => Minus(pending, t) \in Bag
    BY <1>1, MinusType DEF Underway
  <1>3. ASSUME NEW t \in AsaTask, Underway(t), NEW T, pending' = Plus(Minus(pending, t), T)
        PROVE  \A u \in AsaTask :
                  pending'[u] = pending[u] - (IF u = t THEN 1 ELSE 0) + (IF u \in T THEN 1 ELSE 0)
    <2>1. Minus(pending, t) \in Bag /\ t \in Task
      BY <1>1, <1>2, <1>3
    <2>2. \A u \in AsaTask :
             /\ pending'[u] = IF u \in T THEN Minus(pending, t)[u] + 1 ELSE Minus(pending, t)[u]
             /\ Minus(pending, t)[u] = IF u = t THEN pending[u] - 1 ELSE pending[u]
      BY <1>3, <2>1, PlusCounts, MinusCounts
    <2> QED  BY <1>1, <2>2
  <1>4. ASSUME NEW t \in AsaTask, pending' = Minus(pending, t)
        PROVE  \A u \in AsaTask : pending'[u] = pending[u] - (IF u = t THEN 1 ELSE 0)
    <2>1. t \in Task
      BY <1>1
    <2>2. \A u \in AsaTask : pending'[u] = IF u = t THEN pending[u] - 1 ELSE pending[u]
      BY <1>4, <2>1, MinusCounts
    <2> QED  BY <1>1, <2>2
  <1>5. CASE FetchAttribution
    <2>1. /\ Underway("queued") /\ asa' = asa
          /\ pending' = Plus(Minus(pending, "queued"), {"running"})
      BY <1>5 DEF FetchAttribution, AsaStep
    <2>2. \A u \in AsaTask :
             pending'[u] = pending[u] - (IF u = "queued" THEN 1 ELSE 0) + (IF u = "running" THEN 1 ELSE 0)
      BY <1>3, <2>1 DEF AsaTask
    <2> QED  BY <1>1, <2>1, <2>2 DEF AsaWork, Work, AsaTask
  <1>6. CASE AttributionArrives
    <2>1. PICK t \in {"answered", "failed"} :
             /\ asa' = asa /\ Underway("running")
             /\ pending' = Plus(Minus(pending, "running"),
                                IF asa.status = "Fetching" THEN {t} ELSE {})
      BY <1>6 DEF AttributionArrives, AsaStep
    <2>2. \A u \in AsaTask :
             pending'[u] = pending[u] - (IF u = "running" THEN 1 ELSE 0)
                           + (IF u = t /\ asa.status = "Fetching" THEN 1 ELSE 0)
      BY <1>3, <2>1 DEF AsaTask
    <2> QED  BY <1>1, <2>1, <2>2 DEF AsaWork, Work, AsaTask
  <1>7. CASE AttributionDenied
    <2>1. pending' = Minus(pending, "running") /\ asa'.retriesLeft = n
      BY <1>7 DEF AttributionDenied, AsaStep, AsaState
    <2>2. \A u \in AsaTask : pending'[u] = pending[u] - (IF u = "running" THEN 1 ELSE 0)
      BY <1>4, <2>1 DEF AsaTask
    <2> QED  BY <1>1, <2>1, <2>2 DEF AsaWork, Work, AsaTask
  <1>8. CASE SaveAttribution
    <2>1. pending' = Minus(pending, "answered") /\ asa'.retriesLeft = n
      BY <1>8 DEF SaveAttribution, AsaStep, AsaState
    <2>2. \A u \in AsaTask : pending'[u] = pending[u] - (IF u = "answered" THEN 1 ELSE 0)
      BY <1>4, <2>1 DEF AsaTask
    <2> QED  BY <1>1, <2>1, <2>2 DEF AsaWork, Work, AsaTask
  <1>9. CASE RetryOrFail
    <2>1. CASE n > 0
      <3>1. /\ Underway("failed") /\ asa'.retriesLeft = n - 1
            /\ pending' = Plus(Minus(pending, "failed"), {"queued"})
        BY <1>9, <2>1 DEF RetryOrFail, AsaStep, AsaState
      <3>2. \A u \in AsaTask :
               pending'[u] = pending[u] - (IF u = "failed" THEN 1 ELSE 0) + (IF u = "queued" THEN 1 ELSE 0)
        BY <1>3, <3>1 DEF AsaTask
      <3> QED  BY <1>1, <3>1, <3>2 DEF AsaWork, Work, AsaTask
    <2>2. CASE ~(n > 0)
      <3>1. pending' = Minus(pending, "failed") /\ asa'.retriesLeft = n
        BY <1>9, <2>2 DEF RetryOrFail, AsaStep, AsaState
      <3>2. \A u \in AsaTask : pending'[u] = pending[u] - (IF u = "failed" THEN 1 ELSE 0)
        BY <1>4, <3>1 DEF AsaTask
      <3> QED  BY <1>1, <3>1, <3>2 DEF AsaWork, Work, AsaTask
    <2> QED  BY <2>1, <2>2
  <1>10. CASE TimeOut
    <2>1. /\ asa' = asa /\ Underway("armed")
          /\ pending' = Plus(Minus(pending, "armed"),
                             IF asa.status = "Fetching" THEN {"due"} ELSE {})
      BY <1>10 DEF TimeOut, AsaStep
    <2>2. \A u \in AsaTask :
             pending'[u] = pending[u] - (IF u = "armed" THEN 1 ELSE 0)
                           + (IF u = "due" /\ asa.status = "Fetching" THEN 1 ELSE 0)
      BY <1>3, <2>1 DEF AsaTask
    <2> QED  BY <1>1, <2>1, <2>2 DEF AsaWork, Work, AsaTask
  <1>11. CASE EndFetch
    <2>1. asa'.retriesLeft = 0 /\ Underway("due")
      BY <1>11 DEF EndFetch, AsaStep, AsaState
    <2>2. CASE pending' = Minus(pending, "due")
      <3>1. \A u \in AsaTask : pending'[u] = pending[u] - (IF u = "due" THEN 1 ELSE 0)
        BY <1>4, <2>2 DEF AsaTask
      <3> QED  BY <1>1, <2>1, <3>1 DEF AsaWork, Work, AsaTask
    <2>3. CASE pending' = Minus(Minus(pending, "due"), "running")
      <3>1. Minus(pending, "due") \in Bag /\ {"due", "running"} \subseteq Task
        BY <1>1, <1>2, <2>1 DEF AsaTask
      <3>2. \A u \in AsaTask :
               /\ pending'[u] = IF u = "running" THEN Minus(pending, "due")[u] - 1
                                                 ELSE Minus(pending, "due")[u]
               /\ Minus(pending, "due")[u] = IF u = "due" THEN pending[u] - 1 ELSE pending[u]
        BY <2>3, <3>1, MinusCounts
      <3> QED  BY <1>1, <2>1, <3>2 DEF AsaWork, Work, AsaTask
    <2> QED  BY <1>11, <2>2, <2>3 DEF EndFetch, AsaStep
  <1> QED  BY <1>5, <1>6, <1>7, <1>8, <1>9, <1>10, <1>11 DEF Asa

(* While it is fetching: no other step adds an attempt, a time-out or a retry. *)
Adds(p, a) == p \in Bag /\ Fewer(pending, p) /\ a.retriesLeft \in Nat /\ a.retriesLeft <= asa.retriesLeft

LEMMA FetchingStarts ==
    ASSUME asa.status = "Fetching"
    PROVE  /\ \A on : AsaStarted(on) = asa /\ AsaTasks(on) = {}
           /\ CaidTasks \cap AsaTask = {}
  BY DEF AsaStarted, AsaTasks, StartsAsa, CaidTasks, CaidTask, AsaTask

LEMMA FetchingLoads ==
    ASSUME pending \in Bag, asa.status = "Fetching", NEW p \in Bag, Fewer(pending, p), NEW on,
           LoadClipboard(on, p) \/ GenerateAppActivation(on, p)
    PROVE  pending' \in Bag /\ Fewer(pending, pending') /\ asa' = asa
  <1>1. /\ AsaStarted(on) = asa /\ AsaTasks(on) = {}
        /\ CaidTasks \cap AsaTask = {} /\ {"agent"} \cap AsaTask = {} /\ {"read"} \cap AsaTask = {}
        /\ {} \cap AsaTask = {}
    BY FetchingStarts DEF AsaTask
  <1>2. \A q \in Bag : \A T : Fewer(pending, q) /\ T \cap AsaTask = {} =>
           Plus(q, T) \in Bag /\ Fewer(pending, Plus(q, T))
    BY FewerPlus, FewerTransitive
  <1> DEFINE Fine(q) == q \in Bag /\ Fewer(pending, q)
  <1>3. \A q, T : Fine(q) /\ T \cap AsaTask = {} => Fine(Plus(q, T))
    BY <1>2
  <1>4. Fine(p)
    OBVIOUS
  <1> HIDE DEF Fine
  <1>5. ASSUME NEW q, Fine(q), GenerateAppActivation(on, q)
        PROVE  Fine(pending') /\ asa' = asa
    <2>1. Fine(Plus(q, {})) /\ Fine(Plus(Plus(q, {}), {"agent"}))
      BY <1>1, <1>3, <1>5
    <2> QED  BY <1>1, <1>5, <2>1 DEF GenerateAppActivation
  <1>6. ASSUME LoadClipboard(on, p)
        PROVE  Fine(pending') /\ asa' = asa
    <2> DEFINE q == Plus(p, CaidTasks)
    <2>1. Fine(q) /\ Fine(Plus(q, {})) /\ Fine(Plus(q, {"read"}))
      BY <1>1, <1>3, <1>4
    <2> HIDE DEF q
    <2>2. \/ pending' = p /\ asa' = asa
          \/ pending' = q /\ asa' = asa
          \/ pending' = Plus(q, AsaTasks(on)) /\ asa' = AsaStarted(on)
          \/ pending' = Plus(q, {"read"}) /\ asa' = asa
          \/ GenerateAppActivation(on, q)
      BY <1>6 DEF LoadClipboard, fetcher, q
    <2> QED  BY <1>1, <1>4, <1>5, <2>1, <2>2
  <1>7. Fine(pending') /\ asa' = asa
    BY <1>4, <1>5, <1>6
  <1> QED  BY <1>7 DEF Fine

LEMMA FetchingAddsNone ==
    ASSUME pending \in Bag, asa \in AsaState, clipboard \in Content,
           asa.status = "Fetching", [Next]_vars, ~Asa
    PROVE  Adds(pending', asa')
  <1>1. Adds(pending, asa)
    BY BagNumbers DEF Adds, Fewer, AsaState
  <1>2. \A q \in Bag : Fewer(pending, q) => Adds(q, asa)
    BY DEF Adds, AsaState
  <1>3. ASSUME NEW T, T \cap AsaTask = {} PROVE Adds(Plus(pending, T), asa)
    BY <1>2, <1>3, FewerPlus
  <1>4. ASSUME NEW t \in Task, Underway(t)
        PROVE  Minus(pending, t) \in Bag /\ Fewer(pending, Minus(pending, t))
    BY <1>4, FewerMinus DEF Underway
  <1>5. CASE RunLoadClipboard \/ SetDataCollectionEnabled \/ PasteboardIsOther
    <2>1. PICK p \in {pending} \cup {Minus(pending, t) : t \in {u \in Task : Underway(u)}} :
             \E on : LoadClipboard(on, p) \/ GenerateAppActivation(on, p)
      BY <1>5, TaskNames DEF RunLoadClipboard, SetDataCollectionEnabled, PasteboardIsOther
    <2>2. p \in Bag /\ Fewer(pending, p)
      BY <1>1, <1>4 DEF Adds
    <2>3. pending' \in Bag /\ Fewer(pending, pending') /\ asa' = asa
      BY <2>1, <2>2, FetchingLoads
    <2> QED  BY <1>2, <2>3
  <1>6. ASSUME NEW t \in Task, Underway(t), NEW T, T \cap AsaTask = {},
               pending' = Minus(pending, t) \/ pending' = Plus(Minus(pending, t), T),
               asa' = asa \/ asa' = [asa EXCEPT !.listening = FALSE]
        PROVE  Adds(pending', asa')
    <2>1. Minus(pending, t) \in Bag /\ Fewer(pending, Minus(pending, t))
      BY <1>4, <1>6
    <2>2. /\ Plus(Minus(pending, t), T) \in Bag
          /\ Fewer(Minus(pending, t), Plus(Minus(pending, t), T))
      BY <1>6, <2>1, FewerPlus
    <2>3. pending' \in Bag /\ Fewer(pending, pending')
      BY <1>6, <2>1, <2>2, FewerTransitive
    <2>4. asa'.retriesLeft = asa.retriesLeft
      BY <1>6 DEF AsaState
    <2> QED  BY <1>2, <2>3, <2>4 DEF Adds
  <1>7. CASE \/ PasteboardIsDeepLink \/ UserAgentArrives \/ ClearPasteboard
             \/ RemoveInterceptor \/ ConfigManager
    <2>1. PICK t \in {"defer", "agent", "clear", "remove", "config"} :
             /\ Underway(t) /\ pending' = Minus(pending, t)
             /\ asa' = asa \/ asa' = [asa EXCEPT !.listening = FALSE]
      BY <1>7 DEF PasteboardIsDeepLink, UserAgentArrives, ClearPasteboard, RemoveInterceptor,
                  ConfigManager, fetcher
    <2>2. t \in Task /\ {} \cap AsaTask = {}
      BY TaskNames
    <2> QED  BY <1>6, <2>1, <2>2
  <1>8. CASE ReadPasteboard
    <2> DEFINE T == CASE clipboard = "gads"   -> {"defer", "clear"}
                      [] clipboard = "broken" -> {"clear"}
                      [] clipboard = "other"  -> {"activate"}
    <2>1. Underway("read") /\ asa' = asa /\ pending' = Plus(Minus(pending, "read"), T)
      BY <1>8 DEF ReadPasteboard, fetcher
    <2>2. T \cap AsaTask = {}
      BY DEF Content, AsaTask
    <2>3. "read" \in Task
      BY TaskNames
    <2> HIDE DEF T
    <2> QED  BY <1>6, <2>1, <2>2, <2>3
  <1>9. CASE HandleURL
    BY <1>3, <1>9, FetchingStarts DEF HandleURL
  <1>10. ASSUME NEW c \in SendStep, SendEventsOfChannel(c) PROVE Adds(pending', asa')
    <2>1. PICK B : asa' = AsaWillSend(B).asa /\ pending' = Plus(pending, AsaWillSend(B).tasks)
      BY <1>10 DEF SendEventsOfChannel
    <2>2. AsaWillSend(B).tasks \cap AsaTask = {}
      BY DEF AsaWillSend, AsaTask
    <2>3. AsaWillSend(B).asa.retriesLeft = asa.retriesLeft
      BY DEF AsaWillSend, AsaState
    <2>4. Adds(pending', asa)
      BY <1>3, <2>1, <2>2
    <2> QED  BY <2>1, <2>3, <2>4 DEF Adds
  <1>11. CASE DidSend
    <2>1. \/ asa' = asa /\ pending' = pending
          \/ asa' = [asa EXCEPT !.status = "Completed"] /\ pending' = Plus(pending, {"remove"})
      BY <1>11 DEF DidSend
    <2>2. Adds(pending', asa)
      BY <1>1, <1>3, <2>1, AsaTasksAre
    <2>3. asa'.retriesLeft = asa.retriesLeft
      BY <2>1 DEF AsaState
    <2> QED  BY <2>2, <2>3 DEF Adds
  <1>12. CASE CaidArrives \/ CaidTimeOut
    <2>1. PICK t \in {"block", "timer"} : Underway(t) /\ pending' = Minus(pending, t) /\ asa' = asa
      BY <1>12 DEF CaidArrives, CaidTimeOut, CaidStep
    <2>2. t \in Task /\ {} \cap AsaTask = {}
      BY TaskNames
    <2> QED  BY <1>6, <2>1, <2>2
  <1>13. CASE Crash
    <2>1. pending' = Launched /\ asa' = IdleAsa
      BY <1>13 DEF Crash
    <2>2. Launched \in Bag /\ \A t \in AsaTask : Launched[t] = 0
      BY AsaTasksAre DEF Launched, Bag, AsaTask
    <2>3. Fewer(pending, Launched)
      BY <2>2, BagNumbers DEF Fewer
    <2>4. IdleAsa.retriesLeft = 0 /\ asa.retriesLeft \in Nat
      BY DEF IdleAsa, AsaState
    <2> QED  BY <2>1, <2>2, <2>3, <2>4 DEF Adds
  <1>14. CASE UNCHANGED <<pending, asa>>
    BY <1>1, <1>14
  <1>15. ASSUME NEW n \in Name, PostEvent(n) PROVE UNCHANGED <<pending, asa>>
    BY <1>15 DEF PostEvent, fetcher
  <1>16. CASE \/ SetActivateWrote \/ SetActivateDefer \/ ReturnFromSend \/ NotReachable
              \/ SendAllChannelEvents \/ SendInstant \/ UploadFails \/ UNCHANGED vars
    BY <1>14, <1>16 DEF SetActivateWrote, SetActivateDefer, ReturnFromSend, NotReachable,
       SendAllChannelEvents, SendInstant, UploadFails, vars, fetcher
  <1> QED  BY <1>5, <1>7, <1>8, <1>9, <1>10, <1>11, <1>12, <1>13, <1>14, <1>15, <1>16
           DEF Next, Block, BlockStep

(* A fetch that holds the ACTIVATE event back uses up its attempts and        *)
(* time-outs and gets no new ones, for any number of retries, toggles, sends  *)
(* and ends of the process.                                                   *)
THEOREM FetchAdvances == Spec => [][AsaAdvances]_vars
  <1>1. Inv /\ [Next]_vars => [AsaAdvances]_vars
    <2> SUFFICES ASSUME Inv, [Next]_vars PROVE AsaAdvances
      OBVIOUS
    <2>1. pending \in Bag /\ asa \in AsaState /\ asa.retriesLeft \in Nat /\ clipboard \in Content
      BY DEF Inv, Fetches, AsaState, Device
    <2>2. CASE Asa
      <3>1. AsaWork' < AsaWork
        BY <2>1, <2>2, AsaWorks
      <3>2. Fetches'
        BY <2>2, AsaFetches DEF Inv
      <3>3. AsaWork \in Nat /\ AsaWork' \in Nat
        BY <2>1, <3>2, WorkType DEF AsaWork, Fetches, AsaState
      <3> QED  BY <3>1, <3>3 DEF AsaAdvances
    <2>3. CASE ~Asa
      <3>1. ASSUME asa.status = "Fetching" PROVE AsaWork' <= AsaWork
        <4>1. Adds(pending', asa')
          BY <2>1, <2>3, <3>1, FetchingAddsNone
        <4>2. Work(pending', asa'.retriesLeft) <= Work(pending, asa.retriesLeft)
          BY <2>1, <4>1, WorkMonotone DEF Adds
        <4> QED  BY <4>2 DEF AsaWork
      <3> QED  BY <2>3, <3>1 DEF AsaAdvances
    <2> QED  BY <2>2, <2>3
  <1> QED  BY <1>1, Invariant, PTL DEF Spec

=============================================================================
