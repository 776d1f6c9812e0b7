--------------------------- MODULE ABTestingProofs ---------------------------
(***************************************************************************)
(* What holds of ABTesting for any number of fetches, layers, users and    *)
(* experiments, any length of the day and of the cache's life, and any     *)
(* bounds: its types, that the file follows the memory, that an experiment *)
(* belongs to who asked for it, that what the app was told survives an end *)
(* of the process, and that a change is reported, and reported once.       *)
(***************************************************************************)
EXTENDS ABTesting, WellFoundedInduction, TLAPS

USE ABTestingAssumption

Snapshot == [by : Caller \cup {None}, snapshot : Experiments]

-----------------------------------------------------------------------------
(* Days and sequences *)

LEMMA DayMonotone ==
    ASSUME NEW a \in Nat, NEW b \in Nat, a <= b
    PROVE  DayOf(a) \in Nat /\ DayOf(a) <= DayOf(b)
  BY DEF DayOf

LEMMA Appended ==
    ASSUME NEW S, NEW s \in Seq(S), NEW x \in S
    PROVE  /\ Append(s, x) \in Seq(S)
           /\ Append(s, x) # <<>>
           /\ Len(Append(s, x)) = Len(s) + 1
           /\ Append(s, x)[Len(s) + 1] = x
           /\ \A i \in DOMAIN s : Append(s, x)[i] = s[i]
           /\ DOMAIN Append(s, x) = 1 .. Len(s) + 1
           /\ DOMAIN s = 1 .. Len(s)
  OBVIOUS

LEMMA Headed ==
    ASSUME NEW S, NEW s \in Seq(S), s # <<>>
    PROVE  /\ Head(s) \in S /\ Head(s) = s[1]
           /\ Tail(s) \in Seq(S)
           /\ Len(s) \in Nat \ {0}
           /\ Len(Tail(s)) = Len(s) - 1
           /\ DOMAIN Tail(s) = 1 .. Len(s) - 1
           /\ DOMAIN s = 1 .. Len(s)
           /\ \A i \in 1 .. Len(s) - 1 : Tail(s)[i] = s[i + 1]
  OBVIOUS

-----------------------------------------------------------------------------
(* Types *)

LEMMA IdleType == IdleFetch \in Fetch
  BY DEF IdleFetch, Fetch, Step, Experiment

LEMMA KeyType ==
    ASSUME TypeOK, NEW f \in Caller
    PROVE  KeyOf(f) \in Key
  BY DEF TypeOK, KeyOf, Key, Fetch

LEMMA StoreType ==
    ASSUME TypeOK, NEW f \in Caller, NEW k \in Key, NEW e \in Experiment \cup {NoExperiment},
           Store(f, k, e)
    PROVE  /\ memory' \in Experiments /\ file' \in Experiments
           /\ io' \in Seq(Snapshot)
           /\ [by |-> f, snapshot |-> memory'] \in Snapshot
           /\ \A j \in Key : memory'[j] = IF j = k THEN e ELSE memory[j]
  <1>1. memory' \in Experiments /\ file' \in Experiments
    BY DEF TypeOK, Store, Experiments
  <1>2. [by |-> f, snapshot |-> memory'] \in Snapshot
    BY <1>1 DEF Snapshot
  <1>3. io' \in Seq(Snapshot)
    BY <1>2 DEF TypeOK, Store, Snapshot
  <1>4. \A j \in Key : memory'[j] = IF j = k THEN e ELSE memory[j]
    BY DEF TypeOK, Store, Experiments
  <1> QED  BY <1>1, <1>2, <1>3, <1>4

LEMMA GoToType ==
    ASSUME TypeOK, NEW f \in Caller, NEW step \in Step, GoTo(f, step)
    PROVE  fetch' \in [Caller -> Fetch]
  BY DEF TypeOK, GoTo, Fetch

LEMMA ToldType ==
    ASSUME TypeOK, NEW f \in Caller, Over(f)
    PROVE  fetch' \in [Caller -> Fetch] /\ main' \in Caller \cup {None}
  BY IdleType DEF TypeOK, Over, Leaves

LEMMA EntryType ==
    ASSUME TypeOK, NEW f \in Caller, NEW c \in Content
    PROVE  NewEntry(f, c) \in Entry
  <1>1. Hit(KeyOf(f), c) \in {"none", "sent", "dropped"}
    BY DEF Hit
  <1>2. KeyOf(f) \in Key /\ [content |-> c, time |-> now] \in Experiment
    BY KeyType DEF TypeOK, Experiment
  <1> QED  BY <1>1, <1>2 DEF TypeOK, Entry, NewEntry

LEMMA TypeInit == Init => TypeOK
  BY IdleType DEF Init, TypeOK, Experiments

LEMMA TypeStep == TypeOK /\ [Next]_vars => TypeOK'
  <1> SUFFICES ASSUME TypeOK, [Next]_vars PROVE TypeOK'
    OBVIOUS
  <1> USE DEF disk, app, ghosts, counts
  <1>1. ASSUME NEW f \in Caller, FetchExperiment(f) PROVE TypeOK'
    <2>1. ASSUME NEW l \in Layer
          PROVE  [IdleFetch EXCEPT !.at = "find", !.layer = l, !.retries = Retries] \in Fetch
      BY IdleType DEF Fetch, Step
    <2>2. fetch' \in [Caller -> Fetch]
      BY <1>1, <2>1 DEF FetchExperiment, TypeOK
    <2> QED  BY <1>1, <2>2 DEF FetchExperiment, TypeOK
  <1>2. ASSUME NEW f \in Caller, Find(f) PROVE TypeOK'
    <2>1. fetch' \in [Caller -> Fetch] /\ main' \in Caller \cup {None}
      <3>1. CASE fetch' = [fetch EXCEPT ![f].identity = user, ![f].at = "remove"] /\ UNCHANGED main
        BY <3>1 DEF TypeOK, Fetch, Step
      <3>2. CASE Over(f)
        BY <3>2, ToldType
      <3>3. CASE GoTo(f, "request") /\ UNCHANGED main
        BY <3>3, GoToType DEF TypeOK, Step
      <3> QED  BY <1>2, <3>1, <3>2, <3>3 DEF Find
    <2> QED  BY <1>2, <2>1 DEF Find, TypeOK
  <1>3. ASSUME NEW f \in Caller, RemoveExperiment(f) PROVE TypeOK'
    <2>1. fetch' \in [Caller -> Fetch]
      BY <1>3, GoToType DEF RemoveExperiment, Step
    <2>2. memory' \in Experiments /\ file' \in Experiments /\ io' \in Seq(Snapshot)
      <3>1. CASE Store(f, KeyOf(f), NoExperiment)
        BY <3>1, StoreType, KeyType
      <3>2. CASE UNCHANGED disk
        BY <3>2 DEF TypeOK, Snapshot
      <3> QED  BY <1>3, <3>1, <3>2 DEF RemoveExperiment
    <2>3. purged' \subseteq DOMAIN log'
      BY <1>3 DEF RemoveExperiment, SavedAnswers, TypeOK
    <2> QED  BY <1>3, <2>1, <2>2, <2>3 DEF RemoveExperiment, TypeOK, Snapshot
  <1>4. ASSUME NEW f \in Caller, Removed(f) PROVE TypeOK'
    <2>1. fetch' \in [Caller -> Fetch]
      BY <1>4, GoToType DEF Removed, Step
    <2> QED  BY <1>4, <2>1 DEF Removed, TypeOK
  <1>5. ASSUME NEW f \in Caller, RequestExperiment(f) PROVE TypeOK'
    <2>1. fetch' \in [Caller -> Fetch] /\ main' \in Caller \cup {None}
      <3>1. CASE Over(f)
        BY <3>1, ToldType
      <3>2. CASE fetch' = [fetch EXCEPT ![f].identity = user, ![f].at = "sent"] /\ Leaves(f)
        BY <3>2 DEF TypeOK, Fetch, Step, Leaves
      <3> QED  BY <1>5, <3>1, <3>2 DEF RequestExperiment
    <2> QED  BY <1>5, <2>1 DEF RequestExperiment, TypeOK
  <1>6. ASSUME NEW f \in Caller, HttpFailure(f) PROVE TypeOK'
    <2>1. fetch' \in [Caller -> Fetch] /\ main' \in Caller \cup {None}
      <3>1. CASE fetch[f].retries > 0
        <4> DEFINE again == [fetch[f] EXCEPT !.at = "find", !.retries = fetch[f].retries - 1]
        <4>0. fetch[f] \in Fetch /\ fetch[f].retries - 1 \in Nat
          BY <3>1 DEF TypeOK, Fetch
        <4>1. again \in Fetch
          BY <4>0 DEF Fetch, Step
        <4>2. fetch' = [fetch EXCEPT ![f] = again] /\ main' = f
          BY <1>6, <3>1 DEF HttpFailure, TypeOK
        <4> HIDE DEF again
        <4> QED  BY <4>1, <4>2 DEF TypeOK
      <3>2. CASE ~(fetch[f].retries > 0)
        BY <1>6, <3>2, ToldType DEF HttpFailure
      <3> QED  BY <3>1, <3>2
    <2> QED  BY <1>6, <2>1 DEF HttpFailure, TypeOK
  <1>7. ASSUME NEW f \in Caller, Refused(f) PROVE TypeOK'
    <2>1. fetch' \in [Caller -> Fetch] /\ main' \in Caller \cup {None}
      BY <1>7, ToldType DEF Refused
    <2> QED  BY <1>7, <2>1 DEF Refused, TypeOK
  <1>8. ASSUME NEW f \in Caller, NEW c \in Content, Answer(f, c) PROVE TypeOK'
    <2>1. log' \in Seq(Entry)
      BY <1>8, EntryType DEF TypeOK, Answer
    <2> DEFINE got == [content |-> c, time |-> now]
               saves == [fetch[f] EXCEPT !.got = got, !.entry = Len(log) + 1, !.at = "save"]
    <2>2. Len(log) + 1 \in Nat /\ got \in Experiment
      BY DEF TypeOK, Experiment
    <2>3. fetch' = [fetch EXCEPT ![f] = saves]
      BY <1>8 DEF Answer, TypeOK
    <2> HIDE DEF got
    <2>4. saves \in Fetch
      BY <2>2 DEF TypeOK, Fetch, Step
    <2> HIDE DEF saves
    <2>5. fetch' \in [Caller -> Fetch]
      BY <2>3, <2>4 DEF TypeOK
    <2>6. DOMAIN log \subseteq DOMAIN log'
      BY <1>8, EntryType, Appended DEF Answer, TypeOK
    <2>7. purged' \subseteq DOMAIN log'
      BY <1>8, <2>6 DEF Answer, TypeOK
    <2> QED  BY <1>8, <2>1, <2>5, <2>7 DEF Answer, TypeOK
  <1>9. ASSUME NEW f \in Caller, SaveToDisk(f) PROVE TypeOK'
    <2>1. fetch' \in [Caller -> Fetch]
      BY <1>9, GoToType DEF SaveToDisk, Step
    <2>2. memory' \in Experiments /\ file' \in Experiments /\ io' \in Seq(Snapshot)
      BY <1>9, StoreType, KeyType DEF SaveToDisk, TypeOK, Fetch
    <2> QED  BY <1>9, <2>1, <2>2 DEF SaveToDisk, TypeOK, Snapshot
  <1>10. ASSUME NEW f \in Caller, Complete(f) PROVE TypeOK'
    <2>1. fetch' \in [Caller -> Fetch] /\ main' \in Caller \cup {None}
      BY <1>10, ToldType DEF Complete
    <2>2. log' \in Seq(Entry)
      <3>1. log \in [1 .. Len(log) -> Entry] /\ Len(log) \in Nat
        BY DEF TypeOK
      <3>2. ASSUME NEW i \in 1 .. Len(log) PROVE [log[i] EXCEPT !.told = TRUE] \in Entry
        BY <3>1 DEF Entry
      <3>3. log' \in [1 .. Len(log) -> Entry]
        BY <1>10, <3>1, <3>2 DEF Complete
      <3> QED  BY <3>1, <3>3
    <2>3. purged' \subseteq DOMAIN log'
      BY <1>10 DEF Complete, TypeOK
    <2> QED  BY <1>10, <2>1, <2>2, <2>3 DEF Complete, TypeOK
  <1>11. CASE WriteFile
    <2>1. Head(io) \in Snapshot /\ Tail(io) \in Seq(Snapshot)
      BY <1>11, Headed DEF WriteFile, TypeOK, Snapshot
    <2> QED  BY <1>11, <2>1 DEF WriteFile, TypeOK, Snapshot
  <1>12. CASE SetLoginUserId \/ SetDataCollectionEnabled \/ Tick
    <2>1. CASE SetLoginUserId
      BY <2>1 DEF SetLoginUserId, TypeOK
    <2>2. CASE SetDataCollectionEnabled
      <3>1. enabled' \in BOOLEAN
        BY <2>2 DEF SetDataCollectionEnabled
      <3>2. changes' \in Nat
        BY <2>2 DEF SetDataCollectionEnabled, TypeOK
      <3> QED  BY <2>2, <3>1, <3>2 DEF SetDataCollectionEnabled, TypeOK
    <2>3. CASE Tick
      BY <2>3 DEF Tick, TypeOK
    <2> QED  BY <1>12, <2>1, <2>2, <2>3
  <1>13. CASE Crash
    <2>1. Loaded \in Experiments
      BY DEF Loaded, Experiments, TypeOK
    <2>2. io' \in Seq(Snapshot)
      <3>1. [by |-> None, snapshot |-> Loaded] \in Snapshot
        BY <2>1 DEF Snapshot
      <3>2. <<>> \in Seq(Snapshot) /\ <<[by |-> None, snapshot |-> Loaded]>> \in Seq(Snapshot)
        BY <3>1
      <3> QED  BY <1>13, <3>2 DEF Crash
    <2>3. fetch' \in [Caller -> Fetch]
      BY <1>13, IdleType DEF Crash
    <2> QED  BY <1>13, <2>1, <2>2, <2>3 DEF Crash, TypeOK, Snapshot
  <1>14. CASE UNCHANGED vars
    BY <1>14 DEF vars, TypeOK
  <1> QED
    BY <1>1, <1>2, <1>3, <1>4, <1>5, <1>6, <1>7, <1>8, <1>9, <1>10, <1>11, <1>12, <1>13, <1>14
    DEF Next, OfFetch

(***************************************************************************)
(* Every reachable state is well typed, for all constants.                 *)
(***************************************************************************)
THEOREM TypeCorrect == Spec => []TypeOK
  BY TypeInit, TypeStep, PTL DEF Spec

-----------------------------------------------------------------------------
(* The file follows the memory *)

LEMMA StoreFollows ==
    ASSUME TypeOK, NEW f \in Caller, NEW k \in Key, NEW e \in Experiment \cup {NoExperiment},
           Store(f, k, e)
    PROVE  FileFollowsMemory'
  <1>1. [by |-> f, snapshot |-> memory'] \in Snapshot /\ io \in Seq(Snapshot)
    BY StoreType DEF TypeOK, Snapshot
  <1>2. io' = Append(io, [by |-> f, snapshot |-> memory'])
    BY DEF Store
  <1>3. io' # <<>> /\ io'[Len(io')] = [by |-> f, snapshot |-> memory']
    BY <1>1, <1>2, Appended
  <1> QED  BY <1>3 DEF FileFollowsMemory

LEMMA FollowsStep == TypeOK /\ FileFollowsMemory /\ [Next]_vars => FileFollowsMemory'
  <1> SUFFICES ASSUME TypeOK, FileFollowsMemory, [Next]_vars PROVE FileFollowsMemory'
    OBVIOUS
  <1>1. CASE UNCHANGED disk
    BY <1>1 DEF FileFollowsMemory, disk
  <1>2. ASSUME NEW f \in Caller, RemoveExperiment(f) PROVE FileFollowsMemory'
    BY <1>1, <1>2, StoreFollows, KeyType DEF RemoveExperiment
  <1>3. ASSUME NEW f \in Caller, SaveToDisk(f) PROVE FileFollowsMemory'
    BY <1>3, StoreFollows, KeyType DEF SaveToDisk, TypeOK, Fetch
  <1>4. CASE WriteFile
    <2>1. io # <<>> /\ io[Len(io)].snapshot = memory /\ io' = Tail(io)
             /\ file' = io[1].snapshot /\ memory' = memory
      BY <1>4, Headed DEF WriteFile, FileFollowsMemory, TypeOK
    <2>2. Len(io) \in Nat \ {0} /\ Len(io') = Len(io) - 1 /\ io' \in Seq(Snapshot)
             /\ \A j \in 1 .. Len(io) - 1 : io'[j] = io[j + 1]
      BY <2>1, Headed DEF TypeOK, Snapshot
    <2>3. CASE Len(io) = 1
      <3>1. io' = <<>>
        BY <2>2, <2>3
      <3> QED  BY <2>1, <2>3, <3>1 DEF FileFollowsMemory
    <2>4. CASE Len(io) > 1
      <3>1. io' # <<>> /\ io'[Len(io')] = io[Len(io)]
        BY <2>2, <2>4
      <3> QED  BY <2>1, <3>1 DEF FileFollowsMemory
    <2> QED  BY <2>2, <2>3, <2>4
  <1>5. CASE Crash
    <2>1. CASE Loaded = file
      BY <1>5, <2>1 DEF Crash, FileFollowsMemory
    <2>2. CASE Loaded # file
      <3>1. io' = <<[by |-> None, snapshot |-> Loaded]>> /\ memory' = Loaded
        BY <1>5, <2>2 DEF Crash
      <3> QED  BY <3>1 DEF FileFollowsMemory
    <2> QED  BY <2>1, <2>2
  <1> QED
    BY <1>1, <1>2, <1>3, <1>4, <1>5
    DEF Next, OfFetch, FetchExperiment, Find, Removed, RequestExperiment,
        HttpFailure, Refused, Answer, Complete, SetLoginUserId, SetDataCollectionEnabled, Tick, vars

(***************************************************************************)
(* For all constants: whatever the order in which threads save and remove, *)
(* the last snapshot queued, or the file when none is, is what the memory  *)
(* holds.                                                                  *)
(***************************************************************************)
THEOREM Follows == Spec => []FileFollowsMemory
  <1>1. Init => FileFollowsMemory
    BY DEF Init, FileFollowsMemory
  <1> QED  BY <1>1, FollowsStep, TypeCorrect, PTL DEF Spec

-----------------------------------------------------------------------------
(* Whose experiments the storage holds *)

(* The entries of l are those of l2 with the same number. *)
Grows(l, l2) ==
    /\ Len(l) <= Len(l2)
    /\ \A i \in 1 .. Len(l) : l2[i].key = l[i].key /\ l2[i].got = l[i].got

(* Every experiment in m was answered to a request for its key. *)
Answered(m, l) ==
    \A k \in Key : m[k] # NoExperiment =>
        \E i \in 1 .. Len(l) : l[i].key = k /\ l[i].got = m[k]

(* A fetch that saves is on the main thread and saves the last answer. *)
Saving(f) == fetch[f].at \in {"save", "saving"}

SavesLast ==
    \A f \in Caller : Saving(f) =>
        /\ main = f /\ log # <<>>
        /\ fetch[f].entry = Len(log)
        /\ log[Len(log)].key = KeyOf(f) /\ log[Len(log)].got = fetch[f].got

OwnInv ==
    /\ TypeOK /\ SavesLast
    /\ Answered(memory, log) /\ Answered(file, log)
    /\ \A p \in 1 .. Len(io) : Answered(io[p].snapshot, log)

LEMMA AnsweredGrows ==
    ASSUME NEW m, NEW l, NEW l2, Grows(l, l2), Len(l) \in Nat, Len(l2) \in Nat, Answered(m, l)
    PROVE  Answered(m, l2)
  BY DEF Answered, Grows

LEMMA LogGrows == TypeOK /\ [Next]_vars => Grows(log, log')
  <1> SUFFICES ASSUME TypeOK, [Next]_vars PROVE Grows(log, log')
    OBVIOUS
  <1>1. CASE UNCHANGED log
    BY <1>1 DEF Grows, TypeOK
  <1>2. ASSUME NEW f \in Caller, NEW c \in Content, Answer(f, c) PROVE Grows(log, log')
    <2>1. log' = Append(log, NewEntry(f, c)) /\ log \in Seq(Entry) /\ NewEntry(f, c) \in Entry
      BY <1>2, EntryType DEF Answer, TypeOK
    <2> QED  BY <2>1, Appended DEF Grows
  <1>3. ASSUME NEW f \in Caller, Complete(f) PROVE Grows(log, log')
    <2>1. log' = [log EXCEPT ![fetch[f].entry].told = TRUE] /\ log \in Seq(Entry)
      BY <1>3 DEF Complete, TypeOK
    <2>2. Len(log') = Len(log) /\ Len(log) \in Nat
      BY <2>1
    <2>3. ASSUME NEW i \in 1 .. Len(log)
          PROVE  log'[i].key = log[i].key /\ log'[i].got = log[i].got
      <3>1. log[i] \in Entry
        BY <2>1
      <3>2. CASE i = fetch[f].entry
        <4>1. i \in DOMAIN log
          BY <2>1
        <4>2. log'[i] = [log[i] EXCEPT !.told = TRUE]
          BY <2>1, <3>2, <4>1
        <4> QED  BY <3>1, <4>2 DEF Entry
      <3>3. CASE i # fetch[f].entry
        BY <2>1, <3>3
      <3> QED  BY <3>2, <3>3
    <2> QED  BY <2>2, <2>3 DEF Grows
  <1> QED
    BY <1>1, <1>2, <1>3
    DEF Next, OfFetch, FetchExperiment, Find, RemoveExperiment, Removed,
        RequestExperiment, HttpFailure, Refused, SaveToDisk, SetLoginUserId,
        SetDataCollectionEnabled, Tick, WriteFile, Crash, vars, ghosts

(* What f does leaves the other fetches alone. *)
LEMMA Others ==
    ASSUME TypeOK, NEW f \in Caller, NEW g \in Caller, g # f,
           FetchExperiment(f) \/ OfFetch(f)
    PROVE  fetch'[g] = fetch[g]
  BY DEF TypeOK, FetchExperiment, OfFetch, Find, RemoveExperiment, Removed, RequestExperiment,
         HttpFailure, Refused, Answer, SaveToDisk, Complete, GoTo, Over

(* Nobody saves while f is on the main thread and does not. *)
LEMMA NobodySaves ==
    ASSUME SavesLast, NEW g \in Caller, main # g
    PROVE  ~Saving(g)
  BY DEF SavesLast

LEMMA SavesLastStep == TypeOK /\ SavesLast /\ [Next]_vars => SavesLast'
  <1> SUFFICES ASSUME TypeOK, SavesLast, [Next]_vars, NEW g \in Caller, Saving(g)'
               PROVE  /\ main' = g /\ log' # <<>>
                      /\ fetch'[g].entry = Len(log')
                      /\ log'[Len(log')].key = KeyOf(g)' /\ log'[Len(log')].got = fetch'[g].got
    BY DEF SavesLast
  <1>1. CASE fetch'[g] = fetch[g] /\ UNCHANGED <<main, log>>
    <2>1. Saving(g) /\ KeyOf(g)' = KeyOf(g)
      BY <1>1 DEF Saving, KeyOf
    <2> QED  BY <1>1, <2>1 DEF SavesLast
  <1>2. ASSUME NEW f \in Caller, f # g, FetchExperiment(f) \/ OfFetch(f)
        PROVE  fetch'[g] = fetch[g] /\ UNCHANGED <<main, log>>
    <2>1. fetch'[g] = fetch[g] /\ Saving(g)
      BY <1>2, Others DEF Saving
    <2>2. main = g /\ g # None
      BY <2>1 DEF SavesLast
    <2>3. UNCHANGED main
      BY <1>2, <2>2
      DEF FetchExperiment, OfFetch, Find, RemoveExperiment, Removed, RequestExperiment,
          HttpFailure, Refused, Answer, SaveToDisk, Complete, Over, Leaves
    <2>4. UNCHANGED log
      <3>1. ~Saving(f)
        BY <1>2, <2>2, NobodySaves
      <3> QED
        BY <1>2, <2>2, <3>1
        DEF FetchExperiment, OfFetch, Find, RemoveExperiment, Removed, RequestExperiment,
            HttpFailure, Refused, Answer, SaveToDisk, Complete, ghosts, Saving, At
    <2> QED  BY <2>1, <2>3, <2>4
  <1>3. ASSUME FetchExperiment(g) \/ Find(g) \/ RemoveExperiment(g) \/ Removed(g)
               \/ RequestExperiment(g) \/ HttpFailure(g) \/ Refused(g) \/ Complete(g)
        PROVE  FALSE
    <2>1. CASE FetchExperiment(g)
      BY <2>1 DEF FetchExperiment, IdleFetch, TypeOK, Saving
    <2>2. CASE Find(g)
      BY <2>2 DEF Find, Over, GoTo, IdleFetch, TypeOK, Fetch, Saving
    <2>3. CASE RemoveExperiment(g) \/ Removed(g)
      BY <2>3 DEF RemoveExperiment, Removed, GoTo, TypeOK, Fetch, Saving
    <2>4. CASE RequestExperiment(g)
      BY <2>4 DEF RequestExperiment, Over, GoTo, IdleFetch, TypeOK, Fetch, Saving
    <2>5. CASE HttpFailure(g)
      BY <2>5 DEF HttpFailure, Over, IdleFetch, TypeOK, Fetch, Saving
    <2>6. CASE Refused(g) \/ Complete(g)
      BY <2>6 DEF Refused, Complete, Over, IdleFetch, TypeOK, Saving
    <2> QED  BY <1>3, <2>1, <2>2, <2>3, <2>4, <2>5, <2>6
  <1>4. ASSUME NEW c \in Content, Answer(g, c)
        PROVE  /\ main' = g /\ log' # <<>>
               /\ fetch'[g].entry = Len(log')
               /\ log'[Len(log')].key = KeyOf(g)' /\ log'[Len(log')].got = fetch'[g].got
    <2>1. log' = Append(log, NewEntry(g, c)) /\ log \in Seq(Entry) /\ NewEntry(g, c) \in Entry
      BY <1>4, EntryType DEF Answer, TypeOK
    <2>2. log' # <<>> /\ Len(log') = Len(log) + 1 /\ log'[Len(log')] = NewEntry(g, c)
      BY <2>1, Appended
    <2>3. fetch'[g] = [fetch[g] EXCEPT !.got = [content |-> c, time |-> now],
                                       !.entry = Len(log) + 1, !.at = "save"]
      BY <1>4 DEF Answer, TypeOK
    <2>4. /\ fetch'[g].got = [content |-> c, time |-> now] /\ fetch'[g].entry = Len(log) + 1
          /\ fetch'[g].layer = fetch[g].layer /\ fetch'[g].identity = fetch[g].identity
      BY <2>3 DEF TypeOK, Fetch
    <2> QED  BY <1>4, <2>2, <2>4 DEF Answer, NewEntry, KeyOf
  <1>5. ASSUME SaveToDisk(g)
        PROVE  /\ main' = g /\ log' # <<>>
               /\ fetch'[g].entry = Len(log')
               /\ log'[Len(log')].key = KeyOf(g)' /\ log'[Len(log')].got = fetch'[g].got
    <2>1. Saving(g) /\ UNCHANGED <<main, log>>
      BY <1>5 DEF SaveToDisk, Saving, At, ghosts
    <2>2. fetch'[g] = [fetch[g] EXCEPT !.at = "saving"]
      BY <1>5 DEF SaveToDisk, GoTo, TypeOK
    <2>3. /\ fetch'[g].got = fetch[g].got /\ fetch'[g].entry = fetch[g].entry
          /\ fetch'[g].layer = fetch[g].layer /\ fetch'[g].identity = fetch[g].identity
      BY <2>2 DEF TypeOK, Fetch
    <2> QED  BY <2>1, <2>3 DEF SavesLast, KeyOf
  <1>6. CASE WriteFile \/ SetLoginUserId \/ SetDataCollectionEnabled \/ Tick \/ UNCHANGED vars
    BY <1>1, <1>6
    DEF WriteFile, SetLoginUserId, SetDataCollectionEnabled, Tick, vars, ghosts
  <1>7. CASE Crash
    BY <1>7 DEF Crash, Saving, IdleFetch
  <1> QED
    BY <1>1, <1>2, <1>3, <1>4, <1>5, <1>6, <1>7 DEF Next, OfFetch

LEMMA StoreSnapshots ==
    ASSUME TypeOK, NEW f \in Caller, NEW k \in Key, NEW e \in Experiment \cup {NoExperiment},
           Store(f, k, e)
    PROVE  /\ Len(io') = Len(io) + 1 /\ Len(io) \in Nat
           /\ io'[Len(io) + 1] = [by |-> f, snapshot |-> memory']
           /\ \A p \in 1 .. Len(io) : io'[p] = io[p]
  <1>1. io' = Append(io, [by |-> f, snapshot |-> memory']) /\ io \in Seq(Snapshot)
           /\ [by |-> f, snapshot |-> memory'] \in Snapshot
    BY StoreType DEF Store, TypeOK, Snapshot
  <1> QED  BY <1>1, Appended

LEMMA WriteFileSnapshots ==
    ASSUME TypeOK, WriteFile
    PROVE  /\ Len(io) \in Nat \ {0} /\ Len(io') = Len(io) - 1
           /\ file' = io[1].snapshot /\ memory' = memory
           /\ \A p \in 1 .. Len(io) - 1 : io'[p] = io[p + 1]
  <1>1. io # <<>> /\ io' = Tail(io) /\ io \in Seq(Snapshot) /\ file' = Head(io).snapshot
           /\ memory' = memory
    BY DEF WriteFile, TypeOK, Snapshot
  <1> QED  BY <1>1, Headed

LEMMA CrashSnapshots ==
    ASSUME TypeOK, Crash
    PROVE  /\ memory' = Loaded /\ file' = file
           /\ \A p \in 1 .. Len(io') : io'[p].snapshot = Loaded
  <1>1. CASE Loaded = file
    BY <1>1 DEF Crash
  <1>2. CASE Loaded # file
    <2>1. io' = <<[by |-> None, snapshot |-> Loaded]>>
      BY <1>2 DEF Crash
    <2> QED  BY <2>1 DEF Crash
  <1> QED  BY <1>1, <1>2

LEMMA OwnStep == OwnInv /\ [Next]_vars => OwnInv'
  <1> SUFFICES ASSUME OwnInv, [Next]_vars PROVE OwnInv'
    OBVIOUS
  <1> USE DEF OwnInv
  <1>1. TypeOK' /\ SavesLast' /\ Grows(log, log') /\ Len(log) \in Nat /\ Len(log') \in Nat
    <2>1. TypeOK' /\ SavesLast' /\ Grows(log, log')
      BY TypeStep, SavesLastStep, LogGrows
    <2> QED  BY <2>1 DEF TypeOK
  <1>2. \A m : Answered(m, log) => Answered(m, log')
    BY <1>1, AnsweredGrows
  <1>3. CASE UNCHANGED disk
    BY <1>1, <1>2, <1>3 DEF disk
  <1>4. ASSUME NEW f \in Caller, RemoveExperiment(f), ~UNCHANGED disk PROVE OwnInv'
    <2>1. Store(f, KeyOf(f), NoExperiment) /\ KeyOf(f) \in Key
      BY <1>4, KeyType DEF RemoveExperiment
    <2>2. \A j \in Key : memory'[j] = IF j = KeyOf(f) THEN NoExperiment ELSE memory[j]
      BY <2>1, StoreType
    <2>3. Answered(memory', log')
      BY <1>2, <2>2 DEF Answered
    <2>4. \A p \in 1 .. Len(io') : Answered(io'[p].snapshot, log')
      <3>1. /\ Len(io') = Len(io) + 1 /\ Len(io) \in Nat
            /\ io'[Len(io) + 1] = [by |-> f, snapshot |-> memory']
            /\ \A p \in 1 .. Len(io) : io'[p] = io[p]
        BY <2>1, StoreSnapshots
      <3> QED  BY <1>2, <2>3, <3>1
    <2> QED  BY <1>1, <1>2, <2>1, <2>3, <2>4 DEF Store
  <1>5. ASSUME NEW f \in Caller, SaveToDisk(f) PROVE OwnInv'
    <2>1. /\ Store(f, KeyOf(f), fetch[f].got) /\ KeyOf(f) \in Key /\ log' = log
          /\ fetch[f].got \in Experiment \cup {NoExperiment}
      BY <1>5, KeyType DEF SaveToDisk, TypeOK, Fetch, ghosts
    <2>2. \A j \in Key : memory'[j] = IF j = KeyOf(f) THEN fetch[f].got ELSE memory[j]
      BY <2>1, StoreType
    <2>3. Len(log) \in 1 .. Len(log) /\ log[Len(log)].key = KeyOf(f)
             /\ log[Len(log)].got = fetch[f].got
      <3>1. Saving(f)
        BY <1>5 DEF SaveToDisk, At, Saving
      <3>2. log # <<>> /\ log[Len(log)].key = KeyOf(f) /\ log[Len(log)].got = fetch[f].got
        BY <3>1 DEF SavesLast
      <3>3. Len(log) \in 1 .. Len(log)
        BY <3>2 DEF TypeOK
      <3> QED  BY <3>2, <3>3
    <2>4. Answered(memory', log')
      BY <2>1, <2>2, <2>3 DEF Answered
    <2>5. \A p \in 1 .. Len(io') : Answered(io'[p].snapshot, log')
      <3>1. /\ Len(io') = Len(io) + 1 /\ Len(io) \in Nat
            /\ io'[Len(io) + 1] = [by |-> f, snapshot |-> memory']
            /\ \A p \in 1 .. Len(io) : io'[p] = io[p]
        BY <2>1, StoreSnapshots
      <3> QED  BY <1>2, <2>4, <3>1
    <2> QED  BY <1>1, <1>2, <2>1, <2>4, <2>5 DEF Store
  <1>6. CASE WriteFile
    BY <1>1, <1>2, <1>6, WriteFileSnapshots
  <1>7. CASE Crash
    <2>1. Answered(Loaded, log')
      BY <1>2 DEF Answered, Loaded
    <2> QED  BY <1>1, <1>2, <1>7, <2>1, CrashSnapshots
  <1> QED
    BY <1>3, <1>4, <1>5, <1>6, <1>7
    DEF Next, OfFetch, FetchExperiment, Find, Removed, RequestExperiment,
        HttpFailure, Refused, Answer, Complete, SetLoginUserId, SetDataCollectionEnabled, Tick, vars

LEMMA OwnInit == Init => OwnInv
  <1> SUFFICES ASSUME Init PROVE OwnInv
    OBVIOUS
  <1>1. SavesLast
    BY DEF Init, SavesLast, Saving, IdleFetch
  <1>2. \A k \in Key : memory[k] = NoExperiment /\ file[k] = NoExperiment
    BY DEF Init
  <1> QED  BY <1>1, <1>2, TypeInit DEF Init, OwnInv, Answered

(***************************************************************************)
(* For all constants: what the storage keeps for an identity was answered  *)
(* to a request of that identity.                                          *)
(***************************************************************************)
THEOREM KeptForItsOwner == Spec => []OwnExperiment
  <1>1. OwnInv => OwnExperiment
    BY DEF OwnInv, OwnExperiment, Answered, Cached, TypeOK
  <1> QED  BY <1>1, OwnInit, OwnStep, PTL DEF Spec

-----------------------------------------------------------------------------
(* What the app was told survives *)

(* At time t, m holds entry i of l, or a later one, or need not hold any. *)
Holds(m, i, l, lost, t) ==
    \/ /\ m[l[i].key] = NoExperiment
       /\ DayOf(l[i].got.time) # DayOf(t) \/ i \in lost
    \/ \E j \in i .. Len(l) : l[j].key = l[i].key /\ m[l[i].key] = l[j].got

(* The answers of l came in the order of time, until t. *)
InTime(l, t) ==
    \A i \in 1 .. Len(l) :
        /\ l[i].got.time <= t
        /\ \A j \in i .. Len(l) : l[i].got.time <= l[j].got.time

Held(m, i) == Holds(m, i, log, purged, now)

HeldEverywhere(i) ==
    /\ Held(memory, i) /\ Held(file, i)
    /\ \A p \in 1 .. Len(io) : Held(io[p].snapshot, i)

(* What was told is held everywhere; what f is saving, from its snapshot on. *)
ToldHeld == \A i \in 1 .. Len(log) : log[i].told => HeldEverywhere(i)

(* The answer of a fetch that has yet to save it is the last one. *)
Settled(i) == i = Len(log) => \A g \in Caller : ~At(g, "save")

(* Nobody is told before the answer is saved. *)
Untold == \A g \in Caller : At(g, "save") => ~log[Len(log)].told

SavingHeld ==
    \A f \in Caller : At(f, "saving") =>
        /\ Held(memory, Len(log))
        /\ (\A q \in 1 .. Len(io) : io[q].by # f) => Held(file, Len(log))
        /\ \A p \in 1 .. Len(io) :
              (\A q \in p + 1 .. Len(io) : io[q].by # f) => Held(io[p].snapshot, Len(log))

DurableInv == TypeOK /\ SavesLast /\ Untold /\ InTime(log, now) /\ ToldHeld /\ SavingHeld

LEMMA EntryTime ==
    ASSUME NEW l \in Seq(Entry), NEW i \in 1 .. Len(l)
    PROVE  l[i].got.time \in Nat
  <1>1. l[i] \in Entry
    OBVIOUS
  <1>2. l[i].got \in Experiment
    BY <1>1 DEF Entry
  <1> QED  BY <1>2 DEF Experiment

LEMMA HoldsOn ==
    ASSUME NEW m, NEW l \in Seq(Entry), NEW l2 \in Seq(Entry), Grows(l, l2),
           NEW lost, NEW lost2, lost \subseteq lost2, NEW t \in Nat, NEW t2 \in Nat, t <= t2,
           NEW i \in 1 .. Len(l), l[i].got.time <= t, Holds(m, i, l, lost, t)
    PROVE  Holds(m, i, l2, lost2, t2)
  <1>1. l2[i].key = l[i].key /\ l2[i].got = l[i].got /\ Len(l) \in Nat /\ Len(l2) \in Nat
           /\ Len(l) <= Len(l2)
    BY DEF Grows
  <1>2. CASE m[l[i].key] = NoExperiment /\ DayOf(l[i].got.time) # DayOf(t)
    <2>1. l[i].got.time \in Nat
      BY EntryTime
    <2>2. DayOf(l[i].got.time) \in Nat /\ DayOf(l[i].got.time) <= DayOf(t)
      BY <2>1, DayMonotone
    <2>3. DayOf(t) \in Nat /\ DayOf(t2) \in Nat /\ DayOf(t) <= DayOf(t2)
      BY DayMonotone
    <2>4. DayOf(l[i].got.time) # DayOf(t2)
      BY <1>2, <2>2, <2>3
    <2> QED  BY <1>1, <1>2, <2>4 DEF Holds
  <1>3. CASE m[l[i].key] = NoExperiment /\ i \in lost
    BY <1>1, <1>3 DEF Holds
  <1>4. ASSUME NEW j \in i .. Len(l), l[j].key = l[i].key, m[l[i].key] = l[j].got
        PROVE  Holds(m, i, l2, lost2, t2)
    <2>1. j \in 1 .. Len(l) /\ j \in i .. Len(l2)
      BY <1>1
    <2>2. l2[j].key = l[j].key /\ l2[j].got = l[j].got
      BY <2>1 DEF Grows
    <2> QED  BY <1>1, <1>4, <2>1, <2>2 DEF Holds
  <1> QED  BY <1>2, <1>3, <1>4 DEF Holds

(* A map that drops only outdated experiments, or those that count as lost. *)
LEMMA HoldsWithout ==
    ASSUME NEW m, NEW m2, NEW l \in Seq(Entry), NEW lost, NEW lost2, lost \subseteq lost2,
           NEW t \in Nat, InTime(l, t),
           NEW i \in 1 .. Len(l), Holds(m, i, l, lost, t),
           LET k == l[i].key
           IN  \/ m2[k] = m[k]
               \/ m2[k] = NoExperiment /\ (DayOf(m[k].time) # DayOf(t) \/ i \in lost2)
    PROVE  Holds(m2, i, l, lost2, t)
  <1> DEFINE k == l[i].key
  <1>1. CASE m[k] = NoExperiment /\ (DayOf(l[i].got.time) # DayOf(t) \/ i \in lost)
    BY <1>1 DEF Holds
  <1>2. ASSUME NEW j \in i .. Len(l), l[j].key = k, m[k] = l[j].got
        PROVE  Holds(m2, i, l, lost2, t)
    <2>1. CASE m2[k] = m[k]
      BY <1>2, <2>1 DEF Holds
    <2>2. CASE m2[k] = NoExperiment /\ DayOf(m[k].time) # DayOf(t)
      <3>1. j \in 1 .. Len(l)
        OBVIOUS
      <3>2. l[j].got.time \in Nat /\ l[i].got.time \in Nat
        BY <3>1, EntryTime
      <3>3. l[i].got.time <= l[j].got.time /\ l[j].got.time <= t
        BY <3>1 DEF InTime
      <3>4. DayOf(l[i].got.time) \in Nat /\ DayOf(l[i].got.time) <= DayOf(l[j].got.time)
        BY <3>2, <3>3, DayMonotone
      <3>5. DayOf(l[j].got.time) \in Nat /\ DayOf(l[j].got.time) <= DayOf(t)
        BY <3>2, <3>3, DayMonotone
      <3>6. DayOf(t) \in Nat
        BY DayMonotone
      <3>7. DayOf(l[i].got.time) # DayOf(t)
        BY <1>2, <2>2, <3>4, <3>5, <3>6
      <3> QED  BY <2>2, <3>7 DEF Holds
    <2>3. CASE m2[k] = NoExperiment /\ i \in lost2
      BY <2>3 DEF Holds
    <2> QED  BY <2>1, <2>2, <2>3
  <1> QED  BY <1>1, <1>2 DEF Holds

LEMMA InTimeStep == TypeOK /\ InTime(log, now) /\ [Next]_vars => InTime(log', now') /\ now <= now'
  <1> SUFFICES ASSUME TypeOK, InTime(log, now), [Next]_vars
               PROVE  InTime(log', now') /\ now <= now'
    OBVIOUS
  <1>1. now \in Nat /\ now' \in Nat /\ now <= now'
    <2>1. now \in Nat /\ now' \in Nat
      <3>1. TypeOK'
        BY TypeStep
      <3> QED  BY <3>1 DEF TypeOK
    <2>2. CASE Tick
      BY <2>1, <2>2 DEF Tick
    <2>3. CASE now' = now
      BY <2>1, <2>3
    <2> QED
      BY <2>2, <2>3
      DEF Next, OfFetch, FetchExperiment, Find, RemoveExperiment, Removed,
          RequestExperiment, HttpFailure, Refused, Answer, SaveToDisk, Complete, SetLoginUserId,
          SetDataCollectionEnabled, WriteFile, Crash, vars, app
  <1>2. \A i \in 1 .. Len(log) : log[i].got.time \in Nat
    BY EntryTime DEF TypeOK
  <1>3. Grows(log, log') /\ Len(log) \in Nat /\ Len(log') \in Nat
    BY LogGrows, TypeStep DEF TypeOK
  <1>4. CASE Len(log') = Len(log)
    BY <1>1, <1>2, <1>3, <1>4 DEF InTime, Grows
  <1>5. ASSUME NEW f \in Caller, NEW c \in Content, Answer(f, c) PROVE InTime(log', now')
    <2>1. log' = Append(log, NewEntry(f, c)) /\ log \in Seq(Entry) /\ NewEntry(f, c) \in Entry
             /\ now' = now
      BY <1>5, EntryType DEF Answer, TypeOK, app
    <2>2. Len(log') = Len(log) + 1 /\ log'[Len(log) + 1].got.time = now
      BY <2>1, Appended DEF NewEntry
    <2>3. \A i \in 1 .. Len(log) : log'[i].got = log[i].got /\ log[i].got.time <= now
      BY <1>3 DEF Grows, InTime
    <2>4. ASSUME NEW i \in 1 .. Len(log'), NEW j \in i .. Len(log')
          PROVE  log'[i].got.time <= now' /\ log'[i].got.time <= log'[j].got.time
      <3>1. CASE j = Len(log) + 1
        BY <1>1, <1>2, <2>1, <2>2, <2>3, <3>1
      <3>2. CASE j # Len(log) + 1
        <4>1. i \in 1 .. Len(log) /\ j \in i .. Len(log) /\ j \in 1 .. Len(log)
          BY <1>3, <2>2, <3>2
        <4> QED  BY <2>1, <2>3, <4>1 DEF InTime
      <3> QED  BY <3>1, <3>2
    <2>5. \A i \in 1 .. Len(log') : i \in i .. Len(log')
      BY <1>3
    <2> QED  BY <2>4, <2>5 DEF InTime
  <1>6. ASSUME NEW f \in Caller, Complete(f) PROVE Len(log') = Len(log)
    BY <1>6 DEF Complete, TypeOK
  <1>7. CASE UNCHANGED log
    BY <1>4, <1>7
  <1> QED
    BY <1>1, <1>4, <1>5, <1>6, <1>7
    DEF Next, OfFetch, FetchExperiment, Find, RemoveExperiment, Removed,
        RequestExperiment, HttpFailure, Refused, SaveToDisk, SetLoginUserId,
        SetDataCollectionEnabled, Tick, WriteFile, Crash, vars, ghosts

LEMMA PurgedGrows == [Next]_vars => purged \subseteq purged'
  BY DEF Next, OfFetch, FetchExperiment, Find, RemoveExperiment, Removed,
         RequestExperiment, HttpFailure, Refused, Answer, SaveToDisk, Complete, SetLoginUserId,
         SetDataCollectionEnabled, Tick, WriteFile, Crash, vars, ghosts

LEMMA NewlyTold ==
    ASSUME TypeOK, SavesLast, [Next]_vars, NEW i \in 1 .. Len(log'), log'[i].told
    PROVE  /\ i \in 1 .. Len(log)
           /\ log[i].told \/ \E f \in Caller : Complete(f) /\ i = Len(log)
  <1>1. CASE UNCHANGED log
    BY <1>1
  <1>2. ASSUME NEW f \in Caller, NEW c \in Content, Answer(f, c)
        PROVE  i \in 1 .. Len(log) /\ log[i].told
    <2>1. log' = Append(log, NewEntry(f, c)) /\ log \in Seq(Entry) /\ NewEntry(f, c) \in Entry
      BY <1>2, EntryType DEF Answer, TypeOK
    <2>2. /\ Len(log') = Len(log) + 1 /\ log'[Len(log) + 1] = NewEntry(f, c) /\ Len(log) \in Nat
          /\ \A j \in 1 .. Len(log) : log'[j] = log[j]
      BY <2>1, Appended
    <2>3. ~NewEntry(f, c).told
      BY DEF NewEntry
    <2> QED  BY <2>2, <2>3
  <1>3. ASSUME NEW f \in Caller, Complete(f)
        PROVE  i \in 1 .. Len(log) /\ (log[i].told \/ i = Len(log))
    <2>1. log' = [log EXCEPT ![fetch[f].entry].told = TRUE] /\ Saving(f)
      BY <1>3 DEF Complete, At, Saving
    <2>2. fetch[f].entry = Len(log)
      BY <2>1 DEF SavesLast
    <2> QED  BY <2>1, <2>2 DEF TypeOK
  <1> QED
    BY <1>1, <1>2, <1>3
    DEF Next, OfFetch, FetchExperiment, Find, RemoveExperiment, Removed,
        RequestExperiment, HttpFailure, Refused, SaveToDisk, SetLoginUserId,
        SetDataCollectionEnabled, Tick, WriteFile, Crash, vars, ghosts

LEMMA NewlySaving ==
    ASSUME TypeOK, SavesLast, [Next]_vars, NEW f \in Caller, fetch'[f].at = "saving"
    PROVE  SaveToDisk(f) \/ (At(f, "saving") /\ Len(log') = Len(log) /\ ~Crash)
  <1>1. CASE SaveToDisk(f)
    BY <1>1
  <1>2. ASSUME FetchExperiment(f) \/ (OfFetch(f) /\ ~SaveToDisk(f)) PROVE FALSE
    <2>1. CASE FetchExperiment(f)
      BY <2>1 DEF FetchExperiment, IdleFetch, TypeOK
    <2>2. CASE Find(f)
      BY <2>2 DEF Find, Over, GoTo, IdleFetch, TypeOK, Fetch
    <2>3. CASE RemoveExperiment(f) \/ Removed(f)
      BY <2>3 DEF RemoveExperiment, Removed, GoTo, TypeOK, Fetch
    <2>4. CASE RequestExperiment(f)
      BY <2>4 DEF RequestExperiment, Over, GoTo, IdleFetch, TypeOK, Fetch
    <2>5. CASE HttpFailure(f)
      BY <2>5 DEF HttpFailure, Over, IdleFetch, TypeOK, Fetch
    <2>6. CASE Refused(f) \/ Complete(f)
      BY <2>6 DEF Refused, Complete, Over, IdleFetch, TypeOK
    <2>7. ASSUME NEW c \in Content, Answer(f, c) PROVE FALSE
      BY <2>7 DEF Answer, TypeOK, Fetch
    <2> QED
      BY <1>2, <2>1, <2>2, <2>3, <2>4, <2>5, <2>6, <2>7 DEF OfFetch
  <1>3. ASSUME NEW g \in Caller, g # f, FetchExperiment(g) \/ OfFetch(g)
        PROVE  At(f, "saving") /\ Len(log') = Len(log) /\ ~Crash
    <2>1. fetch'[f] = fetch[f]
      BY <1>3, Others
    <2>2. At(f, "saving") /\ Saving(f)
      BY <2>1 DEF At, Saving
    <2>3. main = f /\ ~Saving(g)
      BY <1>3, <2>2, NobodySaves DEF SavesLast
    <2>4. UNCHANGED log
      BY <1>3, <2>3
      DEF FetchExperiment, OfFetch, Find, RemoveExperiment, Removed, RequestExperiment,
          HttpFailure, Refused, Answer, SaveToDisk, Complete, ghosts, Saving, At
    <2>5. ~Crash
      BY <2>2 DEF Crash, IdleFetch
    <2> QED  BY <2>2, <2>4, <2>5
  <1>4. CASE WriteFile \/ SetLoginUserId \/ SetDataCollectionEnabled \/ Tick \/ UNCHANGED vars
    <2>1. UNCHANGED <<fetch, log>>
      BY <1>4 DEF WriteFile, SetLoginUserId, SetDataCollectionEnabled, Tick, vars, ghosts
    <2>2. ~Crash
      BY DEF Crash, IdleFetch
    <2> QED  BY <2>1, <2>2 DEF At
  <1>5. CASE Crash
    BY <1>5 DEF Crash, IdleFetch
  <1> QED  BY <1>1, <1>2, <1>3, <1>4, <1>5 DEF Next

(* What every step keeps of what a snapshot holds. *)
LEMMA CarriedOn ==
    ASSUME DurableInv, [Next]_vars, NEW m, NEW i \in 1 .. Len(log), Held(m, i)
    PROVE  Holds(m, i, log', purged', now')
  <1>1. log \in Seq(Entry) /\ log' \in Seq(Entry) /\ now \in Nat /\ now' \in Nat
    <2>1. TypeOK /\ TypeOK'
      BY TypeStep DEF DurableInv
    <2> QED  BY <2>1 DEF TypeOK
  <1>2. Grows(log, log') /\ now <= now'
    BY LogGrows, InTimeStep DEF DurableInv
  <1>3. purged \subseteq purged'
    BY PurgedGrows
  <1>4. log[i].got.time <= now
    BY DEF DurableInv, InTime
  <1> QED  BY <1>1, <1>2, <1>3, <1>4, HoldsOn DEF Held

(* The same of a map that loses only what is outdated or purged. *)
LEMMA CarriedWithout ==
    ASSUME DurableInv, [Next]_vars, NEW m, NEW m2, NEW i \in 1 .. Len(log), Held(m, i),
           LET k == log[i].key
           IN  \/ m2[k] = m[k]
               \/ m2[k] = NoExperiment /\ (DayOf(m[k].time) # DayOf(now) \/ i \in purged'),
           log' = log, now' = now
    PROVE  Holds(m2, i, log', purged', now')
  <1>1. log \in Seq(Entry) /\ now \in Nat /\ InTime(log, now)
    BY DEF DurableInv, TypeOK
  <1>2. purged \subseteq purged'
    BY PurgedGrows
  <1>3. Holds(m2, i, log, purged', now)
    BY <1>1, <1>2, HoldsWithout DEF Held
  <1> QED  BY <1>3

(* The steps that touch the storage. *)
LEMMA DiskSteps ==
    ASSUME [Next]_vars
    PROVE  \/ UNCHANGED disk
           \/ \E f \in Caller : RemoveExperiment(f) /\ Cached(KeyOf(f))
           \/ \E f \in Caller : SaveToDisk(f)
           \/ WriteFile
           \/ Crash
  BY DEF Next, OfFetch, FetchExperiment, Find, RemoveExperiment, Removed,
         RequestExperiment, HttpFailure, Refused, Answer, Complete, SetLoginUserId,
         SetDataCollectionEnabled, Tick, vars

(* An answer that is being saved replaces what counts as an earlier one. *)
LEMMA SavedEntry ==
    ASSUME DurableInv, NEW f \in Caller, SaveToDisk(f)
    PROVE  /\ Len(log) \in 1 .. Len(log) /\ UNCHANGED <<ghosts, now>>
           /\ \A k \in Key : memory'[k] = IF k = log[Len(log)].key THEN log[Len(log)].got ELSE memory[k]
           /\ Store(f, KeyOf(f), fetch[f].got)
  <1>1. Saving(f)
    BY DEF SaveToDisk, At, Saving
  <1>2. log # <<>> /\ log[Len(log)].key = KeyOf(f) /\ log[Len(log)].got = fetch[f].got
    BY <1>1 DEF DurableInv, SavesLast
  <1>3. Len(log) \in 1 .. Len(log)
    BY <1>2 DEF DurableInv, TypeOK
  <1>4. /\ Store(f, KeyOf(f), fetch[f].got) /\ KeyOf(f) \in Key
        /\ fetch[f].got \in Experiment \cup {NoExperiment}
    BY KeyType DEF SaveToDisk, DurableInv, TypeOK, Fetch
  <1>5. \A k \in Key : memory'[k] = IF k = KeyOf(f) THEN fetch[f].got ELSE memory[k]
    BY <1>4, StoreType DEF DurableInv
  <1> QED  BY <1>2, <1>3, <1>4, <1>5 DEF SaveToDisk, ghosts, app

LEMMA EntryKey ==
    ASSUME DurableInv, NEW i \in 1 .. Len(log)
    PROVE  log[i].key \in Key
  <1>1. log[i] \in Entry
    BY DEF DurableInv, TypeOK
  <1> QED  BY <1>1 DEF Entry

LEMMA SettledIsSaved ==
    ASSUME DurableInv, NEW i \in 1 .. Len(log), Settled(i)
    PROVE  i \in SavedAnswers(log[i].key)
  <1>1. i \in DOMAIN log
    BY DEF DurableInv, TypeOK
  <1>2. ASSUME NEW g \in Caller, At(g, "save"), fetch[g].entry = i PROVE FALSE
    <2>1. Saving(g)
      BY <1>2 DEF At, Saving
    <2>2. i = Len(log)
      BY <1>2, <2>1 DEF DurableInv, SavesLast
    <2> QED  BY <1>2, <2>2 DEF Settled
  <1> QED  BY <1>1, <1>2 DEF SavedAnswers

LEMMA MemoryStep ==
    ASSUME DurableInv, [Next]_vars, ~Crash, NEW i \in 1 .. Len(log), Held(memory, i), Settled(i)
    PROVE  Holds(memory', i, log', purged', now')
  <1>1. CASE memory' = memory
    BY <1>1, CarriedOn
  <1>2. ASSUME NEW f \in Caller, RemoveExperiment(f), Cached(KeyOf(f))
        PROVE  Holds(memory', i, log', purged', now')
    <2>1. Store(f, KeyOf(f), NoExperiment) /\ KeyOf(f) \in Key /\ log' = log /\ now' = now
      BY <1>2, KeyType DEF RemoveExperiment, app, DurableInv
    <2>2. memory'[log[i].key] = IF log[i].key = KeyOf(f) THEN NoExperiment ELSE memory[log[i].key]
      BY <2>1, StoreType, EntryKey DEF DurableInv
    <2>3. CASE log[i].key # KeyOf(f)
      BY <2>1, <2>2, <2>3, CarriedWithout
    <2>4. CASE log[i].key = KeyOf(f)
      <3>1. i \in SavedAnswers(KeyOf(f))
        BY <2>4, SettledIsSaved
      <3>2. IsOutdated(memory[log[i].key]) \/ i \in purged'
        BY <1>2, <2>4, <3>1 DEF RemoveExperiment
      <3>3. DayOf(memory[log[i].key].time) # DayOf(now) \/ i \in purged'
        BY <3>2 DEF IsOutdated, IsToday
      <3> QED  BY <2>1, <2>2, <2>4, <3>3, CarriedWithout
    <2> QED  BY <2>3, <2>4
  <1>3. ASSUME NEW f \in Caller, SaveToDisk(f)
        PROVE  Holds(memory', i, log', purged', now')
    <2>1. /\ Len(log) \in 1 .. Len(log) /\ UNCHANGED <<ghosts, now>>
          /\ \A k \in Key : memory'[k] = IF k = log[Len(log)].key THEN log[Len(log)].got ELSE memory[k]
      BY <1>3, SavedEntry
    <2>2. CASE log[i].key # log[Len(log)].key
      <3>1. memory'[log[i].key] = memory[log[i].key]
        BY <2>1, <2>2, EntryKey
      <3> QED  BY <2>1, <3>1, CarriedWithout DEF ghosts
    <2>3. CASE log[i].key = log[Len(log)].key
      <3>1. memory'[log[i].key] = log[Len(log)].got
        BY <2>1, <2>3, EntryKey
      <3>2. Len(log) \in i .. Len(log)
        BY <2>1
      <3> QED  BY <2>1, <2>3, <3>1, <3>2 DEF Holds, ghosts
    <2> QED  BY <2>2, <2>3
  <1>4. CASE UNCHANGED disk \/ WriteFile
    BY <1>1, <1>4 DEF disk, WriteFile
  <1> QED  BY <1>2, <1>3, <1>4, DiskSteps

LEMMA LoadedHolds ==
    ASSUME DurableInv, [Next]_vars, Crash, NEW i \in 1 .. Len(log), Held(file, i)
    PROVE  Holds(Loaded, i, log', purged', now')
  <1>1. log' = log /\ now' = now
    BY DEF Crash, ghosts, app
  <1>2. \/ Loaded[log[i].key] = file[log[i].key]
        \/ Loaded[log[i].key] = NoExperiment /\ DayOf(file[log[i].key].time) # DayOf(now)
    BY EntryKey DEF Loaded, IsOutdated, IsToday
  <1> QED  BY <1>1, <1>2, CarriedWithout

(* A new snapshot is the memory after the step. *)
LEMMA StoreAppends ==
    ASSUME DurableInv, NEW f \in Caller, (RemoveExperiment(f) /\ Cached(KeyOf(f))) \/ SaveToDisk(f)
    PROVE  /\ Len(io') = Len(io) + 1 /\ Len(io) \in Nat /\ file' = file
           /\ io'[Len(io) + 1] = [by |-> f, snapshot |-> memory']
           /\ \A p \in 1 .. Len(io) : io'[p] = io[p]
  <1>1. PICK e \in Experiment \cup {NoExperiment} : Store(f, KeyOf(f), e)
    BY DEF RemoveExperiment, SaveToDisk, DurableInv, TypeOK, Fetch
  <1>2. KeyOf(f) \in Key
    BY KeyType DEF DurableInv
  <1>3. file' = file
    BY <1>1 DEF Store
  <1> QED  BY <1>1, <1>2, <1>3, StoreSnapshots DEF DurableInv

LEMMA EverywhereStep ==
    ASSUME DurableInv, [Next]_vars, NEW i \in 1 .. Len(log), HeldEverywhere(i), Settled(i)
    PROVE  /\ Holds(memory', i, log', purged', now') /\ Holds(file', i, log', purged', now')
           /\ \A p \in 1 .. Len(io') : Holds(io'[p].snapshot, i, log', purged', now')
  <1> USE DEF HeldEverywhere
  <1>1. CASE UNCHANGED disk
    BY <1>1, CarriedOn DEF disk
  <1>2. ASSUME NEW f \in Caller, (RemoveExperiment(f) /\ Cached(KeyOf(f))) \/ SaveToDisk(f), ~Crash
        PROVE  /\ Holds(memory', i, log', purged', now') /\ Holds(file', i, log', purged', now')
               /\ \A p \in 1 .. Len(io') : Holds(io'[p].snapshot, i, log', purged', now')
    <2>1. Holds(memory', i, log', purged', now')
      BY <1>2, MemoryStep
    <2>2. /\ Len(io') = Len(io) + 1 /\ Len(io) \in Nat /\ file' = file
          /\ io'[Len(io) + 1] = [by |-> f, snapshot |-> memory']
          /\ \A p \in 1 .. Len(io) : io'[p] = io[p]
      BY <1>2, StoreAppends
    <2>3. Holds(file', i, log', purged', now')
      BY <2>2, CarriedOn
    <2>4. ASSUME NEW p \in 1 .. Len(io')
          PROVE  Holds(io'[p].snapshot, i, log', purged', now')
      <3>1. CASE p = Len(io) + 1
        BY <2>1, <2>2, <3>1
      <3>2. CASE p # Len(io) + 1
        <4>1. p \in 1 .. Len(io) /\ io'[p] = io[p]
          BY <2>2, <3>2
        <4> QED  BY <4>1, CarriedOn
      <3> QED  BY <3>1, <3>2
    <2> QED  BY <2>1, <2>3, <2>4
  <1>3. CASE WriteFile
    <2>1. /\ Len(io) \in Nat \ {0} /\ Len(io') = Len(io) - 1
          /\ file' = io[1].snapshot /\ memory' = memory
          /\ \A p \in 1 .. Len(io) - 1 : io'[p] = io[p + 1]
      BY <1>3, WriteFileSnapshots DEF DurableInv
    <2>2. Holds(file', i, log', purged', now')
      BY <2>1, CarriedOn
    <2>3. ASSUME NEW p \in 1 .. Len(io')
          PROVE  Holds(io'[p].snapshot, i, log', purged', now')
      <3>1. p + 1 \in 1 .. Len(io) /\ io'[p] = io[p + 1]
        BY <2>1
      <3> QED  BY <3>1, CarriedOn
    <2> QED  BY <2>1, <2>2, <2>3, CarriedOn
  <1>4. CASE Crash
    <2>1. /\ memory' = Loaded /\ file' = file
          /\ \A p \in 1 .. Len(io') : io'[p].snapshot = Loaded
      BY <1>4, CrashSnapshots DEF DurableInv
    <2>2. Holds(Loaded, i, log', purged', now')
      BY <1>4, LoadedHolds
    <2> QED  BY <2>1, <2>2, CarriedOn
  <1> QED  BY <1>1, <1>2, <1>3, <1>4, DiskSteps

(* There is room on the main thread for one fetch that saves. *)
LEMMA SavingIsSettled ==
    ASSUME SavesLast, NEW f \in Caller, At(f, "saving"), NEW i
    PROVE  Settled(i)
  <1>1. main = f
    BY DEF SavesLast, Saving, At
  <1>2. ASSUME NEW g \in Caller, At(g, "save") PROVE FALSE
    <2>1. main = g
      BY <1>2 DEF SavesLast, Saving, At
    <2> QED  BY <1>1, <1>2, <2>1 DEF At
  <1> QED  BY <1>2 DEF Settled

LEMMA UntoldStep == TypeOK /\ SavesLast /\ Untold /\ [Next]_vars => Untold'
  <1> SUFFICES ASSUME TypeOK, SavesLast, Untold, [Next]_vars, NEW g \in Caller,
                      fetch'[g].at = "save"
               PROVE  ~log'[Len(log')].told
    BY DEF Untold, At
  <1>1. CASE At(g, "save") /\ UNCHANGED log
    BY <1>1 DEF Untold
  <1>2. ASSUME NEW f \in Caller, NEW c \in Content, Answer(f, c)
        PROVE  ~log'[Len(log')].told
    <2>1. log' = Append(log, NewEntry(f, c)) /\ log \in Seq(Entry) /\ NewEntry(f, c) \in Entry
      BY <1>2, EntryType DEF Answer, TypeOK
    <2>2. log'[Len(log')] = NewEntry(f, c)
      BY <2>1, Appended
    <2> QED  BY <2>2 DEF NewEntry
  <1>3. ASSUME NEW f \in Caller, Complete(f) PROVE FALSE
    <2>1. main = f /\ At(f, "saving")
      BY <1>3 DEF Complete, SavesLast, Saving, At
    <2>2. CASE g = f
      BY <1>3, <2>2 DEF Complete, Over, IdleFetch, TypeOK
    <2>3. CASE g # f
      <3>1. fetch'[g] = fetch[g]
        BY <1>3, <2>3, Others DEF OfFetch
      <3>2. main = g
        BY <3>1 DEF SavesLast, Saving
      <3> QED  BY <2>1, <2>3, <3>2
    <2> QED  BY <2>2, <2>3
  <1>4. ASSUME UNCHANGED log
        PROVE  At(g, "save") \/ \E f \in Caller, c \in Content : Answer(f, c)
    <2>1. CASE UNCHANGED fetch
      BY <2>1 DEF At
    <2>2. ASSUME NEW f \in Caller, f # g, FetchExperiment(f) \/ OfFetch(f)
          PROVE  At(g, "save")
      BY <2>2, Others DEF At
    <2>3. ASSUME FetchExperiment(g) \/ Find(g) \/ RemoveExperiment(g) \/ Removed(g)
                 \/ RequestExperiment(g) \/ HttpFailure(g) \/ Refused(g) \/ SaveToDisk(g)
                 \/ Complete(g)
          PROVE  FALSE
      <3>1. CASE FetchExperiment(g)
        BY <3>1 DEF FetchExperiment, IdleFetch, TypeOK
      <3>2. CASE Find(g)
        BY <3>2 DEF Find, Over, GoTo, IdleFetch, TypeOK, Fetch
      <3>3. CASE RemoveExperiment(g) \/ Removed(g) \/ SaveToDisk(g)
        BY <3>3 DEF RemoveExperiment, Removed, SaveToDisk, GoTo, TypeOK, Fetch
      <3>4. CASE RequestExperiment(g)
        BY <3>4 DEF RequestExperiment, Over, IdleFetch, TypeOK, Fetch
      <3>5. CASE HttpFailure(g)
        BY <3>5 DEF HttpFailure, Over, IdleFetch, TypeOK, Fetch
      <3>6. CASE Refused(g) \/ Complete(g)
        BY <3>6 DEF Refused, Complete, Over, IdleFetch, TypeOK
      <3> QED  BY <2>3, <3>1, <3>2, <3>3, <3>4, <3>5, <3>6
    <2>4. CASE WriteFile \/ SetLoginUserId \/ SetDataCollectionEnabled \/ Tick \/ UNCHANGED vars
      BY <2>1, <2>4 DEF WriteFile, SetLoginUserId, SetDataCollectionEnabled, Tick, vars
    <2>5. CASE Crash
      BY <2>5 DEF Crash, IdleFetch
    <2> QED  BY <2>2, <2>3, <2>4, <2>5 DEF Next, OfFetch
  <1> QED
    BY <1>1, <1>2, <1>3, <1>4
    DEF Next, OfFetch, FetchExperiment, Find, RemoveExperiment, Removed,
        RequestExperiment, HttpFailure, Refused, SaveToDisk, SetLoginUserId,
        SetDataCollectionEnabled, Tick, WriteFile, Crash, vars, ghosts

LEMMA ToldStep == DurableInv /\ [Next]_vars => ToldHeld'
  <1> SUFFICES ASSUME DurableInv, [Next]_vars, NEW i \in 1 .. Len(log'), log'[i].told
               PROVE  /\ Holds(memory', i, log', purged', now')
                      /\ Holds(file', i, log', purged', now')
                      /\ \A p \in 1 .. Len(io') : Holds(io'[p].snapshot, i, log', purged', now')
    BY DEF ToldHeld, HeldEverywhere, Held
  <1>1. /\ i \in 1 .. Len(log)
        /\ log[i].told \/ \E f \in Caller : Complete(f) /\ i = Len(log)
    BY NewlyTold DEF DurableInv
  <1>2. CASE log[i].told
    <2>1. HeldEverywhere(i)
      BY <1>1, <1>2 DEF DurableInv, ToldHeld
    <2>2. Settled(i)
      BY <1>2 DEF DurableInv, Untold, Settled
    <2> QED  BY <1>1, <2>1, <2>2, EverywhereStep
  <1>3. ASSUME NEW f \in Caller, Complete(f), i = Len(log)
        PROVE  HeldEverywhere(i) /\ Settled(i)
    <2>1. At(f, "saving") /\ \A q \in 1 .. Len(io) : io[q].by # f
      BY <1>3 DEF Complete, Synchronized, DurableInv, TypeOK
    <2>2. \A p \in 1 .. Len(io) : \A q \in p + 1 .. Len(io) : q \in 1 .. Len(io)
      BY DEF DurableInv, TypeOK
    <2>3. HeldEverywhere(i)
      BY <1>3, <2>1, <2>2 DEF DurableInv, SavingHeld, HeldEverywhere
    <2>4. Settled(i)
      BY <2>1, SavingIsSettled DEF DurableInv
    <2> QED  BY <2>3, <2>4
  <1> QED  BY <1>1, <1>2, <1>3, EverywhereStep

LEMMA SavingStep == DurableInv /\ [Next]_vars => SavingHeld'
  <1> SUFFICES ASSUME DurableInv, [Next]_vars, NEW f \in Caller, fetch'[f].at = "saving"
               PROVE  /\ Holds(memory', Len(log'), log', purged', now')
                      /\ (\A q \in 1 .. Len(io') : io'[q].by # f)
                            => Holds(file', Len(log'), log', purged', now')
                      /\ \A p \in 1 .. Len(io') :
                            (\A q \in p + 1 .. Len(io') : io'[q].by # f)
                               => Holds(io'[p].snapshot, Len(log'), log', purged', now')
    BY DEF SavingHeld, Held, At
  <1>1. CASE SaveToDisk(f)
    <2>1. /\ Len(log) \in 1 .. Len(log) /\ UNCHANGED <<ghosts, now>>
          /\ \A k \in Key : memory'[k] = IF k = log[Len(log)].key THEN log[Len(log)].got ELSE memory[k]
      BY <1>1, SavedEntry
    <2>2. memory'[log[Len(log)].key] = log[Len(log)].got
      BY <2>1, EntryKey
    <2>3. Len(log) \in Len(log) .. Len(log)
      BY <2>1
    <2>4. Holds(memory', Len(log'), log', purged', now')
      BY <2>1, <2>2, <2>3 DEF Holds, ghosts
    <2>5. /\ Len(io') = Len(io) + 1 /\ Len(io) \in Nat
          /\ io'[Len(io) + 1] = [by |-> f, snapshot |-> memory']
      BY <1>1, StoreAppends
    <2>6. io'[Len(io')].by = f /\ io'[Len(io')].snapshot = memory' /\ Len(io') \in 1 .. Len(io')
      BY <2>5
    <2>7. ASSUME NEW p \in 1 .. Len(io'), p # Len(io') PROVE Len(io') \in p + 1 .. Len(io')
      BY <2>5, <2>7
    <2> QED  BY <2>4, <2>6, <2>7
  <1>2. CASE At(f, "saving") /\ Len(log') = Len(log) /\ ~Crash
    <2> DEFINE n == Len(log)
    <2>1. n \in 1 .. Len(log) /\ main = f
      <3>1. Saving(f)
        BY <1>2 DEF At, Saving
      <3>2. log # <<>> /\ main = f
        BY <3>1 DEF DurableInv, SavesLast
      <3> QED  BY <3>2 DEF DurableInv, TypeOK
    <2>2. /\ Held(memory, n)
          /\ (\A q \in 1 .. Len(io) : io[q].by # f) => Held(file, n)
          /\ \A p \in 1 .. Len(io) :
                (\A q \in p + 1 .. Len(io) : io[q].by # f) => Held(io[p].snapshot, n)
      BY <1>2 DEF DurableInv, SavingHeld
    <2>3. Holds(memory', n, log', purged', now')
      <3>1. Settled(n)
        BY <1>2, SavingIsSettled DEF DurableInv
      <3> QED  BY <1>2, <2>1, <2>2, <3>1, MemoryStep
    <2>4. \A m : Held(m, n) => Holds(m, n, log', purged', now')
      BY <2>1, CarriedOn
    <2> HIDE DEF n
    <2>5. Len(log') = n
      BY <1>2 DEF n
    <2>6. CASE UNCHANGED disk
      BY <2>2, <2>3, <2>4, <2>5, <2>6 DEF disk
    <2>7. ASSUME NEW g \in Caller, (RemoveExperiment(g) /\ Cached(KeyOf(g))) \/ SaveToDisk(g)
          PROVE  /\ (\A q \in 1 .. Len(io') : io'[q].by # f)
                        => Holds(file', n, log', purged', now')
                 /\ \A p \in 1 .. Len(io') :
                        (\A q \in p + 1 .. Len(io') : io'[q].by # f)
                           => Holds(io'[p].snapshot, n, log', purged', now')
      <3>1. /\ Len(io') = Len(io) + 1 /\ Len(io) \in Nat /\ file' = file
            /\ io'[Len(io) + 1] = [by |-> g, snapshot |-> memory']
            /\ \A p \in 1 .. Len(io) : io'[p] = io[p]
        BY <2>7, StoreAppends
      <3>2. ASSUME \A q \in 1 .. Len(io') : io'[q].by # f
            PROVE  Holds(file', n, log', purged', now')
        <4>1. \A q \in 1 .. Len(io) : q \in 1 .. Len(io') /\ io[q].by # f
          BY <3>1, <3>2
        <4> QED  BY <2>2, <2>4, <3>1, <4>1
      <3>3. ASSUME NEW p \in 1 .. Len(io'), \A q \in p + 1 .. Len(io') : io'[q].by # f
            PROVE  Holds(io'[p].snapshot, n, log', purged', now')
        <4>1. CASE p = Len(io) + 1
          BY <2>3, <3>1, <4>1
        <4>2. CASE p # Len(io) + 1
          <5>1. p \in 1 .. Len(io) /\ io'[p] = io[p]
            BY <3>1, <4>2
          <5>2. ASSUME NEW q \in p + 1 .. Len(io) PROVE io[q].by # f
            <6>1. q \in p + 1 .. Len(io') /\ q \in 1 .. Len(io)
              BY <3>1
            <6> QED  BY <3>1, <3>3, <6>1
          <5> QED  BY <2>2, <2>4, <5>1, <5>2
        <4> QED  BY <4>1, <4>2
      <3> QED  BY <3>2, <3>3
    <2>8. CASE WriteFile
      <3>1. /\ Len(io) \in Nat \ {0} /\ Len(io') = Len(io) - 1
            /\ file' = io[1].snapshot
            /\ \A p \in 1 .. Len(io) - 1 : io'[p] = io[p + 1]
        BY <2>8, WriteFileSnapshots DEF DurableInv
      <3>2. ASSUME \A q \in 1 .. Len(io') : io'[q].by # f
            PROVE  Holds(file', n, log', purged', now')
        <4>1. ASSUME NEW q \in 1 + 1 .. Len(io) PROVE io[q].by # f
          <5>1. q - 1 \in 1 .. Len(io') /\ io'[q - 1] = io[(q - 1) + 1] /\ (q - 1) + 1 = q
            BY <3>1
          <5> QED  BY <3>2, <5>1
        <4>2. 1 \in 1 .. Len(io)
          BY <3>1
        <4> QED  BY <2>2, <2>4, <3>1, <4>1, <4>2
      <3>3. ASSUME NEW p \in 1 .. Len(io'), \A q \in p + 1 .. Len(io') : io'[q].by # f
            PROVE  Holds(io'[p].snapshot, n, log', purged', now')
        <4>1. p + 1 \in 1 .. Len(io) /\ io'[p] = io[p + 1]
          BY <3>1
        <4>2. ASSUME NEW q \in (p + 1) + 1 .. Len(io) PROVE io[q].by # f
          <5>1. /\ q - 1 \in p + 1 .. Len(io') /\ q - 1 \in 1 .. Len(io) - 1
                /\ (q - 1) + 1 = q
            BY <3>1
          <5>2. io'[q - 1] = io[q]
            BY <3>1, <5>1
          <5> QED  BY <3>3, <5>1, <5>2
        <4> QED  BY <2>2, <2>4, <4>1, <4>2
      <3> QED  BY <2>3, <2>5, <3>2, <3>3
    <2> QED  BY <1>2, <2>3, <2>5, <2>6, <2>7, <2>8, DiskSteps
  <1> QED  BY <1>1, <1>2, NewlySaving DEF DurableInv

LEMMA DurableInit == Init => DurableInv
  <1> SUFFICES ASSUME Init PROVE DurableInv
    OBVIOUS
  <1>1. SavesLast /\ SavingHeld /\ Untold
    BY DEF Init, SavesLast, SavingHeld, Untold, Saving, At, IdleFetch
  <1>2. Len(log) = 0
    BY DEF Init
  <1> QED  BY <1>1, <1>2, TypeInit DEF DurableInv, InTime, ToldHeld

LEMMA DurableMeans == DurableInv => ToldIsDurable
  <1> SUFFICES ASSUME DurableInv, NEW i \in DOMAIN log, log[i].told
               PROVE  \/ IsOutdated(log[i].got) \/ i \in purged
                      \/ \E j \in i .. Len(log) :
                            log[j].key = log[i].key /\ file[log[i].key] = log[j].got
    BY DEF ToldIsDurable
  <1>1. Holds(file, i, log, purged, now)
    BY DEF DurableInv, ToldHeld, HeldEverywhere, Held, TypeOK
  <1> QED  BY <1>1 DEF Holds, IsOutdated, IsToday

(***************************************************************************)
(* For all constants, any number of fetches and of ends of the process:    *)
(* what the app was told, or a later answer, is in the file for the rest   *)
(* of the day, unless removeFromDisk of another fetch deleted it as        *)
(* outdated although it was fresh (GrowingABTesting.m:109).  Answers that  *)
(* came after such a removal are not excepted.                             *)
(***************************************************************************)
THEOREM ToldSurvives == Spec => []ToldIsDurable
  <1>1. DurableInv /\ [Next]_vars => DurableInv'
    BY TypeStep, SavesLastStep, UntoldStep, InTimeStep, ToldStep, SavingStep DEF DurableInv
  <1> QED  BY <1>1, DurableMeans, DurableInit, PTL DEF Spec

-----------------------------------------------------------------------------
(* A change is reported, and reported once *)

(***************************************************************************)
(* An answer of this run of the process is in memory, or a later one is,   *)
(* unless its fetch has yet to save it.                                    *)
(***************************************************************************)
RunHeld ==
    \A i \in 1 .. Len(log) :
        /\ log[i].run <= crashes
        /\ log[i].run = crashes =>
              Held(memory, i) \/ (i = Len(log) /\ \E f \in Caller : At(f, "save"))

HitInv == OwnInv /\ DurableInv /\ RunHeld /\ HitPerChange

(* Every nonempty set of naturals that has a bound has a greatest element. *)
LEMMA GreatestNatural ==
    ASSUME NEW T \in SUBSET Nat, T # {}, NEW n \in Nat, \A x \in T : x <= n
    PROVE  \E x \in T : \A y \in T : y <= x
  <1> DEFINE S == {m \in Nat : \E x \in T : m = n - x}
             R == OpToRel(<, Nat)
  <1>1. S # {} /\ S \subseteq Nat
    <2>1. PICK x \in T : TRUE
      OBVIOUS
    <2>2. n - x \in Nat
      BY <2>1
    <2>3. QED
      BY <2>1, <2>2
  <1>2. \E m \in S : \A k \in S : ~ (<<k, m>> \in R)
    <2> HIDE DEF R, S
    <2>1. IsWellFoundedOn(R, Nat)
      BY NatLessThanWellFounded DEF R
    <2>2. QED
      BY <1>1, <2>1, WFMin
  <1>3. PICK m \in S : \A k \in S : ~ (<<k, m>> \in R)
    BY <1>2
  <1>4. \A k \in S : ~ (k < m)
    BY <1>1, <1>3 DEF OpToRel
  <1>5. PICK x \in T : m = n - x
    BY <1>3
  <1>6. ASSUME NEW y \in T
        PROVE  y <= x
    <2>1. n - y \in S
      BY <1>6
    <2>2. ~ (n - y < n - x)
      BY <1>4, <1>5, <2>1
    <2>3. QED
      BY <2>2, <1>6, <1>5
  <1>7. QED
    BY <1>6

(* The log gets an answer, or the last one is told. *)
LEMMA LogSteps ==
    ASSUME TypeOK, SavesLast, [Next]_vars
    PROVE  \/ \E f \in Caller, c \in Content : Answer(f, c)
           \/ /\ Len(log') = Len(log)
              /\ \A i \in 1 .. Len(log) :
                    /\ log'[i].key = log[i].key /\ log'[i].got = log[i].got
                    /\ log'[i].hit = log[i].hit /\ log'[i].run = log[i].run
                    /\ i < Len(log) => log'[i] = log[i]
  <1>1. CASE UNCHANGED log
    BY <1>1
  <1>2. ASSUME NEW f \in Caller, Complete(f)
        PROVE  /\ Len(log') = Len(log)
               /\ \A i \in 1 .. Len(log) :
                    /\ log'[i].key = log[i].key /\ log'[i].got = log[i].got
                    /\ log'[i].hit = log[i].hit /\ log'[i].run = log[i].run
                    /\ i < Len(log) => log'[i] = log[i]
    <2>1. log' = [log EXCEPT ![fetch[f].entry].told = TRUE] /\ Saving(f)
      BY <1>2 DEF Complete, At, Saving
    <2>2. fetch[f].entry = Len(log)
      BY <2>1 DEF SavesLast
    <2>3. log \in Seq(Entry) /\ Len(log) \in Nat
      BY DEF TypeOK
    <2>4. ASSUME NEW i \in 1 .. Len(log), i = Len(log)
          PROVE  /\ log'[i].key = log[i].key /\ log'[i].got = log[i].got
                 /\ log'[i].hit = log[i].hit /\ log'[i].run = log[i].run
      <3>1. i \in DOMAIN log /\ log[i] \in Entry
        BY <2>3
      <3>2. log'[i] = [log[i] EXCEPT !.told = TRUE]
        BY <2>1, <2>2, <2>4, <3>1
      <3> QED  BY <3>1, <3>2 DEF Entry
    <2>5. ASSUME NEW i \in 1 .. Len(log), i # Len(log)
          PROVE  log'[i] = log[i]
      BY <2>1, <2>2, <2>3, <2>5
    <2>6. Len(log') = Len(log)
      BY <2>1, <2>3
    <2>7. ASSUME NEW i \in 1 .. Len(log)
          PROVE  /\ log'[i].key = log[i].key /\ log'[i].got = log[i].got
                 /\ log'[i].hit = log[i].hit /\ log'[i].run = log[i].run
                 /\ i < Len(log) => log'[i] = log[i]
      <3>1. CASE i = Len(log)
        BY <2>3, <2>4, <3>1
      <3>2. CASE i # Len(log)
        BY <2>5, <3>2
      <3> QED  BY <3>1, <3>2
    <2> QED  BY <2>6, <2>7
  <1> QED
    BY <1>1, <1>2
    DEF Next, OfFetch, FetchExperiment, Find, RemoveExperiment, Removed,
        RequestExperiment, HttpFailure, Refused, SaveToDisk, SetLoginUserId,
        SetDataCollectionEnabled, Tick, WriteFile, Crash, vars, ghosts

LEMMA AnswerAppends ==
    ASSUME TypeOK, NEW f \in Caller, NEW c \in Content, Answer(f, c)
    PROVE  /\ Len(log') = Len(log) + 1 /\ Len(log) \in Nat
           /\ log'[Len(log) + 1] = NewEntry(f, c)
           /\ \A i \in 1 .. Len(log) : log'[i] = log[i]
           /\ KeyOf(f) \in Key /\ UNCHANGED <<memory, purged, now, crashes>>
  <1>1. log' = Append(log, NewEntry(f, c)) /\ log \in Seq(Entry) /\ NewEntry(f, c) \in Entry
    BY EntryType DEF Answer, TypeOK
  <1> QED  BY <1>1, Appended, KeyType DEF Answer, disk, app, counts

(* A fetch that has yet to save does so next, unless the process ends. *)
LEMMA SavesNext ==
    ASSUME TypeOK, SavesLast, [Next]_vars, ~Crash, NEW g \in Caller, At(g, "save")
    PROVE  fetch'[g].at = "save" \/ SaveToDisk(g)
  <1>1. CASE UNCHANGED fetch
    BY <1>1 DEF At
  <1>2. ASSUME NEW f \in Caller, f # g, FetchExperiment(f) \/ OfFetch(f)
        PROVE  fetch'[g].at = "save"
    BY <1>2, Others DEF At
  <1>3. ASSUME FetchExperiment(g) \/ OfFetch(g) PROVE SaveToDisk(g)
    BY <1>3
    DEF FetchExperiment, OfFetch, Find, RemoveExperiment, Removed, RequestExperiment,
        HttpFailure, Refused, Answer, Complete, At
  <1>4. CASE WriteFile \/ SetLoginUserId \/ SetDataCollectionEnabled \/ Tick \/ UNCHANGED vars
    BY <1>1, <1>4 DEF WriteFile, SetLoginUserId, SetDataCollectionEnabled, Tick, vars
  <1> QED  BY <1>2, <1>3, <1>4 DEF Next

LEMMA RunStep == DurableInv /\ RunHeld /\ [Next]_vars => RunHeld'
  <1> SUFFICES ASSUME DurableInv, RunHeld, [Next]_vars, NEW i \in 1 .. Len(log')
               PROVE  /\ log'[i].run <= crashes'
                      /\ log'[i].run = crashes' =>
                            \/ Holds(memory', i, log', purged', now')
                            \/ i = Len(log') /\ \E f \in Caller : fetch'[f].at = "save"
    BY DEF RunHeld, Held, At
  <1>1. crashes \in Nat /\ Len(log) \in Nat /\ \A j \in 1 .. Len(log) : log[j].run \in Nat
    <2>1. log \in Seq(Entry) /\ crashes \in Nat
      BY DEF DurableInv, TypeOK
    <2>2. \A j \in 1 .. Len(log) : log[j] \in Entry
      BY <2>1
    <2> QED  BY <2>1, <2>2 DEF Entry
  <1>2. ASSUME NEW f \in Caller, NEW c \in Content, Answer(f, c)
        PROVE  /\ log'[i].run <= crashes'
               /\ log'[i].run = crashes' =>
                     \/ Holds(memory', i, log', purged', now')
                     \/ i = Len(log') /\ \E g \in Caller : fetch'[g].at = "save"
    <2>1. /\ Len(log') = Len(log) + 1 /\ log'[Len(log) + 1] = NewEntry(f, c)
          /\ \A j \in 1 .. Len(log) : log'[j] = log[j]
          /\ crashes' = crashes
      BY <1>2, AnswerAppends DEF DurableInv
    <2>2. CASE i = Len(log) + 1
      <3>1. log'[i].run = crashes
        BY <2>1, <2>2 DEF NewEntry
      <3>2. fetch'[f].at = "save"
        BY <1>2 DEF Answer, DurableInv, TypeOK, Fetch
      <3> QED  BY <1>1, <2>1, <2>2, <3>1, <3>2
    <2>3. CASE i # Len(log) + 1
      <3>1. i \in 1 .. Len(log) /\ log'[i] = log[i]
        BY <1>1, <2>1, <2>3
      <3>2. \A g \in Caller : ~At(g, "save")
        <4>1. main = None
          BY <1>2 DEF Answer
        <4> QED  BY <4>1, NobodySaves DEF At, Saving, DurableInv
      <3>3. ~Crash
        <4>1. fetch'[f].at = "save"
          BY <1>2 DEF Answer, DurableInv, TypeOK, Fetch
        <4> QED  BY <4>1 DEF Crash, IdleFetch
      <3> QED  BY <2>1, <3>1, <3>2, <3>3, MemoryStep DEF RunHeld, Settled
    <2> QED  BY <2>2, <2>3
  <1>3. CASE Crash
    <2>1. log' = log /\ crashes' = crashes + 1
      BY <1>3 DEF Crash, ghosts
    <2>2. log[i].run <= crashes
      BY <2>1 DEF RunHeld
    <2> QED  BY <1>1, <2>1, <2>2
  <1>4. ASSUME ~Crash, Len(log') = Len(log), i \in 1 .. Len(log), log'[i].run = log[i].run
        PROVE  /\ log'[i].run <= crashes'
               /\ log'[i].run = crashes' =>
                     \/ Holds(memory', i, log', purged', now')
                     \/ i = Len(log') /\ \E g \in Caller : fetch'[g].at = "save"
    <2>1. crashes' = crashes
      BY <1>4
      DEF Next, OfFetch, FetchExperiment, Find, RemoveExperiment, Removed, RequestExperiment,
          HttpFailure, Refused, Answer, SaveToDisk, Complete, SetLoginUserId,
          SetDataCollectionEnabled, Tick, WriteFile, vars, counts
    <2>2. ASSUME Held(memory, i), Settled(i) PROVE Holds(memory', i, log', purged', now')
      BY <1>4, <2>2, MemoryStep
    <2>3. ASSUME NEW g \in Caller, At(g, "save"), i = Len(log)
          PROVE  fetch'[g].at = "save" \/ Holds(memory', i, log', purged', now')
      <3>1. CASE SaveToDisk(g)
        <4>1. fetch'[g].at = "saving"
          BY <3>1 DEF SaveToDisk, GoTo, DurableInv, TypeOK, Fetch
        <4>2. SavingHeld'
          BY SavingStep
        <4> QED  BY <1>4, <2>3, <4>1, <4>2 DEF SavingHeld, At, Held
      <3> QED  BY <1>4, <2>3, <3>1, SavesNext DEF DurableInv
    <2> QED  BY <1>4, <2>1, <2>2, <2>3 DEF RunHeld, Settled
  <1> QED  BY <1>2, <1>3, <1>4, LogSteps DEF DurableInv

(* What an answer to f is compared with. *)
LEMMA HitMeans ==
    ASSUME TypeOK, NEW k \in Key, NEW c \in Content
    PROVE  /\ Hit(k, c) = "sent" => c # Miss /\ ~(Cached(k) /\ memory[k].content = c)
           /\ Hit(k, c) = "none" /\ c # Miss => Cached(k) /\ memory[k].content = c
  BY DEF Hit

(* When an answer comes, all that cannot have been lost is in memory. *)
LEMMA NothingPending ==
    ASSUME DurableInv, RunHeld, main = None, NEW i \in 1 .. Len(log),
           log[i].told \/ log[i].run = crashes
    PROVE  Held(memory, i)
  <1>1. CASE log[i].told
    BY <1>1 DEF DurableInv, ToldHeld, HeldEverywhere
  <1>2. CASE log[i].run = crashes
    <2>1. \A g \in Caller : ~At(g, "save")
      BY NobodySaves DEF At, Saving, DurableInv
    <2> QED  BY <1>2, <2>1 DEF RunHeld
  <1> QED  BY <1>1, <1>2

LEMMA NewHitOnce ==
    ASSUME DurableInv, RunHeld, NEW f \in Caller, NEW c \in Content, Answer(f, c),
           NEW i \in 1 .. Len(log), log[i].key = KeyOf(f), DayOf(log[i].got.time) = DayOf(now),
           \A m \in i .. Len(log) : log[m].key = KeyOf(f) => log[m].got.content = c,
           Hit(KeyOf(f), c) = "sent", log[i].told \/ log[i].run = crashes
    PROVE  i \in purged
  <1> DEFINE k == KeyOf(f)
  <1>1. Held(memory, i)
    BY NothingPending DEF Answer
  <1>2. k \in Key /\ ~(Cached(k) /\ memory[k].content = c)
    BY HitMeans, KeyType DEF DurableInv
  <1>3. ASSUME NEW j \in i .. Len(log), log[j].key = k, memory[k] = log[j].got
        PROVE  FALSE
    <2>1. log[j].got.content = c /\ j \in 1 .. Len(log)
      BY <1>3
    <2>2. log[j].got.time \in Nat
      BY <2>1, EntryTime DEF DurableInv, TypeOK
    <2>3. memory[k] # NoExperiment
      BY <1>3, <2>2 DEF NoExperiment
    <2> QED  BY <1>2, <1>3, <2>1, <2>3 DEF Cached
  <1> QED  BY <1>1, <1>3 DEF Held, Holds

LEMMA NewChangeHit ==
    ASSUME OwnInv, DurableInv, RunHeld, NEW f \in Caller, NEW c \in Content, Answer(f, c),
           Hit(KeyOf(f), c) = "none", c # Miss
    PROVE  \E i \in 1 .. Len(log) :
              /\ log[i].key = KeyOf(f) /\ log[i].got.content = c
              /\ \A m \in i .. Len(log) : log[m].key = KeyOf(f) =>
                    log[m].got.content = c \/ ~(log[m].told \/ log[m].run = crashes)
  <1> DEFINE k == KeyOf(f)
             T == {i \in 1 .. Len(log) : log[i].key = k /\ log[i].got = memory[k]}
  <1>1. k \in Key /\ memory[k] # NoExperiment /\ memory[k].content = c
    BY HitMeans, KeyType DEF DurableInv, Cached
  <1>2. T # {} /\ T \in SUBSET Nat /\ Len(log) \in Nat /\ \A x \in T : x <= Len(log)
    BY <1>1 DEF OwnInv, Answered, TypeOK
  <1> HIDE DEF T
  <1>3. PICK i \in T : \A y \in T : y <= i
    BY <1>2, GreatestNatural
  <1>4. i \in 1 .. Len(log) /\ log[i].key = k /\ log[i].got = memory[k]
    BY DEF T
  <1>5. ASSUME NEW m \in i .. Len(log), log[m].key = k, log[m].told \/ log[m].run = crashes
        PROVE  log[m].got.content = c
    <2>1. m \in 1 .. Len(log)
      BY <1>2, <1>4
    <2>2. Held(memory, m)
      BY <1>5, <2>1, NothingPending DEF Answer
    <2>3. PICK j \in m .. Len(log) : log[j].key = k /\ memory[k] = log[j].got
      BY <1>1, <1>5, <2>2 DEF Held, Holds
    <2>4. j \in T
      BY <2>1, <2>3 DEF T
    <2>5. m = i
      BY <1>2, <1>3, <1>4, <2>1, <2>3, <2>4
    <2> QED  BY <1>1, <1>4, <2>5
  <1> QED  BY <1>1, <1>4, <1>5

(* What is said of two old entries is not changed by a step. *)
LEMMA OldHits ==
    ASSUME HitInv, [Next]_vars, NEW n \in Nat, n <= Len(log), Len(log) <= Len(log'),
           \A i \in 1 .. n : /\ log'[i].key = log[i].key /\ log'[i].got = log[i].got
                             /\ log'[i].hit = log[i].hit /\ log'[i].run = log[i].run
                             /\ i < n => log'[i].told = log[i].told
    PROVE  /\ \A i, j \in 1 .. n :
                 /\ i < j /\ SameKey(i, j)' /\ SameDay(i, j)'
                 /\ \A m \in i .. j : SameKey(m, j)' => SameContent(m, j)'
                 /\ log'[i].hit = "sent" /\ log'[j].hit = "sent"
                 => i \in purged' \/ MayBeLost(i, j)'
           /\ \A j \in 1 .. n :
                 log'[j].hit = "none" /\ log'[j].got.content # Miss =>
                     \E i \in 1 .. j - 1 :
                         /\ SameKey(i, j)' /\ SameContent(i, j)'
                         /\ \A m \in i .. j :
                               SameKey(m, j)' => SameContent(m, j)' \/ MayBeLost(m, j)'
  <1>1. DOMAIN log = 1 .. Len(log) /\ Len(log) \in Nat
    BY DEF HitInv, OwnInv, TypeOK
  <1>2. \A i, j \in 1 .. n : /\ SameKey(i, j)' <=> SameKey(i, j)
                             /\ SameContent(i, j)' <=> SameContent(i, j)
                             /\ SameDay(i, j)' <=> SameDay(i, j)
                             /\ i < j => (MayBeLost(i, j)' <=> MayBeLost(i, j))
    BY DEF SameKey, SameContent, SameDay, MayBeLost, DayOf
  <1>3. ASSUME NEW i \in 1 .. n, NEW j \in 1 .. n,
               i < j, SameKey(i, j)', SameDay(i, j)',
               \A m \in i .. j : SameKey(m, j)' => SameContent(m, j)',
               log'[i].hit = "sent", log'[j].hit = "sent"
        PROVE  i \in purged' \/ MayBeLost(i, j)'
    <2>1. i \in DOMAIN log /\ j \in DOMAIN log /\ \A m \in i .. j : m \in 1 .. n
      BY <1>1
    <2>2. \A m \in i .. j : SameKey(m, j) => SameContent(m, j)
      BY <1>2, <1>3, <2>1
    <2>3. i \in purged \/ MayBeLost(i, j)
      BY <1>2, <1>3, <2>1, <2>2 DEF HitInv, HitPerChange, OneHitPerDay
    <2> QED  BY <1>2, <1>3, <2>3, PurgedGrows
  <1>4. ASSUME NEW j \in 1 .. n, log'[j].hit = "none", log'[j].got.content # Miss
        PROVE  \E i \in 1 .. j - 1 :
                   /\ SameKey(i, j)' /\ SameContent(i, j)'
                   /\ \A m \in i .. j : SameKey(m, j)' => SameContent(m, j)' \/ MayBeLost(m, j)'
    <2>1. j \in DOMAIN log /\ log[j].hit = "none" /\ log[j].got.content # Miss
      BY <1>1, <1>4
    <2>2. PICK i \in 1 .. j - 1 :
             /\ SameKey(i, j) /\ SameContent(i, j)
             /\ \A m \in i .. j : SameKey(m, j) => SameContent(m, j) \/ MayBeLost(m, j)
      BY <2>1 DEF HitInv, HitPerChange, ChangeIsHit
    <2>3. i \in 1 .. n
      OBVIOUS
    <2>4. ASSUME NEW m \in i .. j, SameKey(m, j)'
          PROVE  SameContent(m, j)' \/ MayBeLost(m, j)'
      <3>1. m \in 1 .. n /\ (m < j \/ m = j)
        OBVIOUS
      <3>2. SameContent(j, j)'
        BY DEF SameContent
      <3> QED  BY <1>2, <2>2, <2>4, <3>1, <3>2
    <2> QED  BY <1>2, <2>2, <2>3, <2>4
  <1> QED  BY <1>3, <1>4

LEMMA HitStep == HitInv /\ [Next]_vars => HitPerChange'
  <1> SUFFICES ASSUME HitInv, [Next]_vars PROVE HitPerChange'
    OBVIOUS
  <1>1. /\ TypeOK /\ SavesLast /\ DOMAIN log = 1 .. Len(log) /\ Len(log) \in Nat
        /\ DOMAIN log' = 1 .. Len(log') /\ Len(log') \in Nat
    BY TypeStep DEF HitInv, OwnInv, TypeOK
  <1>2. CASE /\ Len(log') = Len(log)
             /\ \A i \in 1 .. Len(log) :
                   /\ log'[i].key = log[i].key /\ log'[i].got = log[i].got
                   /\ log'[i].hit = log[i].hit /\ log'[i].run = log[i].run
                   /\ i < Len(log) => log'[i] = log[i]
    <2>1. \A i \in 1 .. Len(log) : i < Len(log) => log'[i].told = log[i].told
      BY <1>2
    <2> QED  BY <1>1, <1>2, <2>1, OldHits DEF HitPerChange, OneHitPerDay, ChangeIsHit
  <1>3. ASSUME NEW f \in Caller, NEW c \in Content, Answer(f, c)
        PROVE  HitPerChange'
    <2> DEFINE n == Len(log)
               k == KeyOf(f)
               new == NewEntry(f, c)
    <2>1. /\ Len(log') = n + 1 /\ log'[n + 1] = new
          /\ \A i \in 1 .. n : log'[i] = log[i]
          /\ UNCHANGED <<memory, purged, now, crashes>>
      BY <1>1, <1>3, AnswerAppends
    <2>2. /\ new.key = k /\ new.got.content = c /\ new.got.time = now
          /\ new.hit = Hit(k, c) /\ new.run = crashes
      BY DEF NewEntry
    <2> HIDE DEF n, k, new
    <2>n. n \in Nat /\ n = Len(log)
      BY <1>1 DEF n
    <2>3. /\ \A i, j \in 1 .. n :
                /\ i < j /\ SameKey(i, j)' /\ SameDay(i, j)'
                /\ \A m \in i .. j : SameKey(m, j)' => SameContent(m, j)'
                /\ log'[i].hit = "sent" /\ log'[j].hit = "sent"
                => i \in purged' \/ MayBeLost(i, j)'
          /\ \A j \in 1 .. n :
                log'[j].hit = "none" /\ log'[j].got.content # Miss =>
                    \E i \in 1 .. j - 1 :
                        /\ SameKey(i, j)' /\ SameContent(i, j)'
                        /\ \A m \in i .. j :
                              SameKey(m, j)' => SameContent(m, j)' \/ MayBeLost(m, j)'
      BY <2>1, <2>n, OldHits
    <2>4. ASSUME NEW i \in 1 .. n, NEW j, j = n + 1, SameKey(i, j)', SameDay(i, j)',
                 \A m \in i .. j : SameKey(m, j)' => SameContent(m, j)',
                 log'[j].hit = "sent"
          PROVE  i \in purged' \/ MayBeLost(i, j)'
      <3>1. log[i].key = k /\ DayOf(log[i].got.time) = DayOf(now) /\ Hit(k, c) = "sent"
        BY <2>1, <2>2, <2>4 DEF SameKey, SameDay, DayOf
      <3>2. ASSUME NEW m \in i .. n, log[m].key = k PROVE log[m].got.content = c
        <4>1. m \in i .. j /\ m \in 1 .. n
          BY <2>4, <2>n
        <4>2. SameKey(m, j)'
          BY <2>1, <2>2, <2>4, <3>2, <4>1 DEF SameKey
        <4>3. SameContent(m, j)'
          BY <2>4, <4>1, <4>2
        <4> QED  BY <2>1, <2>2, <2>4, <4>1, <4>3 DEF SameContent
      <3>3. CASE log[i].told \/ log[i].run = crashes
        <4>1. i \in purged
          BY <1>3, <2>n, <3>1, <3>2, <3>3, NewHitOnce DEF HitInv, k
        <4> QED  BY <2>1, <2>2, <2>4, <4>1
      <3>4. CASE ~(log[i].told \/ log[i].run = crashes)
        BY <2>1, <2>2, <2>4, <3>4 DEF MayBeLost
      <3> QED  BY <3>3, <3>4
    <2>5. ASSUME NEW j, j = n + 1, log'[j].hit = "none", log'[j].got.content # Miss
          PROVE  \E i \in 1 .. j - 1 :
                     /\ SameKey(i, j)' /\ SameContent(i, j)'
                     /\ \A m \in i .. j :
                           SameKey(m, j)' => SameContent(m, j)' \/ MayBeLost(m, j)'
      <3>1. Hit(k, c) = "none" /\ c # Miss
        BY <2>1, <2>2, <2>5
      <3>2. PICK i \in 1 .. n :
               /\ log[i].key = k /\ log[i].got.content = c
               /\ \A m \in i .. n : log[m].key = k =>
                     log[m].got.content = c \/ ~(log[m].told \/ log[m].run = crashes)
        BY <1>3, <2>n, <3>1, NewChangeHit DEF HitInv, k
      <3>3. SameKey(i, j)' /\ SameContent(i, j)'
        BY <2>1, <2>2, <2>5, <3>2 DEF SameKey, SameContent
      <3>4. ASSUME NEW m \in i .. j, SameKey(m, j)'
            PROVE  SameContent(m, j)' \/ MayBeLost(m, j)'
        <4>1. CASE m = j
          BY <4>1 DEF SameContent
        <4>2. CASE m # j
          <5>1. m \in i .. n /\ m \in 1 .. n
            BY <2>5, <2>n, <4>2
          <5>2. log[m].key = k
            BY <2>1, <2>2, <2>5, <3>4, <5>1 DEF SameKey
          <5>3. log[m].got.content = c \/ ~(log[m].told \/ log[m].run = crashes)
            BY <3>2, <5>1, <5>2
          <5> QED  BY <2>1, <2>2, <2>5, <5>1, <5>3 DEF SameContent, MayBeLost
        <4> QED  BY <4>1, <4>2
      <3>5. i \in 1 .. j - 1
        BY <2>5, <2>n
      <3> QED  BY <3>3, <3>4, <3>5
    <2>6. \A j \in DOMAIN log' : j \in 1 .. n \/ j = n + 1
      BY <1>1, <2>1, <2>n
    <2>7. OneHitPerDay'
      <3> SUFFICES ASSUME NEW i \in DOMAIN log', NEW j \in DOMAIN log',
                          i < j, SameKey(i, j)', SameDay(i, j)',
                          \A m \in i .. j : SameKey(m, j)' => SameContent(m, j)',
                          log'[i].hit = "sent", log'[j].hit = "sent"
                   PROVE  i \in purged' \/ MayBeLost(i, j)'
        BY DEF OneHitPerDay
      <3>1. i \in 1 .. n
        BY <1>1, <2>1, <2>n
      <3> QED  BY <2>3, <2>4, <2>6, <3>1
    <2>8. ChangeIsHit'
      BY <2>3, <2>5, <2>6 DEF ChangeIsHit
    <2> QED  BY <2>7, <2>8 DEF HitPerChange
  <1> QED  BY <1>1, <1>2, <1>3, LogSteps

LEMMA HitInit == Init => HitInv
  <1> SUFFICES ASSUME Init PROVE HitInv
    OBVIOUS
  <1>1. DOMAIN log = {} /\ Len(log) = 0
    BY DEF Init
  <1> QED
    BY <1>1, OwnInit, DurableInit
    DEF HitInv, RunHeld, HitPerChange, OneHitPerDay, ChangeIsHit

LEMMA HitInvStep == HitInv /\ [Next]_vars => HitInv'
  <1>1. DurableInv /\ [Next]_vars => DurableInv'
    BY TypeStep, SavesLastStep, UntoldStep, InTimeStep, ToldStep, SavingStep DEF DurableInv
  <1> QED  BY <1>1, OwnStep, RunStep, HitStep DEF HitInv

(***************************************************************************)
(* For all constants, any number of fetches and ends of the process: each  *)
(* change of an experiment is reported.  An event is repeated within a day *)
(* only if the process ended before the app was told of the first answer,  *)
(* or that answer itself, fresh and saved, was removed as outdated by      *)
(* another fetch.                                                          *)
(***************************************************************************)
THEOREM ReportsChanges == Spec => []HitPerChange
  <1>1. HitInv => HitPerChange
    BY DEF HitInv
  <1> QED  BY <1>1, HitInit, HitInvStep, PTL DEF Spec

-----------------------------------------------------------------------------
(* Without a second fetch there is no racing removal *)

Alone == \A f, g \in Caller : f = g

(* ToldIsDurable without its exception. *)
AlwaysDurable ==
    \A i \in DOMAIN log : log[i].told =>
        \/ IsOutdated(log[i].got)
        \/ \E j \in i .. Len(log) : log[j].key = log[i].key /\ file[log[i].key] = log[j].got

(* OneHitPerDay without the removals. *)
AlwaysOneHit ==
    \A i, j \in DOMAIN log :
        /\ i < j /\ SameKey(i, j) /\ SameDay(i, j)
        /\ \A m \in i .. j : SameKey(m, j) => SameContent(m, j)
        /\ log[i].hit = "sent" /\ log[j].hit = "sent"
        => MayBeLost(i, j)

(* What is to be removed is outdated still. *)
RemovesOutdated ==
    \A f \in Caller : At(f, "remove") /\ Cached(KeyOf(f)) => IsOutdated(memory[KeyOf(f)])

AloneInv == HitInv /\ RemovesOutdated /\ purged = {}

LEMMA OutdatedStays ==
    ASSUME OwnInv, InTime(log, now), NEW k \in Key, Cached(k), IsOutdated(memory[k]),
           now' \in Nat, now <= now'
    PROVE  DayOf(memory[k].time) # DayOf(now')
  <1>1. PICK i \in 1 .. Len(log) : log[i].got = memory[k]
    BY DEF OwnInv, Answered, Cached
  <1>2. memory[k].time \in Nat /\ memory[k].time <= now /\ now \in Nat
    BY <1>1, EntryTime DEF OwnInv, TypeOK, InTime
  <1>3. DayOf(memory[k].time) \in Nat /\ DayOf(memory[k].time) <= DayOf(now)
    BY <1>2, DayMonotone
  <1>4. DayOf(now) \in Nat /\ DayOf(now') \in Nat /\ DayOf(now) <= DayOf(now')
    BY <1>2, DayMonotone
  <1>5. DayOf(memory[k].time) # DayOf(now)
    BY DEF IsOutdated, IsToday
  <1> QED  BY <1>3, <1>4, <1>5

LEMMA RemovesStep ==
    ASSUME Alone, OwnInv, InTime(log, now), RemovesOutdated, [Next]_vars
    PROVE  RemovesOutdated'
  <1> SUFFICES ASSUME NEW f \in Caller, fetch'[f].at = "remove",
                      memory'[KeyOf(f)'] # NoExperiment
               PROVE  DayOf(memory'[KeyOf(f)'].time) # DayOf(now')
    BY DEF RemovesOutdated, At, Cached, IsOutdated, IsToday, DayOf
  <1>1. TypeOK /\ now' \in Nat /\ now <= now'
    <2>1. TypeOK /\ TypeOK'
      BY TypeStep DEF OwnInv
    <2> QED  BY <2>1, InTimeStep DEF TypeOK
  <1>2. CASE fetch'[f] = fetch[f] /\ memory' = memory
    <2>1. At(f, "remove") /\ KeyOf(f)' = KeyOf(f) /\ KeyOf(f) \in Key /\ Cached(KeyOf(f))
      BY <1>1, <1>2, KeyType DEF At, KeyOf, Cached
    <2>2. IsOutdated(memory[KeyOf(f)])
      BY <2>1 DEF RemovesOutdated
    <2> QED  BY <1>1, <1>2, <2>1, <2>2, OutdatedStays
  <1>3. CASE Find(f)
    <2> DEFINE k == <<fetch[f].layer, user>>
    <2>1. k \in Key
      BY <1>1 DEF TypeOK, Key, Fetch
    <2>2. /\ Cached(k) /\ IsOutdated(memory[k]) /\ memory' = memory
          /\ fetch' = [fetch EXCEPT ![f].identity = user, ![f].at = "remove"]
      <3>1. memory' = memory
        BY <1>3 DEF Find, disk
      <3>2. ~Over(f)
        BY <1>1 DEF Over, IdleFetch, TypeOK
      <3>3. ~GoTo(f, "request")
        BY <1>1 DEF GoTo, TypeOK, Fetch
      <3> QED  BY <1>3, <3>1, <3>2, <3>3 DEF Find
    <2>3. KeyOf(f)' = k
      BY <1>1, <2>2 DEF KeyOf, TypeOK, Fetch
    <2> HIDE DEF k
    <2> QED  BY <1>1, <2>1, <2>2, <2>3, OutdatedStays
  <1>4. ASSUME FetchExperiment(f) \/ RemoveExperiment(f) \/ Removed(f)
               \/ RequestExperiment(f) \/ HttpFailure(f) \/ Refused(f) \/ SaveToDisk(f)
               \/ Complete(f) \/ \E c \in Content : Answer(f, c)
        PROVE  FALSE
    <2>1. CASE FetchExperiment(f)
      BY <1>1, <2>1 DEF FetchExperiment, IdleFetch, TypeOK
    <2>2. CASE RemoveExperiment(f) \/ Removed(f) \/ SaveToDisk(f)
      BY <1>1, <2>2 DEF RemoveExperiment, Removed, SaveToDisk, GoTo, TypeOK, Fetch
    <2>3. CASE RequestExperiment(f)
      BY <1>1, <2>3 DEF RequestExperiment, Over, IdleFetch, TypeOK, Fetch
    <2>4. CASE HttpFailure(f)
      BY <1>1, <2>4 DEF HttpFailure, Over, IdleFetch, TypeOK, Fetch
    <2>5. CASE Refused(f) \/ Complete(f)
      BY <1>1, <2>5 DEF Refused, Complete, Over, IdleFetch, TypeOK
    <2>6. ASSUME NEW c \in Content, Answer(f, c) PROVE FALSE
      BY <1>1, <2>6 DEF Answer, TypeOK, Fetch
    <2> QED  BY <1>4, <2>1, <2>2, <2>3, <2>4, <2>5, <2>6
  <1>5. CASE WriteFile \/ SetLoginUserId \/ SetDataCollectionEnabled \/ Tick \/ UNCHANGED vars
    BY <1>2, <1>5 DEF WriteFile, SetLoginUserId, SetDataCollectionEnabled, Tick, vars, disk
  <1>6. CASE Crash
    BY <1>6 DEF Crash, IdleFetch
  <1>7. \A g \in Caller : g = f
    BY DEF Alone
  <1> QED  BY <1>3, <1>4, <1>5, <1>6, <1>7 DEF Next, OfFetch

LEMMA NothingPurged ==
    ASSUME RemovesOutdated, purged = {}, [Next]_vars
    PROVE  purged' = {}
  <1>1. ASSUME NEW f \in Caller, RemoveExperiment(f) PROVE purged' = {}
    BY <1>1 DEF RemoveExperiment, RemovesOutdated
  <1> QED
    BY <1>1
    DEF Next, OfFetch, FetchExperiment, Find, Removed, RequestExperiment, HttpFailure, Refused,
        Answer, SaveToDisk, Complete, SetLoginUserId, SetDataCollectionEnabled, Tick, WriteFile,
        Crash, vars, ghosts

(***************************************************************************)
(* An app that has one fetch under way at a time, over any number of       *)
(* them, of users, days and ends of the process: what it was told is in    *)
(* the file for the rest of the day, and a hit is repeated only if the     *)
(* process ended before the app was told of the first.  No removal is      *)
(* excepted.                                                               *)
(***************************************************************************)
THEOREM AloneIsExact ==
    ASSUME Alone
    PROVE  Spec => [](AlwaysDurable /\ AlwaysOneHit)
  <1>1. Init => AloneInv
    BY HitInit DEF Init, AloneInv, RemovesOutdated, At, IdleFetch
  <1>2. AloneInv /\ [Next]_vars => AloneInv'
    <2> SUFFICES ASSUME AloneInv, [Next]_vars PROVE AloneInv'
      OBVIOUS
    <2>1. HitInv'
      BY HitInvStep DEF AloneInv
    <2>2. RemovesOutdated'
      BY RemovesStep DEF AloneInv, HitInv, DurableInv
    <2>3. purged' = {}
      BY NothingPurged DEF AloneInv
    <2> QED  BY <2>1, <2>2, <2>3 DEF AloneInv
  <1>3. AloneInv => AlwaysDurable /\ AlwaysOneHit
    <2>1. AloneInv => AlwaysDurable
      BY DurableMeans DEF AloneInv, HitInv, ToldIsDurable, AlwaysDurable
    <2>2. AloneInv => AlwaysOneHit
      BY DEF AloneInv, HitInv, HitPerChange, OneHitPerDay, AlwaysOneHit
    <2> QED  BY <2>1, <2>2
  <1> QED  BY <1>1, <1>2, <1>3, PTL DEF Spec

-----------------------------------------------------------------------------
(* What there is left to do *)

Position ==
    [idle |-> 0, saving |-> 1, save |-> 2, sent |-> 3, request |-> 4, removing |-> 5,
     remove |-> 6, find |-> 7]

(* The steps a fetch may still take, its retries included. *)
Remaining(f) == 8 * fetch[f].retries + Position[fetch[f].at]

(***************************************************************************)
(* A fetch only comes nearer to its end, whatever the server answers, the  *)
(* other fetches store and the app does meanwhile (fetchExperiment:,       *)
(* GrowingABTesting.m); one that is not under way may begin.               *)
(***************************************************************************)
ComesNearer ==
    \A f \in Caller : fetch'[f] = fetch[f] \/ At(f, "idle") \/ Remaining(f)' < Remaining(f)

(***************************************************************************)
(* The main thread is never held by a fetch that waits for the server, and *)
(* a fetch takes no more steps than its retries allow: what the main       *)
(* thread waits for is a write of the storage.                             *)
(***************************************************************************)
MainIsFree ==
    /\ main # None => ~At(main, "idle") /\ ~At(main, "sent")
    /\ \A f \in Caller : Remaining(f) <= 8 * Retries + 7

RetriesLeft == \A f \in Caller : fetch[f].retries <= Retries

MainInv == main # None => main \in Caller /\ ~At(main, "idle") /\ ~At(main, "sent")

BoundInv == TypeOK /\ RetriesLeft /\ MainInv

LEMMA PositionType ==
    /\ \A s \in Step : Position[s] \in 0 .. 7
    /\ Position["idle"] = 0 /\ \A s \in Step \ {"idle"} : Position[s] > 0
  BY DEF Position, Step

(* What one step makes of the fetch f: its place and what it holds. *)
LEMMA FetchStep ==
    ASSUME TypeOK, NEW f \in Caller, OfFetch(f)
    PROVE  /\ ~At(f, "idle")
           /\ \/ fetch'[f] = IdleFetch /\ Leaves(f)
              \/ /\ fetch'[f].at # "idle" /\ fetch'[f].at # "sent" /\ main' \in {main, f}
                 /\ fetch'[f].retries = fetch[f].retries
                 /\ Position[fetch'[f].at] < Position[fetch[f].at]
              \/ /\ fetch'[f].at = "sent" /\ Leaves(f)
                 /\ fetch'[f].retries = fetch[f].retries /\ At(f, "request")
              \/ /\ fetch'[f].at = "find" /\ main' = f /\ At(f, "sent")
                 /\ fetch[f].retries > 0 /\ fetch'[f].retries = fetch[f].retries - 1
  <1>1. fetch \in [Caller -> Fetch] /\ fetch[f] \in Fetch
    BY DEF TypeOK
  <1>2. CASE Find(f)
    BY <1>1, <1>2 DEF Find, Over, GoTo, At, Position, Fetch
  <1>3. CASE RemoveExperiment(f)
    BY <1>1, <1>3 DEF RemoveExperiment, GoTo, At, Position, Fetch
  <1>4. CASE Removed(f)
    BY <1>1, <1>4 DEF Removed, GoTo, At, Position, Fetch
  <1>5. CASE RequestExperiment(f)
    BY <1>1, <1>5 DEF RequestExperiment, Over, At, Position, Fetch
  <1>6. CASE HttpFailure(f) \/ Refused(f)
    BY <1>1, <1>6 DEF HttpFailure, Refused, Over, At, Position, Fetch
  <1>7. ASSUME NEW c \in Content, Answer(f, c) PROVE /\ At(f, "sent") /\ main' = f
                                                     /\ fetch'[f].at = "save"
                                                     /\ fetch'[f].retries = fetch[f].retries
    BY <1>1, <1>7 DEF Answer, At, Fetch
  <1>8. CASE SaveToDisk(f)
    BY <1>1, <1>8 DEF SaveToDisk, GoTo, At, Position, Fetch
  <1>9. CASE Complete(f)
    BY <1>1, <1>9 DEF Complete, Over, At, Position, Fetch
  <1> QED  BY <1>2, <1>3, <1>4, <1>5, <1>6, <1>7, <1>8, <1>9 DEF OfFetch, At, Position

LEMMA Nearer ==
    ASSUME TypeOK, TypeOK', NEW f \in Caller, OfFetch(f)
    PROVE  Remaining(f)' < Remaining(f)
  <1>1. /\ fetch[f].retries \in Nat /\ fetch[f].at \in Step
        /\ fetch'[f].retries \in Nat /\ fetch'[f].at \in Step
    BY DEF TypeOK, Fetch
  <1> DEFINE a == Position[fetch[f].at]
             b == Position[fetch'[f].at]
             m == fetch[f].retries
             n == fetch'[f].retries
  <1>2. a \in 0 .. 7 /\ b \in 0 .. 7 /\ m \in Nat /\ n \in Nat
    BY <1>1, PositionType
  <1>3. /\ a > 0
        /\ \/ b = 0 /\ n = 0
           \/ n = m /\ b < a
           \/ n = m - 1 /\ a = 3
    <2>1. ~At(f, "idle") /\ a > 0
      BY <1>1, FetchStep, PositionType DEF At
    <2>2. CASE fetch'[f] = IdleFetch
      BY <2>1, <2>2, PositionType DEF IdleFetch
    <2>3. CASE fetch'[f].at = "sent" /\ n = m /\ At(f, "request")
      BY <2>1, <2>3 DEF At, Position
    <2>4. CASE At(f, "sent") /\ n = m - 1
      BY <2>1, <2>4 DEF At, Position
    <2>5. CASE n = m /\ b < a
      BY <2>1, <2>5
    <2> QED  BY <2>2, <2>3, <2>4, <2>5, FetchStep
  <1> HIDE DEF a, b, m, n
  <1>4. 8 * n + b < 8 * m + a
    BY <1>2, <1>3
  <1> QED  BY <1>4 DEF Remaining, a, b, m, n

(* So no fetch goes on for ever, for any number of retries and fetches at once. *)
THEOREM EndsApproach == Spec => [][ComesNearer]_vars
  <1>1. TypeOK /\ TypeOK' /\ [Next]_vars => [ComesNearer]_vars
    <2> SUFFICES ASSUME TypeOK, TypeOK', [Next]_vars, NEW f \in Caller,
                        fetch'[f] # fetch[f], ~At(f, "idle")
                 PROVE  Remaining(f)' < Remaining(f)
      BY DEF ComesNearer
    <2>1. CASE OfFetch(f)
      BY <2>1, Nearer
    <2>2. ASSUME NEW g \in Caller, g # f, FetchExperiment(g) \/ OfFetch(g) PROVE FALSE
      BY <2>2, Others
    <2>3. CASE Crash
      <3>1. fetch'[f] = IdleFetch
        BY <2>3 DEF Crash
      <3>2. Remaining(f)' = 0
        BY <3>1, PositionType DEF Remaining, IdleFetch
      <3>3. fetch[f].retries \in Nat /\ fetch[f].at \in Step \ {"idle"}
        BY DEF TypeOK, Fetch, At
      <3>4. Position[fetch[f].at] \in 0 .. 7 /\ Position[fetch[f].at] > 0
        BY <3>3, PositionType
      <3> QED  BY <3>2, <3>3, <3>4 DEF Remaining
    <2>4. ~FetchExperiment(f)
      BY DEF FetchExperiment
    <2>5. ~ UNCHANGED fetch
      OBVIOUS
    <2> QED  BY <2>1, <2>2, <2>3, <2>4, <2>5
             DEF Next, WriteFile, SetLoginUserId, SetDataCollectionEnabled, Tick, vars
  <1>2. TypeOK /\ [Next]_vars => TypeOK'
    BY TypeStep
  <1> QED  BY <1>1, <1>2, TypeCorrect, PTL DEF Spec

LEMMA BoundStep == BoundInv /\ [Next]_vars => BoundInv'
  <1> SUFFICES ASSUME BoundInv, [Next]_vars PROVE BoundInv'
    OBVIOUS
  <1> USE DEF BoundInv
  <1>1. TypeOK'
    BY TypeStep
  <1>2. CASE UNCHANGED <<fetch, main>>
    BY <1>1, <1>2 DEF RetriesLeft, MainInv, At
  <1>3. ASSUME NEW f \in Caller, FetchExperiment(f) PROVE BoundInv'
    <2>1. PICK l \in Layer :
             fetch' = [fetch EXCEPT ![f] =
                         [IdleFetch EXCEPT !.at = "find", !.layer = l, !.retries = Retries]]
      BY <1>3 DEF FetchExperiment
    <2>2. fetch'[f].at = "find" /\ fetch'[f].retries = Retries
      BY <2>1 DEF TypeOK, IdleFetch
    <2>3. \A g \in Caller : g # f => fetch'[g] = fetch[g]
      BY <1>3, Others
    <2>4. RetriesLeft'
      BY <2>2, <2>3, ABTestingAssumption DEF RetriesLeft
    <2>5. main' \in {main, f} /\ At(f, "idle")
      BY <1>3 DEF FetchExperiment
    <2>6. MainInv'
      BY <2>2, <2>3, <2>5 DEF MainInv, At
    <2> QED  BY <1>1, <2>4, <2>6
  <1>4. ASSUME NEW f \in Caller, OfFetch(f) PROVE BoundInv'
    <2>1. \A g \in Caller : g # f => fetch'[g] = fetch[g]
      BY <1>4, Others
    <2>2. fetch[f].retries \in Nat /\ Retries \in Nat /\ fetch[f].retries <= Retries
      BY ABTestingAssumption DEF TypeOK, Fetch, RetriesLeft
    <2>3. fetch'[f].retries <= Retries
      <3>1. \/ fetch'[f] = IdleFetch
            \/ fetch'[f].retries = fetch[f].retries
            \/ fetch'[f].retries = fetch[f].retries - 1
        BY <1>4, FetchStep
      <3>2. IdleFetch.retries = 0
        BY DEF IdleFetch
      <3> QED  BY <2>2, <3>1, <3>2
    <2>4. RetriesLeft'
      BY <2>1, <2>3 DEF RetriesLeft
    <2>5. \/ main' = None
          \/ main' \in {main, f} /\ fetch'[f].at # "idle" /\ fetch'[f].at # "sent"
          \/ main' = main /\ main # f
      BY <1>4, FetchStep DEF Leaves
    <2>6. MainInv'
      BY <2>1, <2>5 DEF MainInv, At
    <2> QED  BY <1>1, <2>4, <2>6
  <1>5. CASE Crash
    <2>1. main' = None /\ \A f \in Caller : fetch'[f] = IdleFetch
      BY <1>5 DEF Crash
    <2>2. IdleFetch.retries = 0 /\ Retries \in Nat
      BY ABTestingAssumption DEF IdleFetch
    <2>3. RetriesLeft' /\ MainInv'
      BY <2>1, <2>2 DEF RetriesLeft, MainInv
    <2> QED  BY <1>1, <2>3
  <1> QED  BY <1>2, <1>3, <1>4, <1>5
           DEF Next, WriteFile, SetLoginUserId, SetDataCollectionEnabled, Tick, vars

(* The app's main thread is blocked by the storage at most (fetchExperiment:,  *)
(* waitUntilSynchronized), and no fetch exceeds its retries.                   *)
THEOREM MainWaitsForDisk == Spec => []MainIsFree
  <1>1. BoundInv => MainIsFree
    <2> SUFFICES ASSUME BoundInv, NEW f \in Caller
                 PROVE  Remaining(f) <= 8 * Retries + 7
      BY DEF BoundInv, MainInv, MainIsFree
    <2>1. /\ fetch[f].retries \in Nat /\ fetch[f].retries <= Retries /\ Retries \in Nat
          /\ Position[fetch[f].at] \in 0 .. 7
      BY PositionType, ABTestingAssumption DEF BoundInv, TypeOK, Fetch, RetriesLeft
    <2> QED  BY <2>1 DEF Remaining
  <1>2. Init => BoundInv
    <2> SUFFICES ASSUME Init PROVE BoundInv
      OBVIOUS
    <2>1. RetriesLeft /\ MainInv
      BY ABTestingAssumption DEF Init, RetriesLeft, MainInv, IdleFetch
    <2> QED  BY <2>1, TypeInit DEF BoundInv
  <1> QED  BY <1>1, <1>2, BoundStep, PTL DEF Spec

=============================================================================
