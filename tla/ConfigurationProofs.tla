-------------------------- MODULE ConfigurationProofs --------------------------
(***************************************************************************)
(* Proofs about Configuration for any objects in the file, any number of   *)
(* threads and any number of edits: the cache is current and what          *)
(* GetProperty returns was in force during the call.                       *)
(*                                                                         *)
(* Neither is inductive.  What a thread stores it has read in an earlier   *)
(* step; the object cannot change in between because UpdateConfiguration   *)
(* waits until nobody holds the lock (ReadersAreCurrent).  What a thread   *)
(* finds in the cache of an object that is gone is in force only if the    *)
(* cache is empty while caching is off (CacheIsUsed).                      *)
(***************************************************************************)
EXTENDS ConfigurationUpdater, FiniteSetTheorems, TLAPS

\* What a record of thread is made of.
ThreadsAreRecords ==
    /\ DOMAIN thread = Threads
    /\ \A t \in Threads :
          /\ DOMAIN thread[t] = {"at", "job", "key", "value", "seen"}
          /\ thread[t].key \in Keys

ConfigurationTyped ==
    /\ file \in Contents
    /\ caching_ \in BOOLEAN

CacheIsUsed == caching_ = FALSE => DOMAIN cache_values_ = {}

\* A thread that holds the lock has read what it is about to store.
ReadersAreCurrent ==
    \A t \in Threads :
        thread[t].at = "locked" => thread[t].value = config_json_[thread[t].key]

\* What a thread may still find has been in force.
Fresh(t) ==
    /\ thread[t].at \in {"caching", "lookUp"} =>
          InForce(Loaded, thread[t].key) \in thread[t].seen
    /\ thread[t].at = "read" => config_json_[thread[t].key] \in thread[t].seen
    /\ thread[t].at \in {"locked", "return"} => thread[t].value \in thread[t].seen

ConfigurationInv ==
    /\ ThreadsAreRecords
    /\ ConfigurationTyped
    /\ CacheIsUsed
    /\ CacheIsCurrent
    /\ ReadersAreCurrent
    /\ \A t \in Threads : Fresh(t)

-----------------------------------------------------------------------------
\* A load replaces the object and the cache together, empties the object and
\* leaves the cache, or does nothing.
LEMMA LoadResults ==
    ASSUME NEW contents \in Contents, NEW json, NEW cache, NEW caching \in BOOLEAN,
           caching = FALSE => DOMAIN cache = {}
    PROVE  LET old == [json |-> json, caching |-> caching, cache |-> cache]
               loaded == Load(contents, old)
           IN  /\ loaded.caching \in BOOLEAN
               /\ loaded.caching = FALSE => DOMAIN loaded.cache = {}
               /\ \/ loaded = old
                  \/ loaded.json = EmptyObject
                  \/ DOMAIN loaded.cache = {}
<1> DEFINE old == [json |-> json, caching |-> caching, cache |-> cache]
           loaded == Load(contents, old)
<1>1. CASE contents = Unreadable
  BY <1>1 DEF Load
<1>2. CASE contents = Invalid /\ contents # Unreadable
  <2>1. loaded = [old EXCEPT !.json = EmptyObject]
    BY <1>2 DEF Load
  <2>2. /\ loaded.json = EmptyObject
        /\ loaded.caching = caching
        /\ loaded.cache = cache
    BY <2>1
  <2> QED BY <2>2
<1>3. CASE contents # Invalid /\ contents # Unreadable
  <2>1. contents \in Objects
    BY <1>3 DEF Contents
  <2>2. loaded = [json |-> contents, caching |-> UpdateCaching(contents, old.caching),
                  cache |-> MapCleared]
    BY <1>3 DEF Load
  <2>3. UpdateCaching(contents, old.caching) \in BOOLEAN
    BY <2>1, ObjectsAssumption DEF UpdateCaching
  <2>4. DOMAIN loaded.cache = {}
    BY <2>2 DEF MapCleared
  <2> QED BY <2>2, <2>3, <2>4
<1> QED BY <1>1, <1>2, <1>3

\* Load takes and returns such a record.
LEMMA LoadedIsRecord ==
    ASSUME NEW contents
    PROVE  \E j, c, v : Load(contents, Loaded) = [json |-> j, caching |-> c, cache |-> v]
<1>1. CASE contents = Unreadable
  BY <1>1 DEF Load, Loaded
<1>2. CASE contents = Invalid /\ contents # Unreadable
  <2>1. Load(contents, Loaded) = [Loaded EXCEPT !.json = EmptyObject]
    BY <1>2 DEF Load
  <2>2. @ = [json |-> EmptyObject, caching |-> caching_, cache |-> cache_values_]
    BY DEF Loaded
  <2> QED BY <2>1, <2>2
<1>3. CASE contents # Invalid /\ contents # Unreadable
  BY <1>3 DEF Load
<1> QED BY <1>1, <1>2, <1>3

\* UpdateConfiguration under the exclusive lock.
LEMMA LoadPreserves ==
    ASSUME ConfigurationInv, NEW t \in Threads, NEW next \in {"read", "notify"},
           UpdateConfiguration(t, next),
           next = "read" => Reading(t)
    PROVE  ConfigurationInv'
<1> DEFINE loaded == Load(file, Loaded)
<1> USE DEF ConfigurationInv, ThreadsAreRecords, ConfigurationTyped
<1>1. /\ config_json_' = loaded.json
      /\ caching_' = loaded.caching
      /\ cache_values_' = loaded.cache
      /\ thread' = [u \in Threads |->
                 [thread[u] EXCEPT
                     !.at = IF u = t THEN next ELSE @,
                     !.seen = IF Reading(u)
                              THEN @ \cup {loaded.json[thread[u].key],
                                           InForce(loaded, thread[u].key)}
                              ELSE @]]
      /\ file' = file
  BY DEF UpdateConfiguration
<1>2. /\ loaded.caching \in BOOLEAN
      /\ loaded.caching = FALSE => DOMAIN loaded.cache = {}
      /\ \/ loaded = Loaded
         \/ loaded.json = EmptyObject
         \/ DOMAIN loaded.cache = {}
  BY LoadResults DEF Loaded, CacheIsUsed
<1>3. \A u \in Threads : thread[u].at # "locked"
  BY DEF UpdateConfiguration, LockIsFree
<1> HIDE DEF loaded
<1>4. ASSUME NEW u \in Threads
      PROVE  /\ DOMAIN thread'[u] = {"at", "job", "key", "value", "seen"}
             /\ thread'[u].key = thread[u].key
             /\ thread'[u].value = thread[u].value
             /\ thread'[u].at = IF u = t THEN next ELSE thread[u].at
             /\ thread'[u].seen =
                   IF Reading(u) THEN thread[u].seen \cup
                        {loaded.json[thread[u].key], InForce(loaded, thread[u].key)}
                   ELSE thread[u].seen
  BY <1>1
<1>5. ThreadsAreRecords'
  <2>1. DOMAIN thread' = Threads
    BY <1>1
  <2> QED BY <2>1, <1>4
<1>6. ConfigurationTyped' /\ CacheIsUsed'
  BY <1>1, <1>2 DEF CacheIsUsed
<1>7. CacheIsCurrent'
  <2>1. CASE loaded = Loaded
    <3>1. config_json_' = config_json_ /\ cache_values_' = cache_values_
      BY <1>1, <2>1 DEF Loaded
    <3> QED BY <3>1 DEF CacheIsCurrent
  <2>2. CASE loaded.json = EmptyObject
    BY <1>1, <2>2 DEF CacheIsCurrent
  <2>3. CASE DOMAIN loaded.cache = {}
    BY <1>1, <2>3 DEF CacheIsCurrent
  <2> QED BY <1>2, <2>1, <2>2, <2>3
<1>8. ReadersAreCurrent'
  BY <1>3, <1>4 DEF ReadersAreCurrent
<1>9. ASSUME NEW u \in Threads
      PROVE  Fresh(u)'
  <2>1. Loaded' = loaded
    <3>1. \/ loaded = Loaded
          \/ \E j, c, v : loaded = [json |-> j, caching |-> c, cache |-> v]
      BY LoadedIsRecord DEF loaded
    <3> QED BY <1>1, <3>1 DEF Loaded
  <2>2. CASE Reading(u)
    <3>1. /\ thread'[u].at \in {"caching", "lookUp"} =>
                InForce(loaded, thread'[u].key) \in thread'[u].seen
          /\ thread'[u].at = "read" => loaded.json[thread'[u].key] \in thread'[u].seen
      BY <1>4, <2>2
    <3>2. thread'[u].at \notin {"locked", "return"}
      BY <1>3, <1>4, <2>2 DEF Reading
    <3> QED BY <1>1, <2>1, <3>1, <3>2 DEF Fresh
  <2>3. CASE ~Reading(u)
    <3>1. thread[u].at \notin {"caching", "lookUp", "reload", "read"}
      BY <2>3 DEF Reading
    <3>2. CASE u = t
      BY <1>4, <2>3, <3>1, <3>2 DEF Fresh
    <3>3. CASE u # t
      BY <1>4, <2>3, <3>1, <3>3 DEF Fresh
    <3> QED BY <3>2, <3>3
  <2> QED BY <2>2, <2>3
<1> QED BY <1>5, <1>6, <1>7, <1>8, <1>9

\* A step that leaves the configuration alone and after which t is not inside
\* GetProperty, or at its beginning.
LEMMA OutsidePreserves ==
    ASSUME ConfigurationInv, UNCHANGED config_vars, file' \in Contents,
           NEW t \in Threads,
           \/ Finish(t)
           \/ \E job \in Jobs, key \in Keys : Call(t, job, key)
           \/ thread' = [thread EXCEPT ![t].at = "exited"]
           \/ thread' = [thread EXCEPT ![t].at = "load", ![t].job = "update"]
    PROVE  ConfigurationInv'
<1> USE DEF ConfigurationInv, ThreadsAreRecords
<1>1. DOMAIN thread' = Threads /\ \A u \in Threads \ {t} : thread'[u] = thread[u]
  BY DEF Finish, Call
<1>2. /\ DOMAIN thread'[t] = {"at", "job", "key", "value", "seen"}
      /\ thread'[t].key \in Keys
      /\ \/ thread'[t].at \in {"idle", "exited", "load"}
         \/ /\ thread'[t].at = "caching"
            /\ InForce(Loaded, thread'[t].key) \in thread'[t].seen
  <2>1. CASE Finish(t)
    <3>1. thread'[t] = Idle
      BY <2>1 DEF Finish
    <3> QED BY <3>1 DEF Idle, Keys
  <2>2. ASSUME NEW job \in Jobs, NEW key \in Keys, Call(t, job, key)
        PROVE  <1>2!:
    <3>1. thread'[t] = [at |-> "caching", job |-> job, key |-> key,
                        value |-> Missing, seen |-> {InForce(Loaded, key)}]
      BY <2>2 DEF Call
    <3> QED BY <3>1
  <2>3. CASE thread' = [thread EXCEPT ![t].at = "exited"]
    BY <2>3
  <2>4. CASE thread' = [thread EXCEPT ![t].at = "load", ![t].job = "update"]
    BY <2>4
  <2> QED BY <2>1, <2>2, <2>3, <2>4
<1>3. /\ config_json_' = config_json_ /\ caching_' = caching_
      /\ cache_values_' = cache_values_
  BY DEF config_vars
<1>4. ThreadsAreRecords' /\ ConfigurationTyped' /\ CacheIsUsed' /\ CacheIsCurrent'
  BY <1>1, <1>2, <1>3 DEF ConfigurationTyped, CacheIsUsed, CacheIsCurrent
<1>5. ReadersAreCurrent'
  BY <1>1, <1>2, <1>3 DEF ReadersAreCurrent
<1>6. Loaded' = Loaded
  BY <1>3 DEF Loaded
<1>7. ASSUME NEW u \in Threads
      PROVE  Fresh(u)'
  <2>1. CASE u = t
    BY <1>2, <1>3, <1>6, <2>1 DEF Fresh
  <2>2. CASE u # t
    BY <1>1, <1>3, <1>6, <2>2 DEF Fresh
  <2> QED BY <2>1, <2>2
<1> QED BY <1>4, <1>5, <1>7

\* A step of GetProperty that only moves t on, with a value.
LEMMA GotoPreserves ==
    ASSUME ConfigurationInv, NEW t \in Threads, NEW label, NEW value,
           Goto(t, label, value), UNCHANGED <<file, config_vars>>,
           label = "locked" => value = config_json_[thread[t].key],
           label \in {"caching", "lookUp"} =>
               InForce(Loaded, thread[t].key) \in thread[t].seen,
           label = "read" => config_json_[thread[t].key] \in thread[t].seen,
           label \in {"locked", "return"} => value \in thread[t].seen
    PROVE  ConfigurationInv'
<1> USE DEF ConfigurationInv, ThreadsAreRecords
<1>1. DOMAIN thread' = Threads /\ \A u \in Threads \ {t} : thread'[u] = thread[u]
  BY DEF Goto
<1>2. /\ DOMAIN thread'[t] = {"at", "job", "key", "value", "seen"}
      /\ thread'[t].key = thread[t].key /\ thread'[t].seen = thread[t].seen
      /\ thread'[t].at = label /\ thread'[t].value = value
  BY DEF Goto
<1>3. /\ config_json_' = config_json_ /\ caching_' = caching_
      /\ cache_values_' = cache_values_ /\ file' = file
  BY DEF config_vars
<1>4. ThreadsAreRecords' /\ ConfigurationTyped' /\ CacheIsUsed' /\ CacheIsCurrent'
  BY <1>1, <1>2, <1>3 DEF ConfigurationTyped, CacheIsUsed, CacheIsCurrent
<1>5. ReadersAreCurrent'
  BY <1>1, <1>2, <1>3 DEF ReadersAreCurrent
<1>6. Loaded' = Loaded
  BY <1>3 DEF Loaded
<1>7. ASSUME NEW u \in Threads
      PROVE  Fresh(u)'
  <2>1. CASE u = t
    BY <1>2, <1>3, <1>6, <2>1 DEF Fresh
  <2>2. CASE u # t
    BY <1>1, <1>3, <1>6, <2>2 DEF Fresh
  <2> QED BY <2>1, <2>2
<1> QED BY <1>4, <1>5, <1>7

\* Storing what was read: whoever else looks for it finds what the object has.
LEMMA StorePreserves ==
    ASSUME ConfigurationInv, NEW t \in Threads, Store(t)
    PROVE  ConfigurationInv'
<1> USE DEF ConfigurationInv, ThreadsAreRecords
<1> DEFINE key == thread[t].key
           value == thread[t].value
<1>1. /\ thread[t].at = "locked"
      /\ config_json_' = config_json_ /\ caching_' = caching_ /\ file' = file
      /\ cache_values_' = IF caching_ /\ value # Missing
                          THEN MapSet(cache_values_, key, value) ELSE cache_values_
      /\ Goto(t, "return", value)
  BY DEF Store
<1>2. value = config_json_[key]
  BY <1>1 DEF ReadersAreCurrent
<1>3. DOMAIN thread' = Threads /\ \A u \in Threads \ {t} : thread'[u] = thread[u]
  BY <1>1 DEF Goto
<1>4. /\ DOMAIN thread'[t] = {"at", "job", "key", "value", "seen"}
      /\ thread'[t].key = key /\ thread'[t].seen = thread[t].seen
      /\ thread'[t].at = "return" /\ thread'[t].value = value
  BY <1>1 DEF Goto
<1>5. ThreadsAreRecords' /\ ConfigurationTyped'
  BY <1>1, <1>3, <1>4 DEF ConfigurationTyped
<1>6. CacheIsUsed'
  BY <1>1 DEF CacheIsUsed, ConfigurationTyped
<1>7. CacheIsCurrent'
  BY <1>1, <1>2 DEF CacheIsCurrent, MapSet
<1>8. ReadersAreCurrent'
  BY <1>1, <1>3, <1>4 DEF ReadersAreCurrent
<1>9. \A k \in Keys : InForce(Loaded', k) = InForce(Loaded, k)
  <2>1. CASE cache_values_' = cache_values_
    BY <1>1, <2>1 DEF Loaded
  <2>2. CASE value # Missing
    <3>1. config_json_ # EmptyObject
      BY <1>2, <2>2 DEF EmptyObject
    <3> QED BY <1>1, <3>1 DEF InForce, Loaded
  <2> QED BY <1>1, <2>1, <2>2
<1>10. ASSUME NEW u \in Threads
       PROVE  Fresh(u)'
  <2>1. CASE u = t
    BY <1>1, <1>4, <2>1 DEF Fresh
  <2>2. CASE u # t
    <3>1. thread'[u] = thread[u] /\ thread[u].key \in Keys
      BY <1>3, <2>2
    <3>2. InForce(Loaded', thread'[u].key) = InForce(Loaded, thread[u].key)
      BY <1>9, <3>1
    <3> QED BY <1>1, <3>1, <3>2 DEF Fresh
  <2> QED BY <2>1, <2>2
<1> QED BY <1>5, <1>6, <1>7, <1>8, <1>10

\* Every step of GetProperty.
LEMMA GetPropertyPreserves ==
    ASSUME ConfigurationInv, NEW t \in Threads, GetPropertyStep(t)
    PROVE  ConfigurationInv'
<1> DEFINE key == thread[t].key
<1>0. Fresh(t) /\ key \in Keys /\ caching_ \in BOOLEAN
  BY DEF ConfigurationInv, ThreadsAreRecords, ConfigurationTyped
<1>1. CASE TestCaching(t)
  <2>1. InForce(Loaded, key) \in thread[t].seen
    BY <1>0, <1>1 DEF TestCaching, Fresh
  <2>2. \E label \in {"lookUp", "reload"} : Goto(t, label, Missing)
    BY <1>1 DEF TestCaching
  <2>3. UNCHANGED <<file, config_vars>>
    BY <1>1 DEF TestCaching
  <2> QED BY <2>1, <2>2, <2>3, GotoPreserves
<1>2. CASE LookUp(t)
  <2> DEFINE value == MapGet(cache_values_, key)
  <2>1. InForce(Loaded, key) \in thread[t].seen
    BY <1>0, <1>2 DEF LookUp, Fresh
  <2>2. /\ Goto(t, IF value # Missing THEN "return" ELSE "read", value)
        /\ UNCHANGED <<file, config_vars>>
    BY <1>2 DEF LookUp
  <2>3. value # Missing => value = InForce(Loaded, key)
    <3>1. SUFFICES ASSUME value # Missing PROVE value = InForce(Loaded, key)
      OBVIOUS
    <3>2. key \in DOMAIN cache_values_ /\ value = cache_values_[key]
      BY <3>1 DEF MapGet
    <3>3. caching_ = TRUE
      BY <1>0, <3>2 DEF ConfigurationInv, CacheIsUsed
    <3>4. CASE config_json_ = EmptyObject
      BY <3>3, <3>4 DEF InForce, Loaded
    <3>5. CASE config_json_ # EmptyObject
      <4>1. value = config_json_[key]
        BY <3>2, <3>5 DEF ConfigurationInv, CacheIsCurrent
      <4> QED BY <3>5, <4>1 DEF InForce, Loaded
    <3> QED BY <3>4, <3>5
  <2>4. value = Missing => config_json_[key] = InForce(Loaded, key)
    <3>1. CASE config_json_ = EmptyObject
      <4>1. config_json_[key] = Missing
        BY <1>0, <3>1 DEF EmptyObject
      <4> QED BY <4>1 DEF InForce, Loaded
    <3>2. CASE config_json_ # EmptyObject
      BY <3>2 DEF InForce, Loaded
    <3> QED BY <3>1, <3>2
  <2> HIDE DEF value
  <2>5. CASE value # Missing
    <3>1. Goto(t, "return", value)
      BY <2>2, <2>5
    <3> QED BY <2>1, <2>2, <2>3, <2>5, <3>1, GotoPreserves
  <2>6. CASE value = Missing
    <3>1. Goto(t, "read", value)
      BY <2>2, <2>6
    <3> QED BY <2>1, <2>2, <2>4, <2>6, <3>1, GotoPreserves
  <2> QED BY <2>5, <2>6
<1>3. CASE Reload(t)
  BY <1>3, LoadPreserves DEF Reload, Reading
<1>4. CASE Read(t)
  <2>1. /\ config_json_[key] \in thread[t].seen
        /\ Goto(t, "locked", config_json_[key])
        /\ UNCHANGED <<file, config_vars>>
    BY <1>0, <1>4 DEF Read, Fresh
  <2> QED BY <2>1, GotoPreserves
<1>5. CASE Store(t)
  BY <1>5, StorePreserves
<1> QED BY <1>1, <1>2, <1>3, <1>4, <1>5 DEF GetPropertyStep

\* A step that changes the file at most.
LEMMA NothingPreserves ==
    ASSUME ConfigurationInv, UNCHANGED <<config_vars, thread>>, file' \in Contents
    PROVE  ConfigurationInv'
<1>1. /\ config_json_' = config_json_ /\ caching_' = caching_
      /\ cache_values_' = cache_values_ /\ thread' = thread
  BY DEF config_vars
<1>2. /\ ThreadsAreRecords' /\ ConfigurationTyped' /\ CacheIsUsed'
      /\ CacheIsCurrent' /\ ReadersAreCurrent'
  BY <1>1 DEF ConfigurationInv, ThreadsAreRecords, ConfigurationTyped,
              CacheIsUsed, CacheIsCurrent, ReadersAreCurrent
<1>3. ASSUME NEW u \in Threads PROVE Fresh(u)'
  <2>1. Loaded' = Loaded
    BY <1>1 DEF Loaded
  <2> QED BY <1>1, <2>1 DEF ConfigurationInv, Fresh
<1> QED BY <1>2, <1>3 DEF ConfigurationInv

LEMMA ConfigurationInvInit == Init => ConfigurationInv
<1> SUFFICES ASSUME Init PROVE ConfigurationInv
  OBVIOUS
<1> DEFINE old == [json |-> EmptyObject, caching |-> kDefaultCaching_,
                   cache |-> MapCleared]
           loaded == Load(file, old)
<1>1. /\ file \in Contents
      /\ config_json_ = loaded.json
      /\ caching_ = loaded.caching
      /\ cache_values_ = loaded.cache
      /\ thread = [t \in Threads |-> Idle]
  BY DEF Init, ConfigurationInit
<1>2. DOMAIN MapCleared = {} /\ kDefaultCaching_ \in BOOLEAN
  BY DEF MapCleared, kDefaultCaching_
<1>3. /\ loaded.caching \in BOOLEAN
      /\ loaded.caching = FALSE => DOMAIN loaded.cache = {}
      /\ \/ loaded = old
         \/ loaded.json = EmptyObject
         \/ DOMAIN loaded.cache = {}
  BY <1>1, <1>2, LoadResults
<1>4. old.json = EmptyObject
  OBVIOUS
<1> HIDE DEF loaded, old
<1>5. ConfigurationTyped /\ CacheIsUsed
  BY <1>1, <1>3 DEF ConfigurationTyped, CacheIsUsed
<1>6. CacheIsCurrent
  BY <1>1, <1>3, <1>4 DEF CacheIsCurrent
<1>7. /\ DOMAIN thread = Threads
      /\ \A t \in Threads : thread[t] = Idle
  BY <1>1
<1>8. /\ DOMAIN Idle = {"at", "job", "key", "value", "seen"}
      /\ Idle.key \in Keys /\ Idle.at = "idle"
  BY DEF Idle, Keys
<1>9. ThreadsAreRecords /\ ReadersAreCurrent /\ \A t \in Threads : Fresh(t)
  BY <1>7, <1>8 DEF ThreadsAreRecords, ReadersAreCurrent, Fresh
<1> QED BY <1>5, <1>6, <1>9 DEF ConfigurationInv

LEMMA ConfigurationInvStep ==
    ASSUME ConfigurationInv, [Next]_vars
    PROVE  ConfigurationInv'
<1>1. Main \in Threads /\ UserThreads \subseteq Threads /\ IoThreads \subseteq Threads
  BY UpdaterAssumption
<1>2. file \in Contents
  BY DEF ConfigurationInv, ConfigurationTyped
<1>3. /\ \A job \in {"update", "schedule", "listener", "count", "request"} : job \in Jobs
      /\ \A key \in {"configuration_updating_period", "log_severity_level",
                     "task_manager_user_thread_count", "operator_count"} : key \in Keys
  BY DEF Jobs, Keys
<1>4. CASE MainStep
  <2>1. CASE CreateUpdater \/ StartUpdating \/ StartSinkUpdate
    <3>1. /\ UNCHANGED config_vars /\ file' = file
          /\ \E job \in Jobs, key \in Keys : Call(Main, job, key)
      BY <1>3, <2>1 DEF CreateUpdater, StartUpdating, StartSinkUpdate, MainCalls
    <3> QED BY <1>1, <1>2, <3>1, OutsidePreserves
  <2>2. CASE Start
    <3>1. UNCHANGED config_vars /\ file' = file
      BY <2>2 DEF Start
    <3>2. \/ UNCHANGED thread
          \/ \E job \in Jobs, key \in Keys : Call(Main, job, key)
      BY <1>3, <2>2 DEF Start
    <3> QED BY <1>1, <1>2, <3>1, <3>2, OutsidePreserves, NothingPreserves
  <2>3. CASE UpdaterCreated \/ AddThreads
    <3>1. UNCHANGED config_vars /\ file' = file /\ Finish(Main)
      BY <2>3 DEF UpdaterCreated, AddThreads
    <3> QED BY <1>1, <1>2, <3>1, OutsidePreserves
  <2>4. CASE JoinThreads
    BY <1>2, <2>4, NothingPreserves DEF JoinThreads
  <2> QED BY <1>4, <2>1, <2>2, <2>3, <2>4 DEF MainStep
<1>5. ASSUME NEW t \in Threads, Continue(t)
      PROVE  ConfigurationInv'
  <2>1. CASE GetPropertyStep(t)
    BY <2>1, GetPropertyPreserves
  <2>2. CASE ScheduleUpdating(t) \/ RequestDone(t)
    <3>1. UNCHANGED config_vars /\ file' = file /\ Finish(t)
      BY <2>2 DEF ScheduleUpdating, RequestDone
    <3> QED BY <1>2, <3>1, OutsidePreserves
  <2>3. CASE UpdateSeverityLevel(t) \/ NotifyListeners(t)
    <3>1. /\ UNCHANGED config_vars /\ file' = file
          /\ \/ Finish(t)
             \/ \E job \in Jobs, key \in Keys : Call(t, job, key)
      BY <1>3, <2>3 DEF UpdateSeverityLevel, NotifyListeners
    <3> QED BY <1>2, <3>1, OutsidePreserves
  <2>4. CASE LoadUpdate(t)
    BY <2>4, LoadPreserves DEF LoadUpdate
  <2> QED BY <1>5, <2>1, <2>2, <2>3, <2>4 DEF Continue
<1>6. ASSUME NEW t \in Threads, Exit(t) PROVE ConfigurationInv'
  BY <1>2, <1>6, OutsidePreserves DEF Exit
<1>7. ASSUME NEW t \in UserThreads, RunUpdate(t) PROVE ConfigurationInv'
  BY <1>1, <1>2, <1>7, OutsidePreserves DEF RunUpdate
<1>8. ASSUME NEW t \in IoThreads, Request(t) PROVE ConfigurationInv'
  <2>1. /\ UNCHANGED config_vars /\ file' = file
        /\ \E job \in Jobs, key \in Keys : Call(t, job, key)
    BY <1>3, <1>8 DEF Request
  <2> QED BY <1>1, <1>2, <2>1, OutsidePreserves
<1>9. CASE Stop \/ Edit \/ Rest \/ UNCHANGED vars
  <2>1. UNCHANGED <<config_vars, thread>> /\ file' \in Contents
    BY <1>2, <1>9 DEF Stop, Edit, EditFile, Rest, vars
  <2> QED BY <2>1, NothingPreserves
<1> QED BY <1>4, <1>5, <1>6, <1>7, <1>8, <1>9 DEF Next

\* The inductive invariant of the configuration.
THEOREM ConfigurationInvariant == Spec => []ConfigurationInv
BY ConfigurationInvInit, ConfigurationInvStep, PTL DEF Spec

-----------------------------------------------------------------------------
\* However loads and reads interleave, the cache never holds what the object no
\* longer has, except after a file that does not parse.
THEOREM CacheIsCurrentTheorem == Spec => []CacheIsCurrent
<1>1. ConfigurationInv => CacheIsCurrent
  BY DEF ConfigurationInv
<1> QED BY <1>1, ConfigurationInvariant, PTL

\* GetProperty, which reads the flag, the cache and the object at different
\* moments, returns what was in force at one moment of the call.
THEOREM AnswersAreFreshTheorem == Spec => []AnswersAreFresh
<1>1. ConfigurationInv => AnswersAreFresh
  BY DEF ConfigurationInv, AnswersAreFresh, Fresh
<1> QED BY <1>1, ConfigurationInvariant, PTL
-----------------------------------------------------------------------------
(* The chain of updates.  That there is always one update is not inductive *)
(* either: whether a step of main begins a chain depends on the statement  *)
(* that has made the call, whether a user thread continues one on the job  *)
(* it has, and before Start nobody but main does anything at all.          *)

\* What a thread does, and where it is in it.
JobFits(t) ==
    /\ thread[t].job = "none" <=> thread[t].at \in {"idle", "exited"}
    /\ thread[t].at \in {"load", "notify"} => t \in UserThreads
    /\ t \in UserThreads => /\ thread[t].job \in {"none", "update", "listener", "schedule"}
                            /\ thread[t].job = "update" <=> thread[t].at \in {"load", "notify"}
    /\ t \in IoThreads => thread[t].job \in {"none", "request"}

\* Every statement of main makes the call that is its own.
MainFits ==
    /\ main \in Statements
    /\ thread[Main].job \in {"none", "update", "schedule", "listener", "count"}
    /\ thread[Main].at # "exited"
    /\ thread[Main].job = "update" => main = "Create"
    /\ thread[Main].job = "schedule" => main = "StartUpdating"
    /\ thread[Main].job = "listener" => main = "StartSinkUpdate"
    /\ thread[Main].job = "count" => main = "Start"

\* Only the threads of the pools do anything, and Start fills the pools.
PoolFits ==
    /\ pool \subseteq IoThreads \cup UserThreads
    /\ \A t \in (IoThreads \cup UserThreads) \ pool : thread[t].job = "none"
    /\ main \in {"Create", "StartUpdating", "StartSinkUpdate", "Start"} => pool = {}

\* No update before StartUpdating, one afterwards.
ChainFits ==
    IF main \in {"Create", "StartUpdating"} THEN updates = 0 /\ Updating = {}
    ELSE \/ updates = 1 /\ Updating = {}
         \/ updates = 0 /\ \E t \in UserThreads : Updating = {t}

ChainInv ==
    /\ ThreadsAreRecords
    /\ \A t \in Threads : JobFits(t)
    /\ MainFits
    /\ PoolFits
    /\ ChainFits

\* The threads of main and of the pools are different ones.
LEMMA ThreadKinds ==
    /\ Main \in Threads /\ Main \notin UserThreads /\ Main \notin IoThreads
    /\ UserThreads \subseteq Threads /\ IoThreads \subseteq Threads
    /\ \A t \in Threads : t = Main \/ t \in UserThreads \/ t \in IoThreads
    /\ \A t \in UserThreads : t \notin IoThreads
BY UpdaterAssumption

LEMMA ChainInvInit == Init => ChainInv
<1> SUFFICES ASSUME Init PROVE ChainInv
  OBVIOUS
<1>1. /\ DOMAIN thread = Threads
      /\ \A t \in Threads : thread[t] = Idle
      /\ main = "Create" /\ pool = {} /\ updates = 0
  BY DEF Init
<1>2. /\ DOMAIN Idle = {"at", "job", "key", "value", "seen"}
      /\ Idle.key \in Keys /\ Idle.at = "idle" /\ Idle.job = "none"
  BY DEF Idle, Keys
<1>3. ThreadsAreRecords /\ \A t \in Threads : JobFits(t)
  BY <1>1, <1>2 DEF ThreadsAreRecords, JobFits
<1>4. MainFits /\ PoolFits
  BY <1>1, <1>2, ThreadKinds DEF MainFits, PoolFits, Statements
<1>5. Updating = {}
  BY <1>1, <1>2, ThreadKinds DEF Updating
<1> QED BY <1>1, <1>3, <1>4, <1>5 DEF ChainInv, ChainFits

\* A step that leaves every job as it is, and main, the pools and the timers.
LEMMA JobsStay ==
    ASSUME ChainInv, ThreadsAreRecords', NEW t \in Threads,
           UNCHANGED <<main, pool, updates>>,
           \A u \in Threads : thread'[u].job = thread[u].job,
           \A u \in Threads \ {t} : thread'[u].at = thread[u].at,
           JobFits(t)', t = Main => thread'[t].at # "exited"
    PROVE  ChainInv'
<1> USE ThreadKinds DEF ChainInv
<1>1. \A u \in Threads : JobFits(u)'
  BY DEF JobFits
<1>2. MainFits' /\ PoolFits'
  BY DEF MainFits, PoolFits
<1>3. Updating' = Updating
  BY DEF Updating
<1> QED BY <1>1, <1>2, <1>3 DEF ChainFits

\* A step in which t only gets another job: what the rest of the invariant
\* then asks for.
LEMMA JobChanges ==
    ASSUME ChainInv, ThreadsAreRecords', NEW t \in Threads,
           pool' = pool,
           \A u \in Threads \ {t} : thread'[u] = thread[u],
           JobFits(t)',
           MainFits', t # Main => t \in pool,
           main' \in {"Create", "StartUpdating", "StartSinkUpdate", "Start"} =>
               main \in {"Create", "StartUpdating", "StartSinkUpdate", "Start"},
           ChainFits'
    PROVE  ChainInv'
<1> USE ThreadKinds DEF ChainInv
<1>1. \A u \in Threads : JobFits(u)'
  BY DEF JobFits
<1>2. PoolFits'
  BY DEF PoolFits
<1> QED BY <1>1, <1>2

\* The job of a thread that ends what it does, or calls GetProperty.
LEMMA FinishedOrCalled ==
    ASSUME ThreadsAreRecords, NEW t \in Threads
    PROVE  /\ Finish(t) => /\ thread'[t].job = "none" /\ thread'[t].at = "idle"
                           /\ \A u \in Threads \ {t} : thread'[u] = thread[u]
           /\ \A job, key : Call(t, job, key) =>
                 /\ thread'[t].job = job /\ thread'[t].at = "caching"
                 /\ \A u \in Threads \ {t} : thread'[u] = thread[u]
<1>1. ASSUME Finish(t)
      PROVE  /\ thread'[t].job = "none" /\ thread'[t].at = "idle"
             /\ \A u \in Threads \ {t} : thread'[u] = thread[u]
  BY <1>1 DEF Finish, Idle, ThreadsAreRecords
<1>2. ASSUME NEW job, NEW key, Call(t, job, key)
      PROVE  /\ thread'[t].job = job /\ thread'[t].at = "caching"
             /\ \A u \in Threads \ {t} : thread'[u] = thread[u]
  <2>1. thread'[t] = [at |-> "caching", job |-> job, key |-> key,
                      value |-> Missing, seen |-> {InForce(Loaded, key)}]
    BY <1>2 DEF Call, ThreadsAreRecords
  <2>2. \A u \in Threads \ {t} : thread'[u] = thread[u]
    BY <1>2 DEF Call, ThreadsAreRecords
  <2> QED BY <2>1, <2>2
<1> QED BY <1>1, <1>2

\* A load changes no job, and of the labels only that of the thread that loads.
LEMMA LoadKeepsJobs ==
    ASSUME ThreadsAreRecords, NEW t \in Threads, NEW next, UpdateConfiguration(t, next)
    PROVE  \A u \in Threads : /\ thread'[u].job = thread[u].job
                              /\ thread'[u].at = IF u = t THEN next ELSE thread[u].at
<1> USE DEF ThreadsAreRecords
<1> DEFINE loaded == Load(file, Loaded)
<1>1. thread' = [u \in Threads |->
                 [thread[u] EXCEPT
                     !.at = IF u = t THEN next ELSE @,
                     !.seen = IF Reading(u)
                              THEN @ \cup {loaded.json[thread[u].key],
                                           InForce(loaded, thread[u].key)}
                              ELSE @]]
  BY DEF UpdateConfiguration
<1> HIDE DEF loaded
<1> QED BY <1>1

\* A step of GetProperty changes no job, and only the label of its thread.
LEMMA GetPropertyKeepsJobs ==
    ASSUME ThreadsAreRecords, NEW t \in Threads, GetPropertyStep(t)
    PROVE  /\ \A u \in Threads : thread'[u].job = thread[u].job
           /\ \A u \in Threads \ {t} : thread'[u].at = thread[u].at
           /\ thread[t].at \in {"caching", "lookUp", "reload", "read", "locked"}
           /\ thread'[t].at \in {"lookUp", "reload", "read", "locked", "return"}
<1>1. CASE Reload(t)
  BY <1>1, LoadKeepsJobs DEF Reload
<1>2. CASE ~Reload(t)
  <2>1. /\ thread[t].at \in {"caching", "lookUp", "reload", "read", "locked"}
        /\ \E label \in {"lookUp", "reload", "read", "locked", "return"} : \E value :
              Goto(t, label, value)
    BY <1>2, Zenon DEF GetPropertyStep, TestCaching, LookUp, Read, Store
  <2>2. PICK label \in {"lookUp", "reload", "read", "locked", "return"} : \E value :
            thread' = [thread EXCEPT ![t].at = label, ![t].value = value]
    BY <2>1 DEF Goto
  <2> QED BY <2>1, <2>2 DEF ThreadsAreRecords
<1> QED BY <1>1, <1>2

\* A step of GetProperty goes on with the same job.
LEMMA GetPropertyKeepsChain ==
    ASSUME ChainInv, ThreadsAreRecords', NEW t \in Threads, GetPropertyStep(t),
           UNCHANGED <<main, manager_vars, updater_vars>>
    PROVE  ChainInv'
<1> USE DEF ChainInv
<1>1. /\ \A u \in Threads : thread'[u].job = thread[u].job
      /\ \A u \in Threads \ {t} : thread'[u].at = thread[u].at
      /\ thread[t].at \in {"caching", "lookUp", "reload", "read", "locked"}
      /\ thread'[t].at \in {"lookUp", "reload", "read", "locked", "return"}
  BY GetPropertyKeepsJobs
<1>2. JobFits(t)'
  BY <1>1 DEF JobFits
<1> QED BY <1>1, <1>2, JobsStay DEF manager_vars, updater_vars

\* The statements of main: a call begins, or its result is used.
LEMMA MainStepKeepsChain ==
    ASSUME ChainInv, ThreadsAreRecords', MainStep
    PROVE  ChainInv'
<1> USE ThreadKinds DEF ChainInv, manager_vars, updater_vars
<1>0. /\ thread[Main].job = "none" => thread[Main].at = "idle"
      /\ main \in Statements
  BY DEF JobFits, MainFits
<1>2. ASSUME \A u \in Threads \ {Main} : thread'[u] = thread[u]
      PROVE  Updating' = Updating
  BY <1>2 DEF Updating
<1>3. ASSUME NEW statement, NEW job, NEW key, MainCalls(statement, job, key),
             \/ statement = "Create" /\ job = "update"
             \/ statement = "StartUpdating" /\ job = "schedule"
             \/ statement = "StartSinkUpdate" /\ job = "listener"
      PROVE  ChainInv'
  <2>1. /\ thread'[Main].job = job /\ thread'[Main].at = "caching"
        /\ \A u \in Threads \ {Main} : thread'[u] = thread[u]
        /\ main = statement /\ UNCHANGED <<main, pool, updates>>
    BY <1>3, FinishedOrCalled DEF MainCalls
  <2>2. JobFits(Main)' /\ MainFits'
    BY <1>3, <2>1 DEF JobFits, MainFits
  <2>3. ChainFits'
    BY <1>2, <2>1 DEF ChainFits
  <2> QED BY <2>1, <2>2, <2>3, JobChanges
<1>4. CASE CreateUpdater \/ StartUpdating \/ StartSinkUpdate
  BY <1>3, <1>4 DEF CreateUpdater, StartUpdating, StartSinkUpdate
<1>5. CASE Start
  <2>1. CASE stopped_ \/ started_
    <3>1. UNCHANGED <<thread, pool, updates>> /\ main = "Start" /\ main' = "Join"
      BY <1>5, <2>1 DEF Start, MainGoesOn, StatementAfter
    <3>2. JobFits(Main)' /\ MainFits'
      BY <1>5, <3>1 DEF JobFits, MainFits, Start, Statements
    <3>3. ChainFits'
      BY <1>2, <3>1 DEF ChainFits
    <3> QED BY <3>1, <3>2, <3>3, JobChanges
  <2>2. CASE ~(stopped_ \/ started_)
    <3>1. /\ thread'[Main].job = "count" /\ thread'[Main].at = "caching"
          /\ \A u \in Threads \ {Main} : thread'[u] = thread[u]
          /\ main = "Start" /\ UNCHANGED <<main, pool, updates>>
      BY <1>5, <2>2, FinishedOrCalled DEF Start
    <3>2. JobFits(Main)' /\ MainFits'
      BY <3>1 DEF JobFits, MainFits
    <3>3. ChainFits'
      BY <1>2, <3>1 DEF ChainFits
    <3> QED BY <3>1, <3>2, <3>3, JobChanges
  <2> QED BY <2>1, <2>2
<1>6. CASE UpdaterCreated
  <2>1. /\ thread'[Main].job = "none" /\ thread'[Main].at = "idle"
        /\ \A u \in Threads \ {Main} : thread'[u] = thread[u]
        /\ main = "Create" /\ main' = "StartUpdating" /\ UNCHANGED <<pool, updates>>
    BY <1>6, FinishedOrCalled DEF UpdaterCreated, MainGoesOn, StatementAfter, MainFits
  <2>2. JobFits(Main)' /\ MainFits'
    BY <2>1 DEF JobFits, MainFits, Statements
  <2>3. ChainFits'
    BY <1>2, <2>1 DEF ChainFits
  <2> QED BY <2>1, <2>2, <2>3, JobChanges
<1>7. CASE AddThreads
  <2>1. /\ thread'[Main].job = "none" /\ thread'[Main].at = "idle"
        /\ \A u \in Threads \ {Main} : thread'[u] = thread[u]
        /\ main = "Start" /\ main' = "Join" /\ UNCHANGED updates
        /\ pool' \subseteq IoThreads \cup UserThreads
    BY <1>7, FinishedOrCalled DEF AddThreads, MainGoesOn, StatementAfter, MainFits
  <2>2. \A u \in Threads : JobFits(u)'
    BY <2>1 DEF JobFits
  <2>3. MainFits' /\ PoolFits'
    BY <2>1 DEF MainFits, PoolFits, Statements
  <2>4. ChainFits'
    BY <1>2, <2>1 DEF ChainFits
  <2> QED BY <2>2, <2>3, <2>4
<1>8. CASE JoinThreads
  <2>1. UNCHANGED <<thread, pool, updates>> /\ main = "Join" /\ main' = "end"
    BY <1>8 DEF JoinThreads, MainGoesOn, StatementAfter
  <2>2. JobFits(Main)' /\ MainFits'
    BY <2>1 DEF JobFits, MainFits, Statements
  <2>3. ChainFits'
    BY <1>2, <2>1 DEF ChainFits
  <2> QED BY <2>1, <2>2, <2>3, JobChanges
<1> QED BY <1>4, <1>5, <1>6, <1>7, <1>8 DEF MainStep

\* A timer becomes a running update: there is no other.
LEMMA RunUpdateKeepsChain ==
    ASSUME ChainInv, ThreadsAreRecords', NEW t \in UserThreads, RunUpdate(t)
    PROVE  ChainInv'
<1> USE ThreadKinds DEF ChainInv
<1>1. /\ t \in pool /\ thread[t].at = "idle" /\ updates > 0 /\ updates' = updates - 1
      /\ UNCHANGED <<main, pool>>
      /\ \A u \in Threads \ {t} : thread'[u] = thread[u]
      /\ thread'[t].at = "load" /\ thread'[t].job = "update"
  BY DEF RunUpdate, CanRun, ThreadsAreRecords, manager_vars
<1>2. JobFits(t)' /\ MainFits'
  BY <1>1 DEF JobFits, MainFits
<1>3. updates = 1 /\ Updating = {} /\ main \notin {"Create", "StartUpdating"}
  BY <1>1 DEF ChainFits
<1>4. Updating' = {t}
  <2>1. t \in Updating'
    BY <1>1 DEF Updating
  <2>2. \A u \in UserThreads \ {t} : u \notin Updating'
    BY <1>1, <1>3 DEF Updating
  <2>3. Updating' \subseteq UserThreads
    BY DEF Updating
  <2> QED BY <2>1, <2>2, <2>3
<1>5. ChainFits'
  BY <1>1, <1>3, <1>4 DEF ChainFits
<1> QED BY <1>1, <1>2, <1>5, JobChanges

\* ScheduleUpdating ends the running update and leaves a timer behind.
LEMMA SchedulingKeepsChain ==
    ASSUME ChainInv, ThreadsAreRecords', NEW t \in Threads, ScheduleUpdating(t)
    PROVE  ChainInv'
<1> USE ThreadKinds DEF ChainInv
<1>1. /\ thread[t].at = "return" /\ thread[t].job = "schedule"
      /\ thread'[t].job = "none" /\ thread'[t].at = "idle"
      /\ \A u \in Threads \ {t} : thread'[u] = thread[u]
      /\ pool' = pool /\ updates' = updates + 1
      /\ main' = IF t = Main THEN StatementAfter(main) ELSE main
  BY FinishedOrCalled DEF ScheduleUpdating, PostTaskDelayed, MainGoesOn, manager_vars
<1>2. JobFits(t)'
  BY <1>1 DEF JobFits
<1>3. CASE t = Main
  <2>1. main = "StartUpdating" /\ main' = "StartSinkUpdate"
    BY <1>1, <1>3 DEF MainFits, StatementAfter
  <2>2. MainFits'
    BY <1>1, <1>3, <2>1 DEF MainFits, Statements
  <2>3. Updating' = Updating
    BY <1>1, <1>3 DEF Updating
  <2>4. ChainFits'
    BY <1>1, <2>1, <2>3 DEF ChainFits
  <2> QED BY <1>1, <1>2, <1>3, <2>1, <2>2, <2>4, JobChanges
<1>4. CASE t # Main
  <2>1. t \in UserThreads /\ main' = main
    BY <1>1, <1>4 DEF JobFits
  <2>2. t \in Updating /\ t \in pool
    BY <1>1, <2>1 DEF Updating, PoolFits
  <2>3. /\ main \notin {"Create", "StartUpdating"} /\ updates = 0
        /\ \E u \in UserThreads : Updating = {u}
    BY <2>2 DEF ChainFits
  <2>4. Updating = {t}
    BY <2>2, <2>3
  <2>5. Updating' = {}
    <3>1. \A u \in UserThreads \ {t} : u \notin Updating'
      BY <1>1, <2>4 DEF Updating
    <3>2. t \notin Updating' /\ Updating' \subseteq UserThreads
      BY <1>1 DEF Updating
    <3> QED BY <3>1, <3>2
  <2>6. MainFits'
    BY <1>1, <1>4, <2>1 DEF MainFits
  <2>7. ChainFits'
    BY <1>1, <2>1, <2>3, <2>5 DEF ChainFits
  <2> QED BY <1>1, <1>2, <2>1, <2>2, <2>6, <2>7, JobChanges
<1> QED BY <1>3, <1>4

\* An update goes on from the load to the listener, and from the listener to
\* ScheduleUpdating, whatever the listener has read.
LEMMA UpdatingGoesOn ==
    ASSUME ChainInv, ThreadsAreRecords', NEW t \in UserThreads, pool' = pool,
           UNCHANGED <<main, updates>>,
           thread[t].job \in {"update", "listener"},
           thread'[t].at = "caching", thread'[t].job \in {"listener", "schedule"},
           \A u \in Threads \ {t} : thread'[u] = thread[u]
    PROVE  ChainInv'
<1> USE ThreadKinds DEF ChainInv
<1>1. JobFits(t)' /\ MainFits'
  BY DEF JobFits, MainFits
<1>2. Updating' = Updating
  BY DEF Updating
<1>3. ChainFits' /\ t \in pool
  BY <1>2 DEF ChainFits, PoolFits
<1> QED BY <1>1, <1>3, JobChanges

LEMMA ContinueKeepsChain ==
    ASSUME ChainInv, ThreadsAreRecords', NEW t \in Threads, Continue(t)
    PROVE  ChainInv'
<1> USE ThreadKinds DEF ChainInv
<1>1. CASE GetPropertyStep(t) /\ UNCHANGED <<main, manager_vars, updater_vars, edits>>
  BY <1>1, GetPropertyKeepsChain
<1>2. CASE ScheduleUpdating(t)
  BY <1>2, SchedulingKeepsChain
<1>3. CASE UpdateSeverityLevel(t)
  <2>1. /\ thread[t].at = "return" /\ thread[t].job = "listener"
        /\ UNCHANGED <<pool, updates>>
        /\ main' = IF t = Main THEN StatementAfter(main) ELSE main
    BY <1>3 DEF UpdateSeverityLevel, MainGoesOn, manager_vars
  <2>2. CASE t = Main
    <3>1. /\ thread'[t].job = "none" /\ thread'[t].at = "idle"
          /\ \A u \in Threads \ {t} : thread'[u] = thread[u]
      BY <1>3, <2>2, FinishedOrCalled DEF UpdateSeverityLevel
    <3>2. main = "StartSinkUpdate" /\ main' = "Start"
      BY <2>1, <2>2 DEF MainFits, StatementAfter
    <3>3. JobFits(t)' /\ MainFits'
      BY <2>2, <3>1, <3>2 DEF JobFits, MainFits, Statements
    <3>4. Updating' = Updating
      BY <2>2, <3>1 DEF Updating
    <3>5. ChainFits'
      BY <2>1, <3>2, <3>4 DEF ChainFits
    <3> QED BY <2>1, <2>2, <3>1, <3>2, <3>3, <3>5, JobChanges
  <2>3. CASE t # Main
    <3>1. t \in UserThreads
      BY <2>1, <2>3 DEF JobFits
    <3>2. /\ thread'[t].job = "schedule" /\ thread'[t].at = "caching"
          /\ \A u \in Threads \ {t} : thread'[u] = thread[u]
      BY <1>3, <2>3, FinishedOrCalled DEF UpdateSeverityLevel
    <3> QED BY <2>1, <2>3, <3>1, <3>2, UpdatingGoesOn
  <2> QED BY <2>2, <2>3
<1>4. CASE LoadUpdate(t)
  <2>1. /\ thread[t].at = "load" /\ UpdateConfiguration(t, "notify")
        /\ UNCHANGED <<main, pool, updates>>
    BY <1>4 DEF LoadUpdate, manager_vars, updater_vars
  <2>2. \A u \in Threads : /\ thread'[u].job = thread[u].job
                           /\ thread'[u].at = IF u = t THEN "notify" ELSE thread[u].at
    BY <2>1, LoadKeepsJobs
  <2>3. JobFits(t)'
    BY <2>1, <2>2 DEF JobFits
  <2> QED BY <2>1, <2>2, <2>3, JobsStay
<1>5. CASE NotifyListeners(t)
  <2>1. t \in UserThreads /\ thread[t].job = "update"
    BY <1>5 DEF NotifyListeners, JobFits
  <2>2. \E job \in {"listener", "schedule"} : \E key : Call(t, job, key)
    BY <1>5 DEF NotifyListeners
  <2>3. /\ thread'[t].job \in {"listener", "schedule"} /\ thread'[t].at = "caching"
        /\ \A u \in Threads \ {t} : thread'[u] = thread[u]
    BY <2>2, FinishedOrCalled
  <2> QED BY <1>5, <2>1, <2>3, UpdatingGoesOn
          DEF NotifyListeners, manager_vars, updater_vars
<1>6. CASE RequestDone(t)
  <2>1. /\ thread[t].at = "return" /\ thread[t].job = "request"
        /\ UNCHANGED <<main, pool, updates>>
        /\ thread'[t].job = "none" /\ thread'[t].at = "idle"
        /\ \A u \in Threads \ {t} : thread'[u] = thread[u]
    BY <1>6, FinishedOrCalled DEF RequestDone, manager_vars, updater_vars
  <2>2. t \in IoThreads /\ t \in pool
    BY <2>1 DEF JobFits, MainFits, PoolFits
  <2>3. JobFits(t)' /\ MainFits'
    BY <2>1, <2>2 DEF JobFits, MainFits
  <2>4. Updating' = Updating
    BY <2>1, <2>2 DEF Updating
  <2>5. ChainFits'
    BY <2>1, <2>4 DEF ChainFits
  <2> QED BY <2>1, <2>2, <2>3, <2>5, JobChanges
<1> QED BY <1>1, <1>2, <1>3, <1>4, <1>5, <1>6 DEF Continue

LEMMA ChainInvStep ==
    ASSUME ConfigurationInv, ChainInv, [Next]_vars
    PROVE  ChainInv'
<1> USE ThreadKinds
<1>0. ThreadsAreRecords'
  BY ConfigurationInvStep DEF ConfigurationInv
<1>1. CASE MainStep
  BY <1>0, <1>1, MainStepKeepsChain
<1>2. ASSUME NEW t \in Threads, Continue(t) PROVE ChainInv'
  BY <1>0, <1>2, ContinueKeepsChain
<1>3. ASSUME NEW t \in Threads, Exit(t) PROVE ChainInv'
  <2>1. /\ t \in pool /\ thread[t].at = "idle" /\ UNCHANGED <<main, pool, updates>>
        /\ \A u \in Threads : thread'[u].job = thread[u].job
        /\ \A u \in Threads \ {t} : thread'[u].at = thread[u].at
        /\ thread'[t].at = "exited"
    BY <1>3 DEF Exit, manager_vars, updater_vars, ChainInv, ThreadsAreRecords
  <2>2. JobFits(t)' /\ t # Main
    BY <2>1 DEF JobFits, ChainInv, PoolFits
  <2> QED BY <1>0, <2>1, <2>2, JobsStay
<1>4. ASSUME NEW t \in UserThreads, RunUpdate(t) PROVE ChainInv'
  BY <1>0, <1>4, RunUpdateKeepsChain
<1>5. ASSUME NEW t \in IoThreads, Request(t) PROVE ChainInv'
  <2>1. /\ t \in pool /\ UNCHANGED <<main, pool, updates>>
        /\ thread'[t].job = "request" /\ thread'[t].at = "caching"
        /\ \A u \in Threads \ {t} : thread'[u] = thread[u]
    BY <1>5, FinishedOrCalled DEF Request, CanRun, manager_vars, updater_vars, ChainInv
  <2>2. JobFits(t)' /\ MainFits'
    BY <2>1 DEF JobFits, MainFits, ChainInv
  <2>3. Updating' = Updating
    BY <2>1 DEF Updating
  <2>4. ChainFits'
    BY <2>1, <2>3 DEF ChainFits, ChainInv
  <2> QED BY <1>0, <2>1, <2>2, <2>4, JobChanges
<1>6. CASE Stop \/ Edit \/ Rest \/ UNCHANGED vars
  <2>1. UNCHANGED <<thread, main, pool, updates>>
    BY <1>6 DEF Stop, Edit, EditFile, Rest, vars, manager_vars, updater_vars
  <2> QED BY <1>0, <2>1, JobsStay DEF ChainInv, JobFits, MainFits
<1> QED BY <1>1, <1>2, <1>3, <1>4, <1>5, <1>6 DEF Next

\* The inductive invariant of the chain.
LEMMA ChainInvariant == Spec => []ChainInv
BY ChainInvInit, ChainInvStep, ConfigurationInvariant, PTL DEF Spec

\* Whatever the file holds and whatever the threads do, there is exactly one
\* update from StartUpdating on: the chain neither ends nor doubles.
THEOREM UpdateIsAlwaysDueTheorem == Spec => []UpdateIsAlwaysDue
<1>1. ASSUME ChainInv PROVE UpdateIsAlwaysDue
  <2>1. CASE updates = 1 /\ Updating = {}
    <3>1. Cardinality(Updating) = 0
      BY <2>1, FS_EmptySet
    <3> QED BY <2>1, <3>1 DEF UpdateIsAlwaysDue
  <2>2. ASSUME updates = 0, NEW t \in UserThreads, Updating = {t}
        PROVE  UpdateIsAlwaysDue
    <3>1. Cardinality(Updating) = 1
      BY <2>2, FS_Singleton
    <3> QED BY <2>2, <3>1 DEF UpdateIsAlwaysDue
  <2> QED BY <1>1, <2>1, <2>2 DEF ChainInv, ChainFits, UpdateIsAlwaysDue
<1> QED BY <1>1, ChainInvariant, PTL

\* main adds the listener before any update can run, so that update_listeners_
\* needs no lock.
THEOREM ListenersAreNotSharedTheorem == Spec => []ListenersAreNotShared
<1>1. ASSUME ChainInv PROVE ListenersAreNotShared
  <2>1. thread[Main].job = "listener" => pool = {}
    BY <1>1 DEF ChainInv, MainFits, PoolFits
  <2>2. pool = {} => Updating = {}
    BY <1>1 DEF ChainInv, PoolFits, Updating
  <2> QED BY <2>1, <2>2 DEF ListenersAreNotShared
<1> QED BY <1>1, ChainInvariant, PTL

-----------------------------------------------------------------------------
(* The end of the process.                                                 *)

\* When main is past Join, whose caller destroys what the threads refer to,
\* the manager is stopped and no thread is inside a handler or GetProperty:
\* those of the pools have left io_context::run, the others never ran.
EndIsQuiet ==
    main = "end" =>
        /\ stopped_
        /\ \A t \in Threads : thread[t].at = IF t \in pool THEN "exited" ELSE "idle"

\* Why Join waits for Stop: a pool that Start has filled is not empty, and only
\* its threads exit, after Stop; Start leaves the pools empty only if it comes
\* after Stop.
EndFits ==
    /\ started_ => main \in {"Join", "end"} \/ thread[Main].job = "count"
    /\ \A t \in Threads : thread[t].at = "exited" => stopped_ /\ t \in pool
    /\ main \in {"Join", "end"} => stopped_ \/ pool # {}
    /\ main = "end" => stopped_ /\ AllExited

\* A step of thread t, not past the end, that neither exits nor fills a pool.
LEMMA EndKept ==
    ASSUME EndFits, NEW t \in Threads, UNCHANGED manager_vars,
           main' = main \/ (main' \in {"StartUpdating", "StartSinkUpdate", "Start"}
                            /\ main \in Statements \ {"Start", "Join", "end"}),
           \A u \in Threads \ {t} : thread'[u].at = thread[u].at,
           thread'[t].at # "exited", thread[t].at # "exited",
           thread[Main].job = "count" => thread'[Main].job = "count",
           pool \subseteq Threads
    PROVE  EndFits'
<1>1. \A u \in Threads : thread'[u].at = "exited" <=> thread[u].at = "exited"
  OBVIOUS
<1>2. UNCHANGED <<started_, stopped_, pool>>
  BY DEF manager_vars
<1>3. AllExited => AllExited'
  BY <1>1, <1>2 DEF AllExited
<1>4. started_' => main' \in {"Join", "end"} \/ thread'[Main].job = "count"
  BY <1>2 DEF EndFits
<1>5. \A u \in Threads : thread'[u].at = "exited" => stopped_' /\ u \in pool'
  BY <1>1, <1>2 DEF EndFits
<1>6. /\ main' \in {"Join", "end"} => stopped_' \/ pool' # {}
      /\ main' = "end" => stopped_' /\ AllExited'
  BY <1>2, <1>3 DEF EndFits
<1> QED BY <1>4, <1>5, <1>6 DEF EndFits

\* What main is about to do, when it is inside a call.
LEMMA MainCallsBefore ==
    ASSUME ChainInv
    PROVE  /\ thread[Main].job \in {"update", "schedule", "listener"} =>
                 main \in {"Create", "StartUpdating", "StartSinkUpdate"}
           /\ thread[Main].at # "exited"
           /\ \A t \in Threads : thread[t].at = "exited" <=>
                 thread[t].at # "idle" /\ thread[t].job = "none"
           /\ pool \subseteq Threads /\ Main \notin pool
BY ThreadKinds DEF ChainInv, MainFits, JobFits, PoolFits

LEMMA ContinueKeepsEnd ==
    ASSUME ChainInv, EndFits, NEW t \in Threads, Continue(t)
    PROVE  EndFits'
<1> USE ThreadKinds DEF ChainInv
<1>1. CASE GetPropertyStep(t) /\ UNCHANGED <<main, manager_vars, updater_vars, edits>>
  <2>1. /\ \A u \in Threads : thread'[u].job = thread[u].job
        /\ \A u \in Threads \ {t} : thread'[u].at = thread[u].at
        /\ thread[t].at # "exited" /\ thread'[t].at # "exited"
    BY <1>1, GetPropertyKeepsJobs
  <2> QED BY <1>1, <2>1, EndKept, MainCallsBefore
<1>2. CASE LoadUpdate(t)
  <2>1. /\ \A u \in Threads : thread'[u].job = thread[u].job
        /\ \A u \in Threads \ {t} : thread'[u].at = thread[u].at
        /\ thread[t].at = "load" /\ thread'[t].at = "notify"
    BY <1>2, LoadKeepsJobs DEF LoadUpdate
  <2> QED BY <1>2, <2>1, EndKept, MainCallsBefore DEF LoadUpdate
<1>3. CASE ScheduleUpdating(t) \/ UpdateSeverityLevel(t) \/ RequestDone(t) \/ NotifyListeners(t)
  <2>1. /\ thread[t].at \in {"return", "notify"} /\ UNCHANGED manager_vars
        /\ \A u \in Threads \ {t} : thread'[u] = thread[u]
        /\ thread'[t].at \in {"idle", "caching"}
        /\ t = Main => thread[t].job # "count"
    <3>1. CASE ScheduleUpdating(t)
      BY <3>1, FinishedOrCalled DEF ScheduleUpdating
    <3>2. CASE UpdateSeverityLevel(t)
      BY <3>2, FinishedOrCalled DEF UpdateSeverityLevel
    <3>3. CASE RequestDone(t)
      BY <3>3, FinishedOrCalled DEF RequestDone
    <3>4. CASE NotifyListeners(t)
      <4>1. /\ thread[t].at = "notify" /\ UNCHANGED manager_vars
            /\ \E job, key : Call(t, job, key)
        BY <3>4 DEF NotifyListeners
      <4>2. t # Main
        BY <4>1 DEF JobFits
      <4> QED BY <4>1, <4>2, FinishedOrCalled
    <3> QED BY <1>3, <3>1, <3>2, <3>3, <3>4
  <2>2. thread[Main].job = "count" => thread'[Main].job = "count"
    BY <2>1
  <2>3. \/ main' = main
        \/ /\ main' \in {"StartUpdating", "StartSinkUpdate", "Start"}
           /\ main \in Statements \ {"Start", "Join", "end"}
    <3>1. CASE RequestDone(t) \/ NotifyListeners(t)
      BY <3>1 DEF RequestDone, NotifyListeners
    <3>2. CASE ScheduleUpdating(t) \/ UpdateSeverityLevel(t)
      <4>1. main' = IF t = Main THEN StatementAfter(main) ELSE main
        BY <3>2 DEF ScheduleUpdating, UpdateSeverityLevel, MainGoesOn
      <4>2. t = Main => main \in {"StartUpdating", "StartSinkUpdate"}
        BY <3>2 DEF ScheduleUpdating, UpdateSeverityLevel, MainFits
      <4> QED BY <4>1, <4>2 DEF StatementAfter, Statements
    <3> QED BY <1>3, <3>1, <3>2
  <2>4. \A u \in Threads \ {t} : thread'[u].at = thread[u].at
    BY <2>1
  <2>5. thread'[t].at # "exited" /\ thread[t].at # "exited"
    BY <2>1
  <2> QED BY <2>1, <2>2, <2>3, <2>4, <2>5, EndKept, MainCallsBefore
<1> QED BY <1>1, <1>2, <1>3 DEF Continue

\* The statements of main.
LEMMA MainStepKeepsEnd ==
    ASSUME ChainInv, EndFits, MainStep
    PROVE  EndFits'
<1> USE ThreadKinds DEF ChainInv
<1>0. thread[Main].at # "exited" /\ pool \subseteq Threads /\ Main \notin pool
  BY MainCallsBefore
<1>1. CASE CreateUpdater \/ StartUpdating \/ StartSinkUpdate
  <2>1. PICK statement, job, key : MainCalls(statement, job, key)
    BY <1>1 DEF CreateUpdater, StartUpdating, StartSinkUpdate
  <2>2. /\ thread[Main].job = "none" /\ UNCHANGED <<main, manager_vars>>
        /\ \A u \in Threads \ {Main} : thread'[u] = thread[u]
        /\ thread'[Main].at = "caching"
    BY <2>1, FinishedOrCalled DEF MainCalls
  <2> QED BY <1>0, <2>2, EndKept
<1>2. CASE UpdaterCreated
  <2>1. /\ thread[Main].job = "update" /\ UNCHANGED manager_vars
        /\ \A u \in Threads \ {Main} : thread'[u] = thread[u]
        /\ thread'[Main].at = "idle"
        /\ main = "Create" /\ main' = "StartUpdating"
    BY <1>2, FinishedOrCalled DEF UpdaterCreated, MainGoesOn, StatementAfter, MainFits
  <2> QED BY <1>0, <2>1, EndKept DEF Statements
<1>3. CASE Start
  <2>1. CASE stopped_ \/ started_
    <3>1. /\ main = "Start" /\ main' = "Join" /\ thread[Main].job = "none"
          /\ UNCHANGED <<started_, stopped_, pool, thread>>
      BY <1>3, <2>1 DEF Start, MainGoesOn, StatementAfter
    <3>2. stopped_
      BY <2>1, <3>1 DEF EndFits
    <3> QED BY <3>1, <3>2 DEF EndFits
  <2>2. CASE ~(stopped_ \/ started_)
    <3>1. /\ thread'[Main].job = "count" /\ thread'[Main].at = "caching"
          /\ \A u \in Threads \ {Main} : thread'[u] = thread[u]
          /\ main = "Start" /\ UNCHANGED <<main, stopped_, pool>>
      BY <1>3, <2>2, FinishedOrCalled DEF Start
    <3>2. \A u \in Threads : thread'[u].at = "exited" => stopped_' /\ u \in pool'
      BY <3>1 DEF EndFits
    <3> QED BY <3>1, <3>2 DEF EndFits
  <2> QED BY <2>1, <2>2
<1>4. CASE AddThreads
  <2>1. /\ thread'[Main].at = "idle"
        /\ \A u \in Threads \ {Main} : thread'[u] = thread[u]
        /\ main' = "Join" /\ UNCHANGED <<started_, stopped_>>
    BY <1>4, FinishedOrCalled DEF AddThreads, MainGoesOn, StatementAfter, MainFits
  <2>2. pool' # {}
    <3>1. PICK users \in SUBSET UserThreads :
             /\ Cardinality(users) = UserThreadCount(thread[Main].value)
             /\ pool' = IoThreads \cup users
      BY <1>4 DEF AddThreads
    <3>2. UserThreadCount(thread[Main].value) # 0
      BY DEF UserThreadCount
    <3>3. users # {}
      BY <3>1, <3>2, FS_EmptySet
    <3> QED BY <3>1, <3>3
  <2>3. \A u \in Threads : thread'[u].at # "exited"
    <3>1. pool = {}
      BY <1>4 DEF AddThreads, MainFits, PoolFits
    <3> QED BY <2>1, <3>1 DEF EndFits
  <2> QED BY <2>1, <2>2, <2>3 DEF EndFits
<1>5. CASE JoinThreads
  <2>1. /\ main = "Join" /\ main' = "end" /\ AllExited
        /\ UNCHANGED <<thread, started_, stopped_, pool>>
    BY <1>5 DEF JoinThreads, MainGoesOn, StatementAfter, manager_vars
  <2>2. stopped_
    <3>1. CASE pool # {}
      BY <1>0, <2>1, <3>1 DEF AllExited, EndFits
    <3>2. CASE pool = {}
      BY <2>1, <3>2 DEF EndFits
    <3> QED BY <3>1, <3>2
  <2>3. AllExited'
    BY <2>1 DEF AllExited
  <2> QED BY <2>1, <2>2, <2>3 DEF EndFits
<1> QED BY <1>1, <1>2, <1>3, <1>4, <1>5 DEF MainStep

LEMMA EndStep ==
    ASSUME ChainInv, EndFits, [Next]_vars
    PROVE  EndFits'
<1> USE ThreadKinds
<1>0. pool \subseteq Threads /\ Main \notin pool /\ ThreadsAreRecords
  BY MainCallsBefore DEF ChainInv
<1>1. CASE MainStep
  BY <1>1, MainStepKeepsEnd
<1>2. ASSUME NEW t \in Threads, Continue(t) PROVE EndFits'
  BY <1>2, ContinueKeepsEnd
<1>3. ASSUME NEW t \in Threads, Exit(t) PROVE EndFits'
  <2>1. /\ stopped_ /\ t \in pool /\ UNCHANGED <<main, started_, stopped_, pool>>
        /\ \A u \in Threads : thread'[u].job = thread[u].job
        /\ \A u \in Threads : thread'[u].at = IF u = t THEN "exited" ELSE thread[u].at
    BY <1>0, <1>3 DEF Exit, manager_vars, ThreadsAreRecords
  <2>2. AllExited => AllExited'
    BY <1>0, <2>1 DEF AllExited
  <2> QED BY <2>1, <2>2 DEF EndFits
<1>4. ASSUME NEW t \in Threads, RunUpdate(t) \/ Request(t) PROVE EndFits'
  <2>1. /\ thread[t].at = "idle" /\ thread'[t].at \in {"load", "caching"} /\ t \in pool
        /\ UNCHANGED <<main, manager_vars>>
        /\ \A u \in Threads \ {t} : thread'[u] = thread[u]
    <3>1. CASE RunUpdate(t)
      BY <1>0, <3>1 DEF RunUpdate, CanRun, ThreadsAreRecords
    <3>2. CASE Request(t)
      BY <1>0, <3>2, FinishedOrCalled DEF Request, CanRun
    <3> QED BY <1>4, <3>1, <3>2
  <2>2. t # Main
    BY <1>0, <2>1
  <2>3. thread'[Main] = thread[Main]
    BY <2>1, <2>2
  <2> QED BY <1>0, <2>1, <2>3, EndKept
<1>5. CASE Stop \/ Edit \/ Rest \/ UNCHANGED vars
  <2>1. UNCHANGED <<thread, main, pool, started_>> /\ (stopped_ => stopped_')
    BY <1>5 DEF Stop, Edit, EditFile, Rest, vars, manager_vars
  <2>2. AllExited => AllExited'
    BY <2>1 DEF AllExited
  <2> QED BY <2>1, <2>2 DEF EndFits
<1> QED BY <1>1, <1>2, <1>3, <1>4, <1>5 DEF Next

LEMMA EndInvariant == Spec => []EndFits
<1>1. Init => EndFits
  BY DEF Init, EndFits, Idle
<1> QED BY <1>1, EndStep, ChainInvariant, PTL DEF Spec

\* main comes past Join only after Stop, and then nobody is left who could use
\* the objects it destroys, also when Stop came before Start.
THEOREM EndIsQuietTheorem == Spec => []EndIsQuiet
<1>1. ASSUME ChainInv, EndFits PROVE EndIsQuiet
  <2>1. SUFFICES ASSUME main = "end" PROVE EndIsQuiet
    BY DEF EndIsQuiet
  <2>2. stopped_ /\ AllExited
    BY <2>1, <1>1 DEF EndFits
  <2>3. ASSUME NEW t \in Threads \ pool PROVE thread[t].at = "idle"
    <3>1. thread[t].job = "none"
      BY <1>1, <2>1, ThreadKinds DEF ChainInv, PoolFits, MainFits
    <3>2. thread[t].at \in {"idle", "exited"}
      BY <1>1, <3>1 DEF ChainInv, JobFits
    <3>3. thread[t].at # "exited"
      BY <1>1 DEF EndFits
    <3> QED BY <3>2, <3>3
  <2> QED BY <2>2, <2>3 DEF EndIsQuiet, AllExited
<1> QED BY <1>1, ChainInvariant, EndInvariant, PTL

\* From then on nothing changes but the file.
THEOREM EndIsFinalTheorem ==
    Spec => [][main = "end" => UNCHANGED <<config_vars, thread, main, manager_vars,
                                           updater_vars>>]_vars
<1>1. ASSUME ChainInv, EndIsQuiet, [Next]_vars, main = "end"
      PROVE  UNCHANGED <<config_vars, thread, main, manager_vars, updater_vars>>
  <2>1. /\ stopped_ /\ thread[Main].job = "none"
        /\ \A t \in Threads : thread[t].at \in {"idle", "exited"}
        /\ \A t \in pool : thread[t].at # "idle"
    BY <1>1, ThreadKinds DEF EndIsQuiet, ChainInv, MainFits, PoolFits
  <2>2. ~MainStep
    BY <1>1, <2>1 DEF MainStep, CreateUpdater, StartUpdating, StartSinkUpdate, MainCalls,
                      Start, UpdaterCreated, AddThreads, JoinThreads
  <2>3. \A t \in Threads : ~Continue(t)
    BY <2>1 DEF Continue, GetPropertyStep, TestCaching, LookUp, Reload, Read, Store,
                ScheduleUpdating, UpdateSeverityLevel, LoadUpdate, NotifyListeners, RequestDone
  <2>4. /\ \A t \in Threads : ~Exit(t)
        /\ \A t \in UserThreads : ~RunUpdate(t)
        /\ \A t \in IoThreads : ~Request(t)
        /\ ~Stop
    BY <2>1 DEF Exit, RunUpdate, Request, CanRun, Stop
  <2>5. CASE Edit \/ Rest \/ UNCHANGED vars
    BY <2>5 DEF Edit, EditFile, Rest, vars
  <2> QED BY <1>1, <2>2, <2>3, <2>4, <2>5 DEF Next
<1>2. ChainInv /\ EndIsQuiet /\ [Next]_vars =>
         [main = "end" => UNCHANGED <<config_vars, thread, main, manager_vars,
                                      updater_vars>>]_vars
  BY <1>1
<1> QED BY <1>2, ChainInvariant, EndIsQuietTheorem, PTL DEF Spec

-----------------------------------------------------------------------------
(* The types.  A value that a thread holds has come from an object, through *)
(* the cache or not, so that the types of all three go together.           *)

\* A load or a read has these for the object and the cache.
LoadedFits(json, cache) ==
    /\ json \in Objects \cup {EmptyObject}
    /\ \A k \in DOMAIN cache : k \in Keys /\ cache[k] \in ValuesOf(k)

ThreadFits(t) ==
    /\ thread[t].at \in Labels /\ thread[t].job \in Jobs
    /\ thread[t].value \in ValuesOf(thread[t].key)
    /\ thread[t].seen \subseteq ValuesOf(thread[t].key)

TypeInv ==
    /\ LoadedFits(config_json_, cache_values_)
    /\ \A t \in Threads : ThreadFits(t)
    /\ started_ \in BOOLEAN /\ stopped_ \in BOOLEAN
    /\ update_listeners_ \in Nat
    /\ severity_level_ \in SeverityLevel
    /\ edits \in 0 .. MaxEdits

\* What an object or the cache has for a key is one of its values.
LEMMA ObjectValues ==
    ASSUME NEW json \in Objects \cup {EmptyObject}, NEW key \in Keys
    PROVE  json[key] \in ValuesOf(key)
BY DEF EmptyObject, ValuesOf

LEMMA InForceValues ==
    ASSUME NEW json, NEW caching, NEW cache, LoadedFits(json, cache), NEW key \in Keys
    PROVE  InForce([json |-> json, caching |-> caching, cache |-> cache], key)
               \in ValuesOf(key)
<1>1. json[key] \in ValuesOf(key)
  BY ObjectValues DEF LoadedFits
<1>2. MapGet(cache, key) \in ValuesOf(key)
  BY DEF LoadedFits, MapGet, ValuesOf
<1> QED BY <1>1, <1>2 DEF InForce

\* A load of any contents keeps that.
LEMMA LoadFits ==
    ASSUME NEW contents \in Contents, LoadedFits(config_json_, cache_values_)
    PROVE  LET loaded == Load(contents, Loaded)
           IN  LoadedFits(loaded.json, loaded.cache)
<1> DEFINE loaded == Load(contents, Loaded)
<1> SUFFICES LoadedFits(loaded.json, loaded.cache)
  OBVIOUS
<1>1. CASE contents = Unreadable
  <2>1. loaded = Loaded
    BY <1>1, ObjectsAssumption DEF Load
  <2>2. loaded.json = config_json_ /\ loaded.cache = cache_values_
    BY <2>1 DEF Loaded
  <2> HIDE DEF loaded
  <2> QED BY <2>2
<1>2. CASE contents = Invalid /\ contents # Unreadable
  <2>1. loaded = [Loaded EXCEPT !.json = EmptyObject]
    BY <1>2 DEF Load
  <2>2. loaded.json = EmptyObject /\ loaded.cache = cache_values_
    BY <2>1 DEF Loaded
  <2> HIDE DEF loaded
  <2> QED BY <2>2 DEF LoadedFits
<1>3. CASE contents # Invalid /\ contents # Unreadable
  <2>1. loaded.json = contents /\ loaded.cache = MapCleared
    BY <1>3 DEF Load
  <2>2. contents \in Objects /\ DOMAIN MapCleared = {}
    BY <1>3 DEF Contents, MapCleared
  <2> HIDE DEF loaded
  <2> QED BY <2>1, <2>2 DEF LoadedFits
<1> QED BY <1>1, <1>2, <1>3

LEMMA TypeInvInit == Init => TypeInv
<1> SUFFICES ASSUME Init PROVE TypeInv
  OBVIOUS
<1> DEFINE old == [json |-> EmptyObject, cache |-> MapCleared,
                   caching |-> kDefaultCaching_]
           loaded == Load(file, old)
<1>1. file \in Contents /\ config_json_ = loaded.json /\ cache_values_ = loaded.cache
  BY DEF Init, ConfigurationInit
<1>2. DOMAIN MapCleared = {}
  BY DEF MapCleared
<1>3. LoadedFits(loaded.json, loaded.cache)
  <2>1. CASE file = Unreadable
    <3>1. loaded = old
      BY <2>1 DEF Load
    <3>2. loaded.json = EmptyObject /\ loaded.cache = MapCleared
      BY <3>1
    <3> HIDE DEF loaded
    <3> QED BY <1>2, <3>2 DEF LoadedFits
  <2>2. CASE file = Invalid /\ file # Unreadable
    <3>1. loaded = [old EXCEPT !.json = EmptyObject]
      BY <2>2 DEF Load
    <3>2. loaded.json = EmptyObject /\ loaded.cache = MapCleared
      BY <3>1
    <3> HIDE DEF loaded
    <3> QED BY <1>2, <3>2 DEF LoadedFits
  <2>3. CASE file # Invalid /\ file # Unreadable
    <3>1. loaded.json = file /\ loaded.cache = MapCleared /\ file \in Objects
      BY <1>1, <2>3 DEF Load, Contents
    <3> HIDE DEF loaded
    <3> QED BY <1>2, <3>1 DEF LoadedFits
  <2> QED BY <2>1, <2>2, <2>3
<1>4. \A t \in Threads : thread[t] = Idle
  BY DEF Init
<1>5. /\ Idle.at \in Labels /\ Idle.job \in Jobs
      /\ Idle.value \in ValuesOf(Idle.key) /\ Idle.seen \subseteq ValuesOf(Idle.key)
  BY DEF Idle, Labels, Jobs, ValuesOf
<1>6. \A t \in Threads : ThreadFits(t)
  BY <1>4, <1>5 DEF ThreadFits
<1>7. /\ started_ \in BOOLEAN /\ stopped_ \in BOOLEAN /\ update_listeners_ \in Nat
      /\ severity_level_ \in SeverityLevel
  BY DEF Init, SeverityLevel
<1>8. edits \in 0 .. MaxEdits
  BY UpdaterAssumption DEF Init
<1> QED BY <1>1, <1>3, <1>6, <1>7, <1>8 DEF TypeInv

\* A step that leaves the configuration alone and gives t a record of its type.
LEMMA OutsideFits ==
    ASSUME ThreadsAreRecords, TypeInv, UNCHANGED config_vars, NEW t \in Threads,
           \/ Finish(t)
           \/ \E job \in Jobs, key \in Keys : Call(t, job, key)
           \/ thread' = [thread EXCEPT ![t].at = "exited"]
           \/ thread' = [thread EXCEPT ![t].at = "load", ![t].job = "update"]
    PROVE  /\ LoadedFits(config_json_, cache_values_)'
           /\ \A u \in Threads : ThreadFits(u)'
<1> USE DEF ThreadsAreRecords
<1>1. \A u \in Threads \ {t} : thread'[u] = thread[u]
  BY DEF Finish, Call
<1>2. /\ thread'[t].at \in Labels /\ thread'[t].job \in Jobs
      /\ thread'[t].value \in ValuesOf(thread'[t].key)
      /\ thread'[t].seen \subseteq ValuesOf(thread'[t].key)
  <2>1. CASE Finish(t)
    <3>1. thread'[t] = Idle
      BY <2>1 DEF Finish
    <3> QED BY <3>1 DEF Idle, Labels, Jobs, ValuesOf
  <2>2. ASSUME NEW job \in Jobs, NEW key \in Keys, Call(t, job, key)
        PROVE  <1>2!:
    <3>1. thread'[t] = [at |-> "caching", job |-> job, key |-> key,
                        value |-> Missing, seen |-> {InForce(Loaded, key)}]
      BY <2>2 DEF Call
    <3>2. InForce(Loaded, key) \in ValuesOf(key)
      BY InForceValues DEF TypeInv, Loaded
    <3>3. Missing \in ValuesOf(key) /\ "caching" \in Labels
      BY DEF ValuesOf, Labels
    <3> QED BY <3>1, <3>2, <3>3
  <2>3. CASE thread' = [thread EXCEPT ![t].at = "exited"]
    BY <2>3 DEF TypeInv, ThreadFits, Labels
  <2>4. CASE thread' = [thread EXCEPT ![t].at = "load", ![t].job = "update"]
    BY <2>4 DEF TypeInv, ThreadFits, Labels, Jobs
  <2> QED BY <2>1, <2>2, <2>3, <2>4
<1>3. \A u \in Threads : ThreadFits(u)'
  BY <1>1, <1>2 DEF TypeInv, ThreadFits
<1> QED BY <1>3 DEF TypeInv, config_vars

\* A load adds to what has been in force.
LEMMA UpdateFits ==
    ASSUME ThreadsAreRecords, TypeInv, file \in Contents, NEW t \in Threads,
           NEW next \in Labels, UpdateConfiguration(t, next)
    PROVE  /\ LoadedFits(config_json_, cache_values_)'
           /\ \A u \in Threads : ThreadFits(u)'
<1> USE DEF ThreadsAreRecords
<1> DEFINE loaded == Load(file, Loaded)
<1>1. /\ config_json_' = loaded.json /\ cache_values_' = loaded.cache
      /\ thread' = [u \in Threads |->
                 [thread[u] EXCEPT
                     !.at = IF u = t THEN next ELSE @,
                     !.seen = IF Reading(u)
                              THEN @ \cup {loaded.json[thread[u].key],
                                           InForce(loaded, thread[u].key)}
                              ELSE @]]
  BY DEF UpdateConfiguration
<1>2. LoadedFits(loaded.json, loaded.cache)
  BY LoadFits DEF TypeInv
<1>3. PICK j, c, v : loaded = [json |-> j, caching |-> c, cache |-> v]
  BY LoadedIsRecord
<1> HIDE DEF loaded
<1>4. ASSUME NEW u \in Threads PROVE ThreadFits(u)'
  <2>1. /\ loaded.json[thread[u].key] \in ValuesOf(thread[u].key)
        /\ InForce(loaded, thread[u].key) \in ValuesOf(thread[u].key)
    <3>1. loaded.json = j /\ loaded.cache = v
      BY <1>3
    <3>2. LoadedFits(j, v)
      BY <1>2, <3>1
    <3> QED BY <1>3, <3>1, <3>2, ObjectValues, InForceValues DEF LoadedFits
  <2>2. /\ thread'[u].job = thread[u].job /\ thread'[u].key = thread[u].key
        /\ thread'[u].value = thread[u].value
        /\ thread'[u].at \in {next, thread[u].at}
        /\ thread'[u].seen \subseteq thread[u].seen \cup
               {loaded.json[thread[u].key], InForce(loaded, thread[u].key)}
    BY <1>1
  <2> QED BY <2>1, <2>2 DEF TypeInv, ThreadFits
<1> QED BY <1>1, <1>2, <1>4

\* A step of GetProperty.
LEMMA GetPropertyFits ==
    ASSUME ThreadsAreRecords, TypeInv, file \in Contents, NEW t \in Threads,
           GetPropertyStep(t)
    PROVE  /\ LoadedFits(config_json_, cache_values_)'
           /\ \A u \in Threads : ThreadFits(u)'
<1> DEFINE key == thread[t].key
<1>0. key \in Keys /\ LoadedFits(config_json_, cache_values_)
  BY DEF ThreadsAreRecords, TypeInv
<1>1. ASSUME NEW label \in Labels, NEW value \in ValuesOf(key), Goto(t, label, value)
      PROVE  \A u \in Threads : ThreadFits(u)'
  <2>1. /\ \A u \in Threads \ {t} : thread'[u] = thread[u]
        /\ thread'[t].at = label /\ thread'[t].value = value
        /\ thread'[t].job = thread[t].job /\ thread'[t].key = key
        /\ thread'[t].seen = thread[t].seen
    BY <1>1 DEF Goto, ThreadsAreRecords
  <2> QED BY <2>1 DEF TypeInv, ThreadFits
<1>2. /\ Missing \in ValuesOf(key)
      /\ MapGet(cache_values_, key) \in ValuesOf(key)
      /\ config_json_[key] \in ValuesOf(key)
      /\ thread[t].value \in ValuesOf(key)
  BY <1>0, ObjectValues DEF ValuesOf, MapGet, LoadedFits, TypeInv, ThreadFits
<1>3. {"lookUp", "reload", "read", "locked", "return"} \subseteq Labels
  BY DEF Labels
<1>4. CASE TestCaching(t)
  <2>1. /\ \E label \in {"lookUp", "reload"} : Goto(t, label, Missing)
        /\ UNCHANGED config_vars
    BY <1>4 DEF TestCaching
  <2> QED BY <1>0, <1>1, <1>2, <1>3, <2>1 DEF config_vars
<1>5. CASE LookUp(t)
  <2>1. /\ \E label \in {"return", "read"} : Goto(t, label, MapGet(cache_values_, key))
        /\ UNCHANGED config_vars
    BY <1>5 DEF LookUp
  <2> QED BY <1>0, <1>1, <1>2, <1>3, <2>1 DEF config_vars
<1>6. CASE Reload(t)
  BY <1>3, <1>6, UpdateFits DEF Reload
<1>7. CASE Read(t)
  <2>1. Goto(t, "locked", config_json_[key]) /\ UNCHANGED config_vars
    BY <1>7 DEF Read
  <2> QED BY <1>0, <1>1, <1>2, <1>3, <2>1 DEF config_vars
<1>8. CASE Store(t)
  <2>1. /\ Goto(t, "return", thread[t].value) /\ config_json_' = config_json_
        /\ \/ cache_values_' = cache_values_
           \/ cache_values_' = MapSet(cache_values_, key, thread[t].value)
    BY <1>8 DEF Store
  <2>2. LoadedFits(config_json_, cache_values_)'
    BY <1>0, <1>2, <2>1 DEF LoadedFits, MapSet
  <2> QED BY <1>1, <1>2, <1>3, <2>1, <2>2
<1> QED BY <1>4, <1>5, <1>6, <1>7, <1>8 DEF GetPropertyStep

\* The configuration and the threads, after any step.
LEMMA StepFits ==
    ASSUME ConfigurationInv, TypeInv, [Next]_vars
    PROVE  /\ LoadedFits(config_json_, cache_values_)'
           /\ \A u \in Threads : ThreadFits(u)'
<1> USE ThreadKinds
<1>1. file \in Contents /\ ThreadsAreRecords
  BY DEF ConfigurationInv, ConfigurationTyped
<1>2. /\ \A job \in {"update", "schedule", "listener", "count", "request"} : job \in Jobs
      /\ \A key \in {"configuration_updating_period", "log_severity_level",
                     "task_manager_user_thread_count", "operator_count"} : key \in Keys
  BY DEF Jobs, Keys
<1>3. ASSUME UNCHANGED <<config_vars, thread>>
      PROVE  /\ LoadedFits(config_json_, cache_values_)'
             /\ \A u \in Threads : ThreadFits(u)'
  BY <1>3 DEF TypeInv, config_vars, ThreadFits
<1>4. CASE MainStep
  <2>1. CASE CreateUpdater \/ StartUpdating \/ StartSinkUpdate
    <3>1. UNCHANGED config_vars /\ \E job \in Jobs, key \in Keys : Call(Main, job, key)
      BY <1>2, <2>1 DEF CreateUpdater, StartUpdating, StartSinkUpdate, MainCalls
    <3> QED BY <1>1, <3>1, OutsideFits
  <2>2. CASE Start
    <3>1. /\ UNCHANGED config_vars
          /\ \/ UNCHANGED thread
             \/ \E job \in Jobs, key \in Keys : Call(Main, job, key)
      BY <1>2, <2>2 DEF Start
    <3> QED BY <1>1, <1>3, <3>1, OutsideFits
  <2>3. CASE UpdaterCreated \/ AddThreads
    BY <1>1, <2>3, OutsideFits DEF UpdaterCreated, AddThreads
  <2>4. CASE JoinThreads
    BY <1>3, <2>4 DEF JoinThreads
  <2> QED BY <1>4, <2>1, <2>2, <2>3, <2>4 DEF MainStep
<1>5. ASSUME NEW t \in Threads, Continue(t)
      PROVE  /\ LoadedFits(config_json_, cache_values_)'
             /\ \A u \in Threads : ThreadFits(u)'
  <2>1. CASE GetPropertyStep(t)
    BY <1>1, <2>1, GetPropertyFits
  <2>2. CASE ScheduleUpdating(t) \/ RequestDone(t)
    BY <1>1, <2>2, OutsideFits DEF ScheduleUpdating, RequestDone
  <2>3. CASE UpdateSeverityLevel(t) \/ NotifyListeners(t)
    <3>1. /\ UNCHANGED config_vars
          /\ \/ Finish(t)
             \/ \E job \in Jobs, key \in Keys : Call(t, job, key)
      BY <1>2, <2>3 DEF UpdateSeverityLevel, NotifyListeners
    <3> QED BY <1>1, <3>1, OutsideFits
  <2>4. CASE LoadUpdate(t)
    <3>1. "notify" \in Labels
      BY DEF Labels
    <3> QED BY <1>1, <2>4, <3>1, UpdateFits DEF LoadUpdate
  <2> QED BY <1>5, <2>1, <2>2, <2>3, <2>4 DEF Continue
<1>6. ASSUME NEW t \in Threads, Exit(t)
      PROVE  /\ LoadedFits(config_json_, cache_values_)'
             /\ \A u \in Threads : ThreadFits(u)'
  BY <1>1, <1>6, OutsideFits DEF Exit
<1>7. ASSUME NEW t \in UserThreads, RunUpdate(t)
      PROVE  /\ LoadedFits(config_json_, cache_values_)'
             /\ \A u \in Threads : ThreadFits(u)'
  BY <1>1, <1>7, OutsideFits DEF RunUpdate
<1>8. ASSUME NEW t \in IoThreads, Request(t)
      PROVE  /\ LoadedFits(config_json_, cache_values_)'
             /\ \A u \in Threads : ThreadFits(u)'
  <2>1. UNCHANGED config_vars /\ \E job \in Jobs, key \in Keys : Call(t, job, key)
    BY <1>2, <1>8 DEF Request
  <2> QED BY <1>1, <2>1, OutsideFits
<1>9. CASE Stop \/ Edit \/ Rest \/ UNCHANGED vars
  BY <1>3, <1>9 DEF Stop, Edit, EditFile, Rest, vars
<1> QED BY <1>4, <1>5, <1>6, <1>7, <1>8, <1>9 DEF Next

LEMMA TypeInvStep ==
    ASSUME ConfigurationInv, TypeInv, [Next]_vars
    PROVE  TypeInv'
<1>1. /\ LoadedFits(config_json_, cache_values_)'
      /\ \A u \in Threads : ThreadFits(u)'
  BY StepFits
<1>2. started_' \in BOOLEAN /\ stopped_' \in BOOLEAN
  BY DEF TypeInv, Next, vars, manager_vars, MainStep, CreateUpdater, StartUpdating,
         StartSinkUpdate, MainCalls, Start, UpdaterCreated, AddThreads, JoinThreads,
         Continue, ScheduleUpdating, UpdateSeverityLevel, LoadUpdate,
         NotifyListeners, RequestDone, Exit, RunUpdate, Request, Stop, Edit, Rest
<1>3. edits' \in 0 .. MaxEdits
  <2>1. CASE Edit
    BY <2>1, UpdaterAssumption DEF Edit, TypeInv
  <2>2. CASE ~Edit
    <3>1. edits' = edits
      BY <2>2 DEF Next, vars, MainStep, CreateUpdater, StartUpdating,
         StartSinkUpdate, MainCalls, Start, UpdaterCreated, AddThreads, JoinThreads,
         Continue, ScheduleUpdating, UpdateSeverityLevel, LoadUpdate,
         NotifyListeners, RequestDone, Exit, RunUpdate, Request, Stop, Rest
    <3> QED BY <3>1 DEF TypeInv
  <2> QED BY <2>1, <2>2
<1>4. severity_level_' \in SeverityLevel /\ update_listeners_' \in Nat
  <2>1. ASSUME NEW t \in Threads, UpdateSeverityLevel(t) PROVE <1>4!:
    <3>1. severity_level_' \in SeverityLevel
      BY <2>1 DEF UpdateSeverityLevel, ValueOr, ParseSeverityLevel, TypeInv
    <3>2. update_listeners_' \in Nat
      BY <2>1 DEF UpdateSeverityLevel, AddUpdateListener, TypeInv
    <3> QED BY <3>1, <3>2
  <2>2. CASE ~\E t \in Threads : UpdateSeverityLevel(t)
    <3>1. UNCHANGED <<severity_level_, update_listeners_>>
      BY <2>2 DEF Next, vars, updater_vars, MainStep, CreateUpdater, StartUpdating,
         StartSinkUpdate, MainCalls, Start, UpdaterCreated, AddThreads, JoinThreads,
         Continue, ScheduleUpdating, LoadUpdate, NotifyListeners, RequestDone,
         Exit, RunUpdate, Request, Stop, Edit, Rest
    <3> QED BY <3>1 DEF TypeInv
  <2> QED BY <2>1, <2>2
<1> QED BY <1>1, <1>2, <1>3, <1>4 DEF TypeInv

\* The types of the configuration, of the threads and of the process.
THEOREM UpdaterTypeCorrect == Spec => []TypeOK
<1>1. Spec => []TypeInv
  BY TypeInvInit, TypeInvStep, ConfigurationInvariant, PTL DEF Spec
<1>2. ASSUME ConfigurationInv, ChainInv, TypeInv PROVE TypeOK
  <2>1. /\ file \in Contents /\ caching_ \in BOOLEAN
        /\ \A t \in Threads : thread[t].key \in Keys
    BY <1>2 DEF ConfigurationInv, ConfigurationTyped, ThreadsAreRecords
  <2>2. updates \in Nat /\ main \in Statements /\ pool \subseteq IoThreads \cup UserThreads
    BY <1>2 DEF ChainInv, ChainFits, MainFits, PoolFits
  <2> QED BY <1>2, <2>1, <2>2 DEF TypeOK, TypeInv, LoadedFits, ThreadFits
<1> QED BY <1>1, <1>2, ConfigurationInvariant, ChainInvariant, PTL
=============================================================================
