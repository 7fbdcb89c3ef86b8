-------------------------- MODULE CachedConfiguration --------------------------
(***************************************************************************)
(* The class Configuration: the JSON object that was loaded last and the   *)
(* cache of the values that were read from it.  (The module Configuration  *)
(* is what its readers rely on.)                                           *)
(*                                                                         *)
(* A thread inside GetProperty is described by a record: at is what it     *)
(* does next, key what it reads, value what it has found.  Each step is    *)
(* one access to what threads share; a thread whose at is "locked" holds   *)
(* config_mutex_ shared.                                                   *)
(***************************************************************************)
EXTENDS Integers, FiniteSets

CONSTANTS
    Objects,     \* the JSON objects the file may hold: key |-> value or Missing
                 \* (a value of the wrong type is read as a missing one)
    Missing,     \* std::nullopt
    Invalid,     \* a file that does not parse to an object
    Unreadable,  \* a file that cannot be opened
    Threads

Keys == {"configuration_is_caching", "configuration_updating_period",
         "log_severity_level", "task_manager_user_thread_count",
         "operator_count"}

\* The object without keys, the value of config_json_ = {}.
EmptyObject == [k \in Keys |-> Missing]

\* What may be at file_name_.
Contents == Objects \cup {Invalid, Unreadable}

ValuesOf(key) == {object[key] : object \in Objects} \cup {Missing}

ASSUME ObjectsAssumption ==
    /\ \A object \in Objects :
          /\ DOMAIN object = Keys
          /\ object["configuration_is_caching"] \in BOOLEAN \cup {Missing}
    /\ Missing \notin BOOLEAN
    /\ Invalid \notin Objects /\ Unreadable \notin Objects /\ Invalid # Unreadable

VARIABLES
    file,            \* what the administrator has written
    config_json_,
    caching_,
    cache_values_,   \* a ConcurrentHashMap: key |-> value
    thread

config_vars == <<config_json_, caching_, cache_values_>>

\* The operations of ConcurrentHashMap that Configuration uses, each atomic
\* under the mutex of the map: Get, Set and Clear.
MapGet(map, key) == IF key \in DOMAIN map THEN map[key] ELSE Missing
MapSet(map, key, value) ==
    [k \in DOMAIN map \cup {key} |-> IF k = key THEN value ELSE map[k]]
MapCleared == [k \in {} |-> Missing]

\* A mistake for the checks to catch: value_or is forgotten.
UpdateCachingWithoutDefault(object, caching) == object["configuration_is_caching"]

\* UpdateCaching, given the object just loaded.
UpdateCaching(object, caching) ==
    IF object["configuration_is_caching"] = Missing THEN caching
    ELSE object["configuration_is_caching"]

\* A mistake for the checks to catch: the cache outlives the object.
LoadKeepingCache(contents, old) ==
    CASE contents = Unreadable -> old
      [] contents = Invalid -> [old EXCEPT !.json = EmptyObject]
      [] OTHER -> [old EXCEPT !.json = contents,
                              !.caching = UpdateCaching(contents, @)]

\* What UpdateConfiguration makes of the object, the flag and the cache.
Load(contents, old) ==
    CASE contents = Unreadable -> old
      [] contents = Invalid -> [old EXCEPT !.json = EmptyObject]
      [] OTHER -> [json |-> contents,
                   caching |-> UpdateCaching(contents, old.caching),
                   cache |-> MapCleared]

kDefaultCaching_ == TRUE

\* The constructor loads the file.
ConfigurationInit ==
    /\ file \in Contents
    /\ LET loaded == Load(file, [json |-> EmptyObject, cache |-> MapCleared,
                                 caching |-> kDefaultCaching_])
       IN  /\ config_json_ = loaded.json
           /\ caching_ = loaded.caching
           /\ cache_values_ = loaded.cache

\* The three together, as Load takes and returns them.
Loaded == [json |-> config_json_, caching |-> caching_, cache |-> cache_values_]

\* What a reader of the key should get: the value of the object in force, or,
\* after a file that does not parse, what the cache has kept.
InForce(loaded, key) ==
    IF loaded.json = EmptyObject /\ loaded.caching THEN MapGet(loaded.cache, key)
    ELSE loaded.json[key]

-----------------------------------------------------------------------------
(* GetProperty.  seen is the history of what the key should have read as:  *)
(* at the call, and after each load since.                                 *)

Call(t, job, key) ==
    thread' = [thread EXCEPT ![t] =
        [at |-> "caching", job |-> job, key |-> key, value |-> Missing,
         seen |-> {InForce(Loaded, key)}]]

Goto(t, label, value) ==
    thread' = [thread EXCEPT ![t].at = label, ![t].value = value]

\* if (caching_)
TestCaching(t) ==
    /\ thread[t].at = "caching"
    /\ Goto(t, IF caching_ THEN "lookUp" ELSE "reload", Missing)
    /\ UNCHANGED <<file, config_vars>>

\* cache_values_.Get(key): a hit is returned.
LookUp(t) ==
    /\ thread[t].at = "lookUp"
    /\ LET value == MapGet(cache_values_, thread[t].key)
       IN  Goto(t, IF value # Missing THEN "return" ELSE "read", value)
    /\ UNCHANGED <<file, config_vars>>

\* A mistake for the checks to catch: the exclusive lock is forgotten.
LockIsNotTaken == TRUE

\* Nobody holds config_mutex_ shared.
LockIsFree == \A t \in Threads : thread[t].at # "locked"

\* Thread t is in GetProperty and has not read the value yet.
Reading(t) == thread[t].at \in {"caching", "lookUp", "reload", "read"}

\* UpdateConfiguration, under config_mutex_: it is one step because what other
\* threads read without that lock, caching_ and cache_values_, changes last.
\* next is where t goes on.
UpdateConfiguration(t, next) ==
    /\ LockIsFree
    /\ LET loaded == Load(file, Loaded)
       IN  /\ config_json_' = loaded.json
           /\ caching_' = loaded.caching
           /\ cache_values_' = loaded.cache
           /\ thread' = [u \in Threads |->
                 [thread[u] EXCEPT
                     !.at = IF u = t THEN next ELSE @,
                     !.seen = IF Reading(u)
                              THEN @ \cup {loaded.json[thread[u].key],
                                           InForce(loaded, thread[u].key)}
                              ELSE @]]
    /\ UNCHANGED file

\* Without caching every read loads the file.
Reload(t) ==
    /\ thread[t].at = "reload"
    /\ UpdateConfiguration(t, "read")

\* The shared lock, and ReadProperty.
Read(t) ==
    /\ thread[t].at = "read"
    /\ Goto(t, "locked", config_json_[thread[t].key])
    /\ UNCHANGED <<file, config_vars>>

\* if (caching_ && value) cache_values_.Set(...), and the end of the lock.
Store(t) ==
    /\ thread[t].at = "locked"
    /\ cache_values_' = IF caching_ /\ thread[t].value # Missing
                        THEN MapSet(cache_values_, thread[t].key, thread[t].value)
                        ELSE cache_values_
    /\ Goto(t, "return", thread[t].value)
    /\ UNCHANGED <<file, config_json_, caching_>>

GetPropertyStep(t) ==
    TestCaching(t) \/ LookUp(t) \/ Reload(t) \/ Read(t) \/ Store(t)

\* GetProperty(key, default_value), once it has its result.
ValueOr(value, default_value) ==
    IF value = Missing THEN default_value ELSE value

\* The administrator writes the file.
EditFile ==
    /\ file' \in Contents \ {file}
    /\ UNCHANGED <<config_vars, thread>>

-----------------------------------------------------------------------------
(* Properties.                                                             *)

\* The cache never holds a value that config_json_ no longer has, whatever
\* loads run between a reader's look into the cache and its Set, except after
\* a file that does not parse, which empties config_json_ and leaves the cache.
CacheIsCurrent ==
    config_json_ # EmptyObject =>
        \A key \in DOMAIN cache_values_ : cache_values_[key] = config_json_[key]

\* What GetProperty returns is what the key was in the object in force at some
\* moment of the call, although the flag, the cache and the object are read one
\* after the other and loads run in between: readers may take it for one atomic
\* read.  (After a file that does not parse it may also be missing.)
AnswersAreFresh ==
    \A t \in Threads : thread[t].at = "return" => thread[t].value \in thread[t].seen
=============================================================================
