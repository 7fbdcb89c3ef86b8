------------------------- MODULE ConfigurationUpdater -------------------------
(***************************************************************************)
(* ConfigurationUpdater and the life of the process around it: main, which *)
(* builds the objects and starts the threads, TaskManagerImpl, whose user  *)
(* threads run the periodic update, and MainSink, the listener of the      *)
(* updates.  The I/O threads stand for the components that read the        *)
(* configuration while they handle requests.                               *)
(*                                                                         *)
(* Timers have no clock: a pending update may run at any moment, so that   *)
(* nothing depends on updating_period_ and only the read of its key is     *)
(* kept.                                                                   *)
(***************************************************************************)
EXTENDS CachedConfiguration

CONSTANTS
    Main,              \* the thread that runs main
    IoThreads,
    UserThreads,       \* the threads the user pool may have at most
    kDefaultUserThreadCount,
    MaxEdits           \* bound: how often the file is written

ASSUME UpdaterAssumption ==
    /\ Threads = {Main} \cup IoThreads \cup UserThreads
    /\ Main \notin IoThreads \cup UserThreads
    /\ IoThreads \cap UserThreads = {}
    /\ kDefaultUserThreadCount \in 1 .. Cardinality(UserThreads)
    /\ MaxEdits \in Nat

VARIABLES
    main,              \* the statement of main to run next
    started_, stopped_,
    pool,              \* the threads that run an io_context
    updates,           \* timers of ScheduleUpdating that wait in user_context_
    update_listeners_, \* their number
    severity_level_,   \* of MainSink
    edits

manager_vars == <<started_, stopped_, pool>>
updater_vars == <<updates, update_listeners_, severity_level_>>
vars == <<file, config_vars, thread, main, manager_vars, updater_vars, edits>>

SeverityLevel == {"TRACE", "DEBUG", "INFO", "WARNING", "ERROR", "FATAL"}

\* The level of that name, in whatever case the file has it, or none.
ParseSeverityLevel(name) == IF name \in SeverityLevel THEN name ELSE Missing

Jobs == {"none", "request", "update", "listener", "schedule", "count"}
Labels == {"idle", "exited", "caching", "lookUp", "reload", "read", "locked",
           "return", "load", "notify"}
Statements == {"Create", "StartUpdating", "StartSinkUpdate", "Start", "Join",
               "end"}

\* A mistake for the checks to catch: the threads start before the listener is
\* added.
StatementAfterEarlyStart(statement) ==
    CASE statement = "Create" -> "StartUpdating"
      [] statement = "StartUpdating" -> "Start"
      [] statement = "Start" -> "StartSinkUpdate"
      [] statement = "StartSinkUpdate" -> "Join"
      [] statement = "Join" -> "end"

\* The order of the statements of main (the others build objects that take no
\* part here).
StatementAfter(statement) ==
    CASE statement = "Create" -> "StartUpdating"
      [] statement = "StartUpdating" -> "StartSinkUpdate"
      [] statement = "StartSinkUpdate" -> "Start"
      [] statement = "Start" -> "Join"
      [] statement = "Join" -> "end"

Idle == [at |-> "idle", job |-> "none", key |-> "operator_count",
         value |-> Missing, seen |-> {}]

TypeOK ==
    /\ file \in Contents
    /\ config_json_ \in Objects \cup {EmptyObject}
    /\ caching_ \in BOOLEAN
    /\ DOMAIN cache_values_ \subseteq Keys
    /\ \A t \in Threads : /\ thread[t].at \in Labels /\ thread[t].job \in Jobs
                          /\ thread[t].key \in Keys
                          /\ thread[t].value \in ValuesOf(thread[t].key)
                          /\ thread[t].seen \subseteq ValuesOf(thread[t].key)
    /\ main \in Statements
    /\ started_ \in BOOLEAN /\ stopped_ \in BOOLEAN
    /\ pool \subseteq IoThreads \cup UserThreads
    /\ updates \in Nat /\ update_listeners_ \in Nat
    /\ severity_level_ \in SeverityLevel
    /\ edits \in 0 .. MaxEdits

Init ==
    /\ ConfigurationInit
    /\ thread = [t \in Threads |-> Idle]
    /\ main = "Create"
    /\ started_ = FALSE /\ stopped_ = FALSE
    /\ pool = {}
    /\ updates = 0 /\ update_listeners_ = 0
    /\ severity_level_ = "TRACE"
    /\ edits = 0

\* The end of what t does; main goes on to its next statement.
Finish(t) == thread' = [thread EXCEPT ![t] = Idle]
MainGoesOn(t) == main' = IF t = Main THEN StatementAfter(main) ELSE main

-----------------------------------------------------------------------------
(* TaskManagerImpl.                                                        *)

\* start_mutex_ is held by Start while it reads the counts.
StartMutexIsFree == thread[Main].job # "count"

\* A mistake for the checks to catch: the least count is 0.
UserThreadCountOrNone(value) == ValueOr(value, kDefaultUserThreadCount)

\* GetNumber<size_t>(kUserThreadCountKey, user_thread_count_, 1); the instance
\* has no more threads than UserThreads.
UserThreadCount(value) ==
    LET count == ValueOr(value, kDefaultUserThreadCount)
    IN  IF count < 1 THEN 1 ELSE count

\* Start, up to the read of the count (that of the I/O pool is read the same
\* way and is left out; its threads have nothing to do before Start is over,
\* as the server is started after it) ...
Start ==
    /\ main = "Start"
    /\ thread[Main].job = "none"
    /\ IF stopped_ \/ started_
       THEN MainGoesOn(Main) /\ UNCHANGED <<started_, thread>>
       ELSE /\ started_' = TRUE
            /\ Call(Main, "count", "task_manager_user_thread_count")
            /\ UNCHANGED main
    /\ UNCHANGED <<file, config_vars, stopped_, pool, updater_vars, edits>>

\* ... and AddThreadsToGroup.
AddThreads ==
    /\ thread[Main].at = "return" /\ thread[Main].job = "count"
    /\ \E users \in SUBSET UserThreads :
          /\ Cardinality(users) = UserThreadCount(thread[Main].value)
          /\ pool' = IoThreads \cup users
    /\ Finish(Main) /\ MainGoesOn(Main)
    /\ UNCHANGED <<file, config_vars, started_, stopped_, updater_vars, edits>>

\* Stop, called by a thread outside the pools: the contexts stop, what is
\* pending in them is never run.  Its Join is JoinThreads.
Stop ==
    /\ ~stopped_ /\ StartMutexIsFree
    /\ stopped_' = TRUE
    /\ UNCHANGED <<file, config_vars, thread, main, started_, pool, updater_vars,
                   edits>>

\* io_context::run returns when the context is stopped; a handler that runs
\* is completed first.
Exit(t) ==
    /\ t \in pool /\ thread[t].at = "idle" /\ stopped_
    /\ thread' = [thread EXCEPT ![t].at = "exited"]
    /\ UNCHANGED <<file, config_vars, main, manager_vars, updater_vars, edits>>

AllExited == \A t \in pool : thread[t].at = "exited"

\* Join.  The work guards keep run from returning, so that main waits here
\* for a Stop.
JoinThreads ==
    /\ main = "Join" /\ AllExited
    /\ MainGoesOn(Main)
    /\ UNCHANGED <<file, config_vars, thread, manager_vars, updater_vars, edits>>

\* A mistake for the checks to catch: the contexts are not stopped.
CanRunAfterStop(t) == t \in pool /\ thread[t].at = "idle"

\* A thread of the pool is free to take a handler.
CanRun(t) == t \in pool /\ thread[t].at = "idle" /\ ~stopped_

-----------------------------------------------------------------------------
(* ConfigurationUpdater and MainSink.                                      *)

\* Create: the constructor reads the period for the first time; StartUpdating
\* and the end of each update read it again in ScheduleUpdating.
MainCalls(statement, job, key) ==
    /\ main = statement
    /\ thread[Main].job = "none"
    /\ Call(Main, job, key)
    /\ UNCHANGED <<file, config_vars, main, manager_vars, updater_vars, edits>>

CreateUpdater == MainCalls("Create", "update", "configuration_updating_period")
StartUpdating == MainCalls("StartUpdating", "schedule", "configuration_updating_period")
\* AddUpdateListener calls the listener before it adds it.
StartSinkUpdate == MainCalls("StartSinkUpdate", "listener", "log_severity_level")

UpdaterCreated ==
    /\ thread[Main].at = "return" /\ thread[Main].job = "update"
    /\ Finish(Main) /\ MainGoesOn(Main)
    /\ UNCHANGED <<file, config_vars, manager_vars, updater_vars, edits>>

\* PostTaskDelayed: a timer in user_context_.
PostTaskDelayed == updates' = updates + 1

\* ScheduleUpdating, with the period it has read.
ScheduleUpdating(t) ==
    /\ thread[t].at = "return" /\ thread[t].job = "schedule"
    /\ PostTaskDelayed
    /\ Finish(t) /\ MainGoesOn(t)
    /\ UNCHANGED <<file, config_vars, manager_vars, update_listeners_,
                   severity_level_, edits>>

\* AddUpdateListener, of main, after its call of the listener.
AddUpdateListener(t) ==
    update_listeners_' = update_listeners_ + IF t = Main THEN 1 ELSE 0

\* A mistake for the checks to catch: an unknown level is an exception, which
\* TaskWrapped catches and thereby ends the task.
UpdateSeverityLevelThrows(t) ==
    /\ thread[t].at = "return" /\ thread[t].job = "listener"
    /\ LET level == ValueOr(thread[t].value, severity_level_)
       IN  IF level \in SeverityLevel
           THEN /\ severity_level_' = level
                /\ IF t = Main THEN Finish(t)
                   ELSE Call(t, "schedule", "configuration_updating_period")
           ELSE Finish(t) /\ UNCHANGED severity_level_
    /\ MainGoesOn(t)
    /\ AddUpdateListener(t)
    /\ UNCHANGED <<file, config_vars, manager_vars, updates, edits>>

\* UpdateSeverityLevel, the one listener, with the level it has read: it is
\* kept when ParseSeverityLevel does not know the new one.  Then main adds the
\* listener, or ScheduleUpdating follows.
UpdateSeverityLevel(t) ==
    /\ thread[t].at = "return" /\ thread[t].job = "listener"
    /\ severity_level_' =
          ValueOr(ParseSeverityLevel(ValueOr(thread[t].value, severity_level_)),
                  severity_level_)
    /\ IF t = Main THEN Finish(t)
       ELSE Call(t, "schedule", "configuration_updating_period")
    /\ MainGoesOn(t)
    /\ AddUpdateListener(t)
    /\ UNCHANGED <<file, config_vars, manager_vars, updates, edits>>

\* A user thread runs the task: UpdateConfiguration ...
RunUpdate(t) ==
    /\ CanRun(t) /\ updates > 0
    /\ updates' = updates - 1
    /\ thread' = [thread EXCEPT ![t].at = "load", ![t].job = "update"]
    /\ UNCHANGED <<file, config_vars, main, manager_vars, update_listeners_,
                   severity_level_, edits>>

LoadUpdate(t) ==
    /\ thread[t].at = "load"
    /\ UpdateConfiguration(t, "notify")
    /\ UNCHANGED <<main, manager_vars, updater_vars, edits>>

\* A mistake for the checks to catch: the listeners are forgotten.
NotifyNobody(t) ==
    /\ thread[t].at = "notify"
    /\ Call(t, "schedule", "configuration_updating_period")
    /\ UNCHANGED <<file, config_vars, main, manager_vars, updater_vars, edits>>

\* ... and NotifyListeners.
NotifyListeners(t) ==
    /\ thread[t].at = "notify"
    /\ IF update_listeners_ > 0 THEN Call(t, "listener", "log_severity_level")
       ELSE Call(t, "schedule", "configuration_updating_period")
    /\ UNCHANGED <<file, config_vars, main, manager_vars, updater_vars, edits>>

-----------------------------------------------------------------------------
\* A component reads the configuration while it handles a request.
Request(t) ==
    /\ CanRun(t)
    /\ Call(t, "request", "operator_count")
    /\ UNCHANGED <<file, config_vars, main, manager_vars, updater_vars, edits>>

RequestDone(t) ==
    /\ thread[t].at = "return" /\ thread[t].job = "request"
    /\ Finish(t)
    /\ UNCHANGED <<file, config_vars, main, manager_vars, updater_vars, edits>>

Edit ==
    /\ edits < MaxEdits
    /\ EditFile
    /\ edits' = edits + 1
    /\ UNCHANGED <<main, manager_vars, updater_vars>>

\* The process has ended.
Rest == main = "end" /\ UNCHANGED vars

MainStep == CreateUpdater \/ StartUpdating \/ StartSinkUpdate \/ Start
            \/ UpdaterCreated \/ AddThreads \/ JoinThreads

\* A thread goes on with what it has begun.
Continue(t) ==
    \/ GetPropertyStep(t) /\ UNCHANGED <<main, manager_vars, updater_vars, edits>>
    \/ ScheduleUpdating(t) \/ UpdateSeverityLevel(t)
    \/ LoadUpdate(t) \/ NotifyListeners(t)
    \/ RequestDone(t)

Next ==
    \/ MainStep
    \/ \E t \in Threads : Continue(t) \/ Exit(t)
    \/ \E t \in UserThreads : RunUpdate(t)
    \/ \E t \in IoThreads : Request(t)
    \/ Stop
    \/ Edit
    \/ Rest

Spec == Init /\ [][Next]_vars

\* Every thread goes on, a thread that waits for config_mutex_ gets it if it is
\* free again and again, and io_context::run takes what is due.  Nothing is
\* assumed about the file, the requests and Stop.
Fairness ==
    /\ WF_vars(MainStep)
    /\ \A t \in Threads : SF_vars(Continue(t)) /\ WF_vars(Exit(t))
    /\ WF_vars(\E t \in UserThreads : RunUpdate(t))

FairSpec == Spec /\ Fairness

-----------------------------------------------------------------------------
(* Properties.                                                             *)

\* The threads that run an update.
Updating == {t \in UserThreads :
                thread[t].job \in {"update", "listener", "schedule"}}

\* From StartUpdating on there is always exactly one update, pending or
\* running: the chain neither ends, whatever the file holds, nor doubles.
UpdateIsAlwaysDue ==
    main \in {"StartSinkUpdate", "Start", "Join"} =>
        updates + Cardinality(Updating) = 1

\* update_listeners_ has no lock: no update runs while main adds a listener.
ListenersAreNotShared == thread[Main].job = "listener" => Updating = {}

\* What is in the file is loaded in the end, as long as the manager runs and
\* readers do not hold config_mutex_ without a pause: std::shared_mutex lets
\* them in while UpdateConfiguration waits.
FileIsPickedUp ==
    []<>LockIsFree =>
        []<>(stopped_ \/ file \in {Invalid, Unreadable} \/ config_json_ = file)

\* ... and a severity level that is known is put in force.
LevelIsPutInForce ==
    []<>LockIsFree =>
        []<>(\/ stopped_ \/ file \in {Invalid, Unreadable}
             \/ ParseSeverityLevel(file["log_severity_level"]) = Missing
             \/ severity_level_ = file["log_severity_level"])

\* After Stop every thread ends, whatever it was doing, and so does main.
StopEndsAll == stopped_ ~> main = "end"
=============================================================================
