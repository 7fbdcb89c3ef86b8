# TLA+ specifications of the call center

The program is a call-processing centre (a queueing system) behind an HTTP
interface: a `POST /call` becomes a call, a free operator "handles" it for a
random time, calls wait in a bounded queue with a maximum wait, and each is
answered when it has been served or rejected. This directory models the whole
of it: the call center with its queue and operators, the metrics, the journal,
the configuration with its periodic update, the thread pools, and the HTTP
server with its repositories.
Source paths below are relative to `src/call_center/` of the repository.

## Inventory

| Component | State | Operations | Interacts with | Hard part | Correct when |
|---|---|---|---|---|---|
| `CallCenter` | none of its own | `PushCall`, `PerformCallProcessingIteration`, `FinishCallProcessing` and their helpers | everything below; run by both thread pools | no lock across its calls, any interleaving | each call served or rejected once; nobody waits without a timer |
| `CallQueue` | two multisets of waiting calls, set of calls in service, capacity | push, pop, erase timeout, least timeout, processing set | records (keys), configuration | finds calls by equal key and number, never by identity | both indexes hold exactly the waiting calls |
| `CallDetailedRecord` | arrival, timeout point, status, operator | `SetArrivalTime`, `StartService`, `CompleteService` | clock, configuration | assertions on the order of operations | finished exactly once |
| `Operator` | `status_` | `HandleCall`, the posted `finish_handle` | task manager | handed over between threads | busy exactly while it handles a call |
| `OperatorSet` | all operators, free operators | `EraseFree`, `InsertFree`, both resizing | configuration, metrics | resized while operators are out | no operator lost or shared |
| `QueueingSystemMetrics` | counters, table of servers, averages | `Record...`, `SetServers`, periodic update | operator set, task manager | counters changed on different paths; `SetServers` | counters equal the real numbers |
| `Metric` | running average | `AddValue` | | truncating division | equals the mean, up to a bound |
| `Configuration` | JSON object, cache | `GetProperty`, `GetNumber`, `UpdateConfiguration` | all readers | cache against update, files that do not parse | readers see the file |
| `ConfigurationUpdater` | period, listeners | `StartUpdating`, the periodic task | configuration, main sink | chain of tasks that reschedules itself | never stops |
| `TaskManagerImpl` | two `io_context`s, thread groups | post, post delayed, start, stop, join | all of the above | start/stop order | a due task runs; `Stop` ends everything |
| `Journal` | file name, sink | `AddRecord`, replacement of the sink | configuration | no lock | one line per finished call |
| `CallRepository` | none | `HandleRequest` | connection, call center | callback kept over the whole call | one answer per request |
| `HttpServer`, `HttpConnection` | acceptor, stream | accept, read, write, close | repositories | expiry against long calls | each request answered or closed |
| `MetricsRepository` | none | `HandleRequest`, the report | metrics | four reads under separate locks | the report is one that could be true |
| Log, `MainSink` | sinks registered in the log core, severity level | `Info()`, `UpdateSink`, the level as a listener | configuration, journal | lifetime of sinks | a record reaches its own sink only |
| Containers, utilities, `main` | the hash map is the cache | conversions, start-up | | order of start-up | |

`PROJECT.json` has the same list with the state of each component, and under
`hazards` the places in the code where a test would hardly reach.

## Modules

| Module | Models |
|---|---|
| `Configuration` | what readers of the configuration rely on: each read is one of the values in force |
| `CachedConfiguration` | the class `Configuration` itself: `configuration/configuration.{h,cc}` and `concurrent_hash_map.h` |
| `ConfigurationUpdater` | `configuration/configuration_updater.*`, `core/tasks/task_manager_impl.*`, the order of `main.cc`, `main_sink.cc` |
| `Server`, `Operator` | `core/queueing_system/server.*`, `operator.*` |
| `ServersMetrics`, `QueueingSystemMetrics` | the table of servers and the counters of `queueing_system_metrics.*`, as the call center uses them |
| `Metric`, `MetricsCollection` | `metric.h`, and all of `queueing_system_metrics.*`, `service_metrics.*` with the report of `metrics_repository.cc` and `metrics_response_dto.*` |
| `OperatorSet` | `operator_set.*` |
| `OperatorPool` | abstract specification: `OperatorSet`, `Operator` and the table of servers under any users that take, use and return operators |
| `CallDetailedRecord` | `call_detailed_record.*` and the clock |
| `CallQueue` | `call_queue.*` |
| `CallFlow` | abstract specification: what may happen to a call in `CallQueue`, without threads, timers and operators |
| `CallCenter` | `call_center.*`, the threads and timers it runs on; implements `CallFlow` and `OperatorPool` |
| `Journal` | `journal.*` with the `Sink` and `Logger` of `log/` that it writes through |
| `HttpRepository`, `HttpServer` | `repository/*`, `core/http/*` |
| `MC...` | constants and symmetry of the TLC instances |
| `SumTheorems` | facts about the sum of a function over a finite set |
| `...Proofs` | theorems about the module of that name (`MetricsProofs`: `MetricsCollection`, `ConfigurationProofs`: `CachedConfiguration` and `ConfigurationUpdater`, `HttpProofs`: `HttpServer`) |

`Server < Operator < OperatorSet < OperatorPool`,
`Configuration, Server < CallDetailedRecord < CallQueue < CallFlow`, and
`CallCenter` extends `CallQueue`, `OperatorSet` and `QueueingSystemMetrics`.
`CachedConfiguration < ConfigurationUpdater`, `Metric < MetricsCollection`,
`HttpRepository < HttpServer`; `Journal` stands alone.

The parts meet at small interfaces. The call center uses the configuration as
the module `Configuration` says, any value in force at a moment of the read,
and `AnswersAreFresh` of `CachedConfiguration` is exactly that promise. The
HTTP server sees a call as a callback that comes once, at any moment, with any
status; `EveryCallIsAnswered` and `ServedOrRejected` are what `CallCenter`
shows of it. `MetricsCollection` and `Journal` take from `CallCenter` the
order of the statements that a call goes through.

### How state and steps correspond to the code

* Variables carry the names of the members they stand for (`in_receipt_order_`,
  `free_operators_`, `status_`, ...). A multiset is a set of calls; its order
  is that of the keys in the records and, between equal keys, that of
  insertion (`ticket`), as `std::multiset` keeps it. `in_processing_` hashes
  and compares by phone number.
* An operation of `CallQueue` or `OperatorSet` holds one mutex from its first
  to its last line, so it is one step. It is written as a relation between the
  state before, the state after and the result.
* A step of a thread in `CallCenter` is one such operation, together with the
  statements after it that touch only what the thread owns at that moment: the
  record of a call that is in no index, an operator that is not free, an
  increment of a counter, a line of the journal, a new timer. Those commute
  with the steps of the others, and the places where another thread could
  look in between (`QueueIsEmpty`, `EraseFree`, `PopFromQueue`,
  `InsertToProcessing`, `InsertFree`, ...) are all steps of their own.
* In `MetricsCollection` a step is what runs under one of the three mutexes;
  what a mutex guards is one variable. Only the count of the busy servers takes
  several: `service_mutex_` is held while `IsBusy` is asked of each server in
  turn, but the threads that change the status of an operator do not take that
  mutex, so the sum need not have been true at any one moment. `SetServers` is
  part of `QueueingSystemMetrics` and `OperatorSet`; `MetricsCollection` has the
  same servers throughout. In `CachedConfiguration` a step is one
  access to the flag, the cache, the lock or the object, in `Journal` one
  access to a member, in `HttpServer` one handler.
* `thread[t].at` names the operation that thread `t` performs next.
  `finish_tasks` and `iteration_timers` are the timers that `HandleCall` and
  `ScheduleCallProcessingIteration` post; a user thread that is idle may take
  up a timer at any instant from its due time on, in any order.
* A failed `assert` ends the process (`crashed`, `aborted`); so does, in the
  models, the dereference of `begin()` of an empty index, which is undefined.
  The journal has no lock, so concurrent writes of its members are a data
  race: `raced` is set, and from then on a record may be lost or the process
  end.
* Identities (`Calls`, `OperatorIds`, `Connections`), phone numbers, files and
  threads are model values, instants are small numbers. A call identity is
  used once. Ids of operators may be drawn again once an operator has been
  removed; nothing of the old one is left then.
* `UpdateConfiguration` may replace the values of all keys between any two
  steps of `CallCenter`. This covers both modes of the program: periodic
  update with caching, and reading the file at each access.
* Boost is modelled from how the code uses it: an `async_` operation ends at
  any moment with a success, an end of stream, an error or the timeout;
  `io_context` runs posted handlers on the threads of its pool; the wrapper
  around a task catches what the task throws. `as_object()` and `at()` are
  taken to throw `boost::system::system_error`, which `CallRepository`
  catches; the repository does not pin the version of Boost, and old versions
  throw other types.

## Runs

| Run | Instance | Shows |
|---|---|---|
| `operator_pool` | 3 ids, counts missing, 0, 1, 2, 3, changing | `OwnershipIsExclusive`, `BusyMeansHandling`, `CountFollowsConfiguration` |
| `call_flow` | 3 calls, 2 numbers, capacities missing, 0, 1, 2 and waits 1, 2, changing | `IndexesAgreeUnlessTwins` (with the processing set), `NeverCrashesUnlessTwins`, `LeavesInTurn`, `GrowsWithinCapacity` |
| `call_center` | 3 calls, 2 numbers, operator count 1 or 2, changing, 2+1 threads, delays 0 and 1 | `NeverCrashes`, `TimeoutIsScheduled`, `MetricsAreExact`, `JournalIsExact`, `ServedOrRejected`, `ImplementsOperatorPool` |
| `call_center_flow` | 3 calls of one number, 2+1 threads, wait 0 or 1, changing | `ImplementsCallFlow`, including the way in which a disagreement of the two indexes ends the process; `ArrivalsAreAccountedFor` |
| `call_center_live` | 3 calls of one number, 1+1 threads, fair | `EveryCallIsAnswered` |
| `configuration` | main, 2 I/O threads and a user thread, 3 objects with all kinds of values, a file that does not parse, one that cannot be read, one edit, `Stop` at any moment, fair | reads are atomic and the cache current (`AnswersAreFresh`, `CacheIsCurrent`); the chain of updates neither ends nor doubles (`UpdateIsAlwaysDue`); listeners are not shared; edits and levels take effect (`FileIsPickedUp`, `LevelIsPutInForce`); `StopEndsAll` |
| `metrics` | 3 calls and 1 server or 2 calls and 2 servers with a clock, 2 calls and 2 servers with samples, and with `Start` and `Stop` | `AveragesAreMeans`, `IntervalsAddUp`, `LossIsAShare`, `LoadIsFeasible`, `ReportIsInOrder`, `SamplingGoesOn` |
| `http` | 2 connections, 8 requests (one for each way through the dispatch), fair | `ListensUntilAcceptFails`, `OneExchange`, `AnsweredUnlessExpired`, `EveryConnectionIsClosed` |
| `journal` | 3 threads, 2 files, sizes 0 and 2 or missing, one change | `RecordedOnce`, `RacesNeedAChange`, `SinksAreReleased` |

Three runs show a disagreement between the code and what its comments,
documentation or assertions say:

| Run | Property | What happens |
|---|---|---|
| `operator_pool_assert` | `NoAssertionFails` | `operator_count` changes while an operator serves; `SetServers(free_operators_)` forgets it and the end of its call fails the assertion of `RecordServiceComplete` |
| `call_flow_unique` | `CallsAreUnique` | `Contains` compares only calls with an equal arrival time, so one number can be queued twice |
| `call_center_idle` | `NoIdleOperatorWhileWaiting` | an operator given back unused is not followed by an iteration; a call queued meanwhile waits beside a free operator |

The two refinements are checked under different changes of the configuration,
because each abstract specification knows only its own ways to end the
process: an operator unknown to the metrics is no step of `CallFlow`, and a
record finished twice is no step of `OperatorPool`.

### What the properties had to leave out

Some properties name a condition under which they hold, because the code does
not give more. Each of these is a place to look at in the source.

* **Twins.** `EraseCallFromMultiset` erases the first call with an equal key
  and number, where its comment demands that "необходимо удалить только
  переданный в аргументах запрос" (`call_queue.h:141-142`). When
  `call_max_wait` is lowered, two queued calls of one number that arrived at
  different instants can get waits that end together; the index by timeout
  then loses the wrong one, and `begin()` of an empty index may follow.
  `CallFlow!Twins` is exactly this case, and the properties of the queue hold
  outside it.
* **A lowered `call_max_wait`.** An iteration that finds an operator serves
  the call that arrived first and sets no timer, even if it was run for
  another call. When all waits are equal that call is the one whose wait ends
  first, and each call left behind has an iteration or a timer of its own.
  With two waits it need not be: a call with the shorter wait loses its
  iteration to an older call with the longer one, when an operator was added
  meanwhile, and is looked at only when the next event happens to come.
  `TimeoutIsScheduled` (an iteration is under way, or each waiting call has a
  timer due by the end of its wait) is therefore checked and proved for one
  `call_max_wait`.
* **A changed `operator_count`.** `SetServers(free_operators_)` drops the rows
  of the operators that serve, and with them their counts of serviced calls:
  `ArrivalsAreAccountedFor` is checked and proved for one `operator_count`,
  and so is that no assertion about an operator fails.
* **A file that does not parse** empties `config_json_` and leaves the cache:
  keys read before keep their old value, others get the default
  (`CacheIsCurrent` excepts it).
* **Writers wait for readers.** `std::shared_mutex` promises no turn to
  `UpdateConfiguration`; `FileIsPickedUp` and `LevelIsPutInForce` assume that
  the lock is free again and again.
* **The journal** has no lock. When its configuration changes, two threads may
  both replace sink and logger: a record may then be lost or written through
  an object that is gone. `RacesNeedAChange` shows that nothing less than a
  change leads there.
* **A failed accept** ends the service for good: `OnAccept` calls `Stop`, and
  nothing calls `Start` again. If something did, `Open` would read
  `endpoint_`, a reference to an object that no longer exists.
* **Metrics.** The average of durations is truncated at each step and may be
  off by half a tick per value; with many values it hardly moves. The least
  value starts at 0 and is never above it. The greatest wait of a report is
  floored to seconds and may be below the average; that the least is not above it
  shows little, for the same reason. `Stop` and `Start` before
  the pending sample leave two chains of samples, and the reset by `Start`
  leaves the service times, so that the load is feasible only before it. The
  program calls neither `Stop` nor `GetProbabilityOfLoss`: what is said of them
  (`SamplingGoesOn` after a `Stop`, `LossIsAShare`) concerns the interface of the
  class.

Further disagreements, visible in one function and without a run: `GetNumber`
clamps a value out of range (`configuration/configuration.h:147`) where its
comment promises the default (lines 49-50); `GetProbabilityOfLoss` is the
share of calls that were served; `GetAverageServiceTime` is a sum over the
servers; a target with a second slash is never found; the status of a call
that timed out is spelled "timout"; `journal_max_size` has no effect, since
the backend of the sink writes to a stream and knows no limit.

### Bounds

Every bound is a constant. `MaxTime` ends the clock and `MaxArrivalTime` is
the last instant of an arrival; `CallCenterAssumption` demands that all waits
end by `MaxTime`, so that timeouts always happen within the bound. A
service that would end after `MaxTime` ends at `MaxTime`; a delay longer than
the wait is still longer than the wait. `MaxServiced` bounds the counters of
`OperatorPool`, `MaxEdits` and `MaxChanges` the edits of the file.
Three calls are the least number with one in service, one waiting and one
arriving; two numbers the least with equal and different ones; two I/O
threads the least with which two instances of `PushCall` interleave. The run
`call_center` has one wait and one instant of arrival, so that its threads,
timers and operators fit: waits that differ, and indexes that disagree because of
them, are the subject of `call_flow` (one step at a time), of `call_center_flow`
(with threads) and of the theorems, which have no such bound. One edit of the
file is enough to meet a reader at each of its steps, since the file may hold
anything before and after. Three writers of the journal are the least with two that race and one
that comes later. `MetricsCollection` explores time, samples and restarts in
behaviours of their own, because they meet in no variable that a property
relates; two servers are the least of which one may change while the other is
asked.

### Fairness

* `call_center_live` assumes that a thread inside an operation goes on (the
  methods never wait for each other except for mutexes held for a few
  statements), that a due task is eventually run by some user thread
  (`io_context::run` dispatches expired timers and handlers in a loop), and
  that time passes. Nothing is assumed of new calls or of the configuration.
  The run has one thread of each kind; the interleavings are the subject of
  the others.
* `configuration` assumes the same of main, of the threads and of the pending
  update. A thread that waits for `config_mutex_` gets it when it is free
  again and again (strong fairness): a mutex that is released infinitely
  often is not withheld from one waiter forever, while nothing is assumed
  when readers overlap without end.
* `http` assumes of each connection that what it has started comes to an end:
  the library calls the handler, the call center finishes the call, and the
  30 seconds run out. Nothing is assumed of clients or of accepts.

## Proofs

Checked by TLAPS for every value of the constants that satisfies the named
assumptions: any calls, phone numbers, operators, threads, files, connections
and times, where TLC has two or three. The assumptions are those of the
modules, which TLC evaluates on its instances. Beyond kinds and bounds they
say that `Calls`, `Servers`, the operator ids and the threads are finite sets,
that there are ids for every configured count, that a value that stands for
"none" is not a real one, and that every wait ends within `MaxTime`.

Every invariant and every safety action property of the passing runs is the
subject of a theorem. A few theorems go further and state formulas of the proof
modules that no run checks (`NumbersTheorem`, `NoClonesTheorem`,
`RecordsAreFinalTheorem`, `QueueIsBoundedTheorem`, `NothingIsLeftTheorem`,
`EndIsQuietTheorem`, `EndIsFinalTheorem`): they are what the invariants lead to
when they are put together. Some theorems have a hypothesis or an exception that the
invariant as TLC checks it does not show, because the instance of the run
already meets it; each is a real condition of the code (see above):

| Theorem | Condition |
|---|---|
| `TypeTheorem`, `NeverCrashesTheorem`, `ServedOrRejectedTheorem`, `MetricsAreExactTheorem` of `CallCenterProofs` | no twins; `OneWaitTheorem` proves that there are none while `call_max_wait` stays the same |
| `JournalIsExactTheorem` | the process has not crashed |
| `TimeoutTheorem`, `NothingIsLeftTheorem` | `call_max_wait` stays the same |
| `NoClonesTheorem`, `RecordsAreFinalTheorem` of `CallFlowProofs` | no twins |
| `QueueIsBoundedTheorem` | `N` bounds every capacity the file may hold, and the default if the key may be missing |
| `ArrivalsTheorem`, `NeverAbortsTheorem`, `OneCountTheorem` | `operator_count` stays the same |

### Operators: `OperatorPoolProofs`

`TypeCorrect`, `OwnershipTheorem` and `BusyTheorem` have one inductive
invariant, the conjunction of the three properties: what an owner may do next
depends on `phase`, that an operator taken from the free set is not busy on
`BusyMeansHandling`, and that resizing leaves owned operators alone on the
lemma `UpdateKeepsOwned` (it adds only free operators and removes only free
ones). `CountTheorem` is the action property: each change of the free set
carries out the configured count as far as free operators allow.
`OneCountTheorem` is the counterpart of the run `operator_pool_assert`: with
one count the operators are always as many as configured and the table has a
row for each (`Steady`), so that `UpdateOperatorCount` never touches the table
and no assertion fails.

### Calls: `CallFlowProofs`

`FlowTypeTheorem`, `IndexesAgreeTheorem`, `NeverCrashesTheorem`,
`GrowsWithinCapacityTheorem`, `LeavesInTurnTheorem`, for all changes of
capacity and wait. `IndexesAgree` is not inductive: an erase by equal key and
number is right only if no other queued call matches. For the arrival times
that is what `Contains` still guarantees (`NoClonesInQueue`), for the timeout
points the absence of twins; twins, once there, stay (arrival times and
timeout points never change), so `Twins \/ FlowInv` is inductive. `FlowInv`
adds that calls on their way have arrived and are not finished, for the
assertions of the record. The lemma `EraseFromQueueIsExact` is the heart of
it. `NumbersAreReleased` stands on `FlowInv`: the processing set keeps a number
once, while two calls of that number may be in service; the first to end takes
the entry out, and the second must find none rather than leave one behind, which
`Contains` would refuse for ever (`NumbersTheorem`, a part of
`IndexesAgreeTheorem`). `RecordsTheorem` says which fields of a record are set at each stage of a
call, and `RecordsAreFinalTheorem` that no step changes the record of a finished
one. `NoClonesTheorem` is what remains of the uniqueness that the run
`call_flow_unique` refutes: no two queued calls have the same number and arrival
time. `QueueIsBoundedTheorem` needs no invariant of the indexes: a capacity is
read from the file, is the old one or is the default, and the queue grows only
below the one just read (it may stay longer than a capacity lowered later, but not
longer than the largest). `NoTwinsTheorem` says that with one `call_max_wait` there are no twins, since
every wait is then the arrival plus the same number (`WaitsAlways`).

### The whole: `CallCenterProofs`

`CallCenter` has the threads, timers and counters, and two abstract
specifications; the proof goes along them.

* **`CallFlowRefinement`.** The stage of a call in `CallFlow` is a function of
  where it is: with a thread at some label, with a finish task, in an index.
  That only makes sense if it is in one of these places, `FlowPart`
  (`EveryCallHasItsPlace`): each thread has a call exactly at the labels where
  it should, no two threads or tasks have the same one, and none has one that
  is in the queue. For each step of `Next` the proof names the step of
  `CallFlow` that it is, or shows that no stage changes; both come out of one
  lemma about what it means for a thread to go on with its call.
* **`OperatorPoolRefinement`.** The same with operators: free, with one
  thread, or with one finish task (`PoolPart`, `EveryOperatorHasItsOwner`).
  `PoolPart` also has that no row of the table counts more than the calls that
  were served, because `OperatorPool` bounds its counters by `MaxServiced`
  and the instance in `CallCenter` bounds them by the number of calls.
* With the refinements, what is proved of the abstract specifications holds
  for the threads: `NeverCrashesTheorem`, `ServedOrRejectedTheorem` (by
  `RecordsTheorem`), `OneWaitTheorem`, `NeverAbortsTheorem`,
  `QueueIsBoundedTheorem` and `QueueDisciplineTheorem` (the action properties of
  `CallFlow`).
* **`JournalIsExactTheorem`, `MetricsAreExactTheorem`** speak of moments
  without an operation in progress, and are not inductive for that reason.
  `JournalFits` says which calls have a record at each label; `CountersFit`
  that the two current counts are the numbers of calls in certain stages, at
  every moment. At rest those are the queue and the finish tasks.
* **`TypeTheorem`** needs `CountersFit`, since the current counts are natural
  numbers only because no call is counted down that was not counted up: where
  they were not, `size_t` would wrap. `Tallies` has the types of the rest.
* **`ArrivalsTheorem`**: `ArrivalsFit` is kept because with `Steady` each
  finished service finds the row of its operator; `SumFunctionChange` says
  that the sum over the table grows by one.
* **`TimeoutTheorem`** is the deepest one. It holds at every moment, also in the
  middle of operations: an iteration is under way, or each waiting call has a
  timer that expires no later than its wait. That a timer covers the call whose
  wait ends first is not inductive: an iteration may take that call away and
  leave the next to timers set for others. The invariant counts instead
  (`Planned`): for each instant, there are at least as many iterations under
  way, or timers due by then, as queued calls whose wait ends by then. An
  iteration that ends without a timer has taken a call out, and the one that
  arrived first is counted at every instant where any is, since waits end in
  the order of arrival; one that sets a timer sets it for the least timeout
  point.
* **`NothingIsLeftTheorem`** puts the others together for a call center that
  has come to rest, with no operation, finish task or timer pending: by
  `TimeoutTheorem` nobody waits, by `NumbersAreReleased` the processing set is
  empty, by `PoolPart` every operator is free, and at rest the journal has each
  call once and both current counts are zero. It is the safety half of
  `EveryCallIsAnswered`: if the events that are pending all happen, nothing is
  lost; that they happen is left to TLC.

### Metrics: `MetricsProofs`, `SumTheorems`

`SamplingGoesOnTheorem` follows from the number of chains at each point of
`Start`, `Stop` and the task. `AveragesAreMeansTheorem` rests on arithmetic of
`Metric::AddValue` (`NewAverage` and the lemmas before it): each truncating
division adds at most half a tick of error and the divisor then shrinks the
old one. `IntervalsAddUpTheorem` telescopes. For `LossIsAShareTheorem`,
`LoadIsFeasibleTheorem` and `ReportIsInOrderTheorem` there are four
invariants: where the calls are in the order of their statements (`CallsInv`),
what each metric holds (`MetricsInv`; with `AskedOnce`, that the servers counted
and those still to be asked are no more than there are), that serviced calls are arrivals
(`CountsInv`), that the service times of one server do not overlap
(`LoadInv`); then what a reader has collected so far stays true of what it
will still read, because the counts only grow (`ReaderInv`).

`SumTheorems` has `SumFunctionType`, `SumFunctionChange` and
`SumFunctionBound` for the sums over tables. `SumFunction` of the community
modules is defined by recursion over sets; the induction is done by hand, as a
least counterexample: among the subsets for which the claim fails there is one
of least cardinality. That the recursion has a solution at all is proved the
same way.

### Configuration, journal, HTTP

* `ConfigurationProofs`: `CacheIsCurrentTheorem`, `AnswersAreFreshTheorem`,
  for any threads, keys' values and edits. The cache is written under the
  shared lock with what was read under it (`ReadersAreCurrent`), and a load
  needs the lock exclusively and clears the cache with the object, so no old
  value can come back; without caching the cache is empty
  (`CacheIsUsed`). `UpdateIsAlwaysDueTheorem` and
  `ListenersAreNotSharedTheorem` follow main, the pools and the one task
  through start and stop; `UpdaterTypeCorrect` has the types.
  `EndIsQuietTheorem` and `EndIsFinalTheorem` are the safety half of
  `StopEndsAll`: when main is past `Join`, `Stop` was called, no thread is inside
  a handler and nothing but the file changes any more, whether `Stop` came
  before `Start`, during it or after. The strengthening `EndFits` says that a
  thread leaves `run` only after `Stop`, and that `Start` leaves a pool empty
  only if `Stop` came first.
* `JournalProofs`: `RacesNeedAChangeTheorem`, `SinksAreReleasedTheorem`,
  `RecordedOnceTheorem`, for any threads, files, sizes and number of changes.
  For the first, the journal has what it would read until the first change
  (`Settled`, by the lemma `ReadAgain`: reading what was read gives the same,
  a size below 1 included); for the second, `SinksInUse` says which sinks the
  core has while one thread replaces them.
* `HttpProofs`: `ListensTheorem`, `OneExchangeTheorem`, `AnsweredTheorem`, for
  any connections and requests. The strengthening `Life` lists the states a
  connection goes through: fresh, reading, read, with the call center,
  writing, over.

### Only model-checked

Liveness, which needs fairness and `ENABLED` and is out of the prover's reach:
`EveryCallIsAnswered`, `FileIsPickedUp`, `LevelIsPutInForce`, `StopEndsAll`,
`EveryConnectionIsClosed`. The three violations are counterexamples and need
no proof.

## Not modelled

* Formatting of log messages, dates and uuids, the syntax of HTTP and JSON:
  data that no property tells apart.
* `core/containers/queue.h`, `concurrent_hash_set.h` and `request_metrics.*`:
  no part of the program uses them.
* `CallDetailedRecord::GetTotalTime`, which locks its mutex shared while it
  holds it shared already: only tests call it.
* The branch of `OnAccept` for a connection accepted after `Stop`: only
  `OnAccept` itself calls `Stop`, and no accept is under way then.
* The bounds of an operator's delay are read for each call and are constants
  here; the delay itself is any value between them.

## Plan

All components are modelled and all safety properties proved. What may follow:

* when the code is changed at one of the places listed under "What the
  properties had to leave out", the condition in the property and the
  hypothesis of its theorem go, and the proof shows whether the repair is
  enough;
* liveness stays with TLC; the parts of its argument that are safety
  (`TimeoutTheorem`, `UpdateIsAlwaysDueTheorem`, `OneExchangeTheorem`: the
  event that must come is always pending; `NothingIsLeftTheorem`,
  `EndIsQuietTheorem`: nothing is left when all of them are over) are proved.
