--------------------------- MODULE MetricsCollection ---------------------------
(***************************************************************************)
(* QueueingSystemMetrics in full: what the threads that push, serve and    *)
(* reject calls record, the periodic sampling, Start and Stop, and the     *)
(* requests that read the metrics.  A call goes through the steps that     *)
(* CallCenter puts it through, in the order of their statements; which     *)
(* call is served when, CallCenter decides, and here nothing does.         *)
(*                                                                         *)
(* What one mutex guards is one variable: queue (queue_mutex_), dropout    *)
(* (dropout_mutex_), service (service_mutex_).  An action is what runs     *)
(* under one lock, or one access to what no lock guards; only the count of *)
(* the busy servers, which asks each of them while service_mutex_ is held, *)
(* is several.                                                             *)
(***************************************************************************)
EXTENDS Metric, Functions

CONSTANTS
    Calls, Servers, NoServer,
    Scale,        \* 1 / Scale is the unit of the averages of doubles
    Second,       \* the length of a second in ticks of the clock
    Bounds        \* the bounds of a behaviour, one of these: its last instant,
                  \* how many calls arrive and how many servers get one, how
                  \* often the periodic metrics are updated, and how often
                  \* Start is called after the constructor

ASSUME CollectionAssumption ==
    /\ IsFiniteSet(Servers) /\ NoServer \notin Servers
    /\ Bounds \subseteq [time : Nat, calls : Nat, servers : Nat, samples : Nat, starts : Nat]
    /\ Second \in Nat \ {0}
    /\ Scale \in Nat \ {0}
    /\ \A b \in Bounds : \A n \in 2 .. b.samples : Scale % (n * (n - 1)) = 0

VARIABLES
    bound,
    now,
    call,                   \* what CallDetailedRecord knows of the times
    queue, dropout, service,
    started_, recording_start_time_,
    tasks,                  \* where the calls of Start and the sampling tasks are
    asking,                 \* the servers still to be asked, the busy ones counted
    first_arrival,          \* history: the first arrival that was recorded
    starts,                 \* history: calls of Start that took effect
    reader                  \* a thread that reads, and what it has read

locked_vars == <<queue, dropout, service>>
sampling_vars == <<started_, recording_start_time_, tasks, asking, starts>>
vars == <<bound, now, call, locked_vars, sampling_vars, first_arrival, reader>>

NoTime == -1
NotReading == [at |-> "idle"]
Fields == {"wait_time", "queue_size", "busy_operators_count", "service_load_erlang"}
Stages == {"new", "arrived", "queued", "starting", "assigned", "busy",
           "completed", "rejected", "dropped", "done"}

\* Where a thread that samples, or that runs Start, may be.
Points == {"schedule", "pending", "sampleService", "askServers"}
NobodyAsked == [servers |-> {}, busy |-> 0]

Init ==
    /\ bound \in Bounds
    /\ now = 0
    /\ call = [c \in Calls |-> [at |-> "new", server |-> NoServer,
                                arrival |-> NoTime, start |-> NoTime,
                                complete |-> NoTime]]
    /\ queue = [arrival_count_ |-> 0, current_queue_size_ |-> 0,
                current_in_system_count_ |-> 0, prev_arrival_ |-> NoTime,
                time_between_requests_ |-> NewMetric, wait_time_ |-> NewMetric,
                queue_size_ |-> NewMetric, in_system_count_ |-> NewMetric]
    /\ dropout = [dropout_count_ |-> 0, refused_wait_time_ |-> NewMetric]
    /\ service = [servers_metrics_ |-> [s \in Servers |-> NewMetric],
                  busy_server_count_ |-> NewMetric]
    \* The constructor of CallCenter has called Start.
    /\ started_ = TRUE
    /\ recording_start_time_ = 0
    /\ tasks = [p \in Points |-> IF p = "pending" THEN 1 ELSE 0]
    /\ asking = NobodyAsked
    /\ first_arrival = NoTime
    /\ starts = 0
    /\ reader = NotReading

-----------------------------------------------------------------------------
(* The life of a call.                                                     *)

At(c, stage) == call[c].at = stage
Move(c, stage) == call' = [call EXCEPT ![c].at = stage]
Outside == UNCHANGED <<bound, now, sampling_vars, reader>>

\* The thread that counts the busy servers holds service_mutex_ all the while.
ServiceMutexIsFree == tasks["askServers"] = 0

\* SetArrivalTime: the time is taken before any lock.
Arrive(c) ==
    /\ At(c, "new")
    /\ Cardinality({d \in Calls : ~At(d, "new")}) < bound.calls
    /\ call' = [call EXCEPT ![c].at = "arrived", ![c].arrival = now]
    /\ UNCHANGED <<locked_vars, first_arrival>> /\ Outside

\* A mistake for the checks to catch: an arrival that is recorded late does not
\* put prev_arrival_ back.
UpdateAvgTimeBetweenRequestsForward(q, last_arrival_time_) ==
    IF q.prev_arrival_ = NoTime THEN [q EXCEPT !.prev_arrival_ = last_arrival_time_]
    ELSE [q EXCEPT !.time_between_requests_ =
                        AddValue(@, last_arrival_time_ - q.prev_arrival_, 1),
                   !.prev_arrival_ = Max({@, last_arrival_time_})]

UpdateAvgTimeBetweenRequests(q, last_arrival_time_) ==
    IF q.prev_arrival_ = NoTime THEN [q EXCEPT !.prev_arrival_ = last_arrival_time_]
    ELSE [q EXCEPT !.time_between_requests_ =
                        AddValue(@, last_arrival_time_ - q.prev_arrival_, 1),
                   !.prev_arrival_ = last_arrival_time_]

RecordRequestArrival(c) ==
    /\ At(c, "arrived") /\ Move(c, "queued")
    /\ queue' = UpdateAvgTimeBetweenRequests(
                    [queue EXCEPT !.arrival_count_ = @ + 1,
                                  !.current_in_system_count_ = @ + 1,
                                  !.current_queue_size_ = @ + 1],
                    call[c].arrival)
    /\ first_arrival' = IF first_arrival = NoTime THEN call[c].arrival
                        ELSE first_arrival
    /\ UNCHANGED <<dropout, service>> /\ Outside

\* GetWaitTime and GetServiceTime of a record for which they have a value.
GetWaitTime(r) == IF r.start # NoTime THEN r.start - r.arrival
                  ELSE r.complete - r.arrival
GetServiceTime(r) == r.complete - r.start

\* CallDetailedRecord::StartService: an operator that CallCenter took from the
\* free ones, which nobody else has.
StartService(c, s) ==
    /\ At(c, "queued")
    /\ \A other \in Calls : At(other, "done") \/ call[other].server # s
    /\ Cardinality({s} \cup ({call[d].server : d \in Calls} \ {NoServer})) <= bound.servers
    /\ call' = [call EXCEPT ![c].at = "starting", ![c].server = s,
                            ![c].start = now]
    /\ UNCHANGED <<locked_vars, first_arrival>> /\ Outside

RecordServiceStart(c) ==
    /\ At(c, "starting") /\ Move(c, "assigned")
    /\ queue' = [queue EXCEPT !.current_queue_size_ = @ - 1,
                              !.wait_time_ = AddValue(@, GetWaitTime(call[c]), 1)]
    /\ UNCHANGED <<dropout, service, first_arrival>> /\ Outside

\* Operator::HandleCall ...
HandleCall(c) ==
    /\ At(c, "assigned") /\ Move(c, "busy")
    /\ UNCHANGED <<locked_vars, first_arrival>> /\ Outside

\* ... and its end: the operator is not busy, CompleteService takes the time.
CompleteService(c) ==
    /\ At(c, "busy")
    /\ call' = [call EXCEPT ![c].at = "completed", ![c].complete = now]
    /\ UNCHANGED <<locked_vars, first_arrival>> /\ Outside

\* ServiceMetrics: service_time_, whose total is total_service_time_.
AddCompletedService(metrics, r) == AddValue(metrics, GetServiceTime(r), 1)

\* RecordServiceComplete: queue_mutex_ is taken inside service_mutex_.
RecordServiceComplete(c) ==
    /\ ServiceMutexIsFree
    /\ At(c, "completed") /\ Move(c, "done")
    /\ service' = [service EXCEPT !.servers_metrics_[call[c].server] =
                       AddCompletedService(@, call[c])]
    /\ queue' = [queue EXCEPT !.current_in_system_count_ = @ - 1]
    /\ UNCHANGED <<dropout, first_arrival>> /\ Outside

\* RejectCall: CompleteService, then RecordRequestDropout with its two locks.
RejectCall(c) ==
    /\ At(c, "queued")
    /\ call' = [call EXCEPT ![c].at = "rejected", ![c].complete = now]
    /\ UNCHANGED <<locked_vars, first_arrival>> /\ Outside

RecordRequestDropout(c) ==
    \/ /\ At(c, "rejected") /\ Move(c, "dropped")
       /\ queue' = [queue EXCEPT !.current_queue_size_ = @ - 1,
                                 !.current_in_system_count_ = @ - 1]
       /\ UNCHANGED <<dropout, service, first_arrival>> /\ Outside
    \/ /\ At(c, "dropped") /\ Move(c, "done")
       /\ dropout' = [dropout_count_ |-> dropout.dropout_count_ + 1,
                      refused_wait_time_ |-> AddValue(dropout.refused_wait_time_,
                                                      GetWaitTime(call[c]), 1)]
       /\ UNCHANGED <<queue, service, first_arrival>> /\ Outside

-----------------------------------------------------------------------------
(* Start, Stop and the chain of sampling tasks.                            *)

Step(from, to) == [tasks EXCEPT ![from] = @ - 1, ![to] = @ + 1]
Recording == UNCHANGED <<bound, now, call, dropout, first_arrival, reader>>

\* Start: test_and_set and Reset, whose store nothing else depends on; then
\* ScheduleUpdatePeriodicMetrics follows.
Start ==
    /\ starts < bound.starts
    /\ ~started_
    /\ started_' = TRUE /\ starts' = starts + 1
    /\ recording_start_time_' = now
    /\ tasks' = [tasks EXCEPT !["schedule"] = @ + 1]
    /\ UNCHANGED <<queue, service, asking>> /\ Recording

Stop ==
    /\ started_ /\ starts < bound.starts
    /\ started_' = FALSE
    /\ UNCHANGED <<queue, service, recording_start_time_, tasks, asking, starts>>
    /\ Recording

\* A mistake for the checks to catch: the task is posted the first time only.
ScheduleUpdatePeriodicMetricsOnce ==
    /\ tasks["schedule"] > 0
    /\ tasks' = IF started_ /\ queue.queue_size_.count = 0
                THEN Step("schedule", "pending")
                ELSE [tasks EXCEPT !["schedule"] = @ - 1]
    /\ UNCHANGED <<queue, service, started_, recording_start_time_, asking, starts>>
    /\ Recording

\* ScheduleUpdatePeriodicMetrics ends the chain if metrics were stopped.  The
\* period it reads decides when the task runs; here it may run at any time.
ScheduleUpdatePeriodicMetrics ==
    /\ tasks["schedule"] > 0
    /\ tasks' = IF started_ THEN Step("schedule", "pending")
                ELSE [tasks EXCEPT !["schedule"] = @ - 1]
    /\ UNCHANGED <<queue, service, started_, recording_start_time_, asking, starts>>
    /\ Recording

\* Server::IsBusy is read under no lock that HandleCall or its end would take ...
IsBusy(s) == \E c \in Calls : At(c, "busy") /\ call[c].server = s

\* ... so that a server may change after it was asked and before the next one is.
GetCurrentBusyServerCount ==
    \E s \in asking.servers :
        asking' = [servers |-> asking.servers \ {s},
                   busy    |-> asking.busy + (IF IsBusy(s) THEN 1 ELSE 0)]

\* The task: UpdatePeriodicMetrics, under one lock and then under the other.
UpdatePeriodicMetrics ==
    \/ /\ tasks["pending"] > 0
       /\ queue.queue_size_.count < bound.samples
       /\ queue' = [queue EXCEPT
             !.queue_size_ = AddValue(@, queue.current_queue_size_, Scale),
             !.in_system_count_ = AddValue(@, queue.current_in_system_count_, Scale)]
       /\ tasks' = Step("pending", "sampleService")
       /\ UNCHANGED <<service, started_, recording_start_time_, asking, starts>>
       /\ Recording
    \/ /\ tasks["sampleService"] > 0 /\ ServiceMutexIsFree
       /\ asking' = [servers |-> Servers, busy |-> 0]
       /\ tasks' = Step("sampleService", "askServers")
       /\ UNCHANGED <<queue, service, started_, recording_start_time_, starts>>
       /\ Recording
    \/ /\ tasks["askServers"] > 0
       /\ GetCurrentBusyServerCount
       /\ UNCHANGED <<queue, service, started_, recording_start_time_, tasks, starts>>
       /\ Recording
    \/ /\ tasks["askServers"] > 0 /\ asking.servers = {}
       /\ service' = [service EXCEPT
             !.busy_server_count_ = AddValue(@, asking.busy, Scale)]
       /\ asking' = NobodyAsked
       /\ tasks' = Step("askServers", "schedule")
       /\ UNCHANGED <<queue, started_, recording_start_time_, starts>>
       /\ Recording

-----------------------------------------------------------------------------
(* Readers.                                                                *)

\* What the getters return, each under one lock.
GetArrivalCount == queue.arrival_count_
GetTimeBetweenRequestsMetric == queue.time_between_requests_
GetRequestCountInSystemMetric == queue.in_system_count_
GetRefusedWaitTimeMetric == dropout.refused_wait_time_
GetServerMetrics(s) == service.servers_metrics_[s]
TotalServiceTime == SumFunction([s \in Servers |-> GetServerMetrics(s).total])
GetServicedCount == SumFunction([s \in Servers |-> GetServerMetrics(s).count])

\* A mistake for the checks to catch: least and greatest are mixed up.
MetricToJsonMixedUp(m) ==
    [min |-> m.max \div Second, max |-> m.min \div Second, avg |-> m.avg]

\* MetricToJson for durations: whole seconds, rounded down, and the average in
\* thousandths of a second, which is exact.
MetricToJson(m) == [min |-> m.min \div Second, max |-> m.max \div Second, avg |-> m.avg]

\* round(d, 1e-3), of a number of Scale-ths, in thousandths.
RoundToThousandths(d) == (2 * 1000 * d + Scale) \div (2 * Scale)

\* MetricToJson for counts.
CountMetricToJson(m) == [min |-> m.min, max |-> m.max, avg |-> RoundToThousandths(m.avg)]

Read(from, result) ==
    /\ reader.at = from
    /\ reader' = result
    /\ UNCHANGED <<bound, now, call, locked_vars, sampling_vars, first_arrival>>

\* MakeGetMetricsResponseBody calls four getters with a lock each, as arguments
\* of one constructor, which are evaluated in any order.
MakeGetMetricsResponseBody ==
    Read("idle", [at |-> "collecting", report |-> <<>>])

Collect(field, value) ==
    /\ reader.at = "collecting" /\ field \notin DOMAIN reader.report
    /\ Read("collecting", [reader EXCEPT !.report =
          [f \in DOMAIN @ \cup {field} |-> IF f = field THEN value ELSE @[f]]])

GetWaitTimeMetric == Collect("wait_time", MetricToJson(queue.wait_time_))
GetQueueSizeMetric == Collect("queue_size", CountMetricToJson(queue.queue_size_))
GetBusyServerCountMetric ==
    /\ ServiceMutexIsFree
    /\ Collect("busy_operators_count", CountMetricToJson(service.busy_server_count_))
\* A mistake for the checks to catch: the elapsed time is cast to seconds.
GetServiceLoadInErlangSeconds ==
    /\ ServiceMutexIsFree
    /\ Collect("service_load_erlang",
               [served  |-> TotalServiceTime,
                elapsed |-> ((now - recording_start_time_) \div Second) * Second])

GetServiceLoadInErlang ==
    /\ ServiceMutexIsFree
    /\ Collect("service_load_erlang", [served  |-> TotalServiceTime,
                                       elapsed |-> now - recording_start_time_])

\* A mistake for the checks to catch: the arrivals are read first.
GetProbabilityOfLossArrivalsFirst ==
    \/ Read("idle", [at |-> "serviced", arrivals |-> GetArrivalCount])
    \/ /\ ServiceMutexIsFree
       /\ Read("serviced", [at |-> "loss", serviced |-> GetServicedCount,
                            arrivals |-> reader.arrivals])

\* GetProbabilityOfLoss lets go of service_mutex_ before it takes queue_mutex_.
GetProbabilityOfLoss ==
    \/ /\ ServiceMutexIsFree
       /\ Read("idle", [at |-> "serviced", serviced |-> GetServicedCount])
    \/ Read("serviced", [at |-> "loss", serviced |-> reader.serviced,
                         arrivals |-> GetArrivalCount])

\* The answer is sent: MetricsReponseDto, as JSON.
Reported == reader.at = "collecting" /\ DOMAIN reader.report = Fields
ReadingDone ==
    \/ Reported /\ Read("collecting", NotReading)
    \/ Read("loss", NotReading)

-----------------------------------------------------------------------------
Tick ==
    /\ now < bound.time
    /\ now' = now + 1
    /\ UNCHANGED <<bound, call, locked_vars, sampling_vars, first_arrival, reader>>

Next ==
    \/ \E c \in Calls :
          \/ Arrive(c) \/ RecordRequestArrival(c)
          \/ \E s \in Servers : StartService(c, s)
          \/ RecordServiceStart(c) \/ HandleCall(c) \/ CompleteService(c)
          \/ RecordServiceComplete(c)
          \/ RejectCall(c) \/ RecordRequestDropout(c)
    \/ Start \/ Stop
    \/ ScheduleUpdatePeriodicMetrics \/ UpdatePeriodicMetrics
    \/ MakeGetMetricsResponseBody \/ GetWaitTimeMetric \/ GetQueueSizeMetric
    \/ GetBusyServerCountMetric \/ GetServiceLoadInErlang
    \/ GetProbabilityOfLoss
    \/ ReadingDone
    \/ Tick

Spec == Init /\ [][Next]_vars

-----------------------------------------------------------------------------
(* Properties.                                                             *)

DurationMetrics ==
    {GetTimeBetweenRequestsMetric, queue.wait_time_, GetRefusedWaitTimeMetric}
        \cup {GetServerMetrics(s) : s \in Servers}

\* The averages that AddValue keeps without a sum are the means of the values:
\* exactly for the sampled counts; for the durations, whose division truncates,
\* up to half a millisecond for each value but the first.
AveragesAreMeans ==
    /\ IsMean(queue.queue_size_, Scale)
    /\ IsMean(GetRequestCountInSystemMetric, Scale)
    /\ IsMean(service.busy_server_count_, Scale)
    /\ \A m \in DurationMetrics : IsTruncatedMean(m)

\* Arrivals may be recorded in another order than their times have, and an
\* interval may then be negative; the intervals still add up to the time from
\* the first arrival recorded to the last, one for each arrival but the first.
IntervalsAddUp ==
    GetArrivalCount > 0 =>
        /\ GetTimeBetweenRequestsMetric.total = queue.prev_arrival_ - first_arrival
        /\ GetTimeBetweenRequestsMetric.count = GetArrivalCount - 1

\* The two counts of GetProbabilityOfLoss are read under two locks, calls are
\* recorded in between, and the quotient is a share all the same: a call that
\* is counted as serviced is counted as arrived.
LossIsAShare == reader.at = "loss" => reader.serviced <= reader.arrivals

\* The load a report states is one the servers could have carried: each server
\* serves one call at a time, within the time since the recording started.
\* (Reset leaves the service times as they are, so not after another Start.)
LoadIsFeasible ==
    Reported /\ starts = 0 =>
        LET load == reader.report["service_load_erlang"]
        IN  load.served <= Cardinality(Servers) * load.elapsed

\* A report is in order: of the waits although least and greatest are rounded
\* down to seconds and the average is not, of the counts although the average
\* is rounded; and no more operators are busy than there are.
ReportIsInOrder ==
    Reported =>
        LET wait == reader.report["wait_time"]
            busy == reader.report["busy_operators_count"]
        IN  /\ wait.min * Second <= wait.avg
            /\ wait.avg < (wait.max + 1) * Second
            /\ \A count \in {reader.report["queue_size"], busy} :
                  count.min * 1000 <= count.avg /\ count.avg <= count.max * 1000
            /\ busy.max <= Cardinality(Servers)

\* The tasks there are, and the calls of Start that will post one.
Chains == tasks["schedule"] + tasks["pending"] + tasks["sampleService"]
              + tasks["askServers"]

\* While metrics are started some task will sample them, in whatever order the
\* flag is set, cleared and tested; and there is one only, unless Start was
\* called again.
SamplingGoesOn ==
    /\ started_ => Chains > 0
    /\ starts = 0 => Chains <= 1
=============================================================================
