------------------------------ MODULE CallCenter ------------------------------
(***************************************************************************)
(* CallCenter and the threads that run it.                                 *)
(*                                                                         *)
(* An I/O thread takes an HTTP request and runs PushCall; a user thread    *)
(* takes a task whose timer has expired and runs FinishCallProcessing or   *)
(* PerformCallProcessingIteration.  The methods of CallCenter hold no lock *)
(* of their own: each call they make to the queue or to the operators is   *)
(* atomic, and anything may happen between two of them.  So one step of a  *)
(* thread is one such call, with the calls around it that touch only what  *)
(* the thread owns at that moment (the record of a call that is in no      *)
(* index, an operator that is not free) or only add to a counter, to the   *)
(* journal or to the timers.                                               *)
(*                                                                         *)
(* thread[t].at names the call that thread t makes next.  Iterations and   *)
(* StartCallProcessing are always the last thing their caller does, so no  *)
(* stack of return points is needed.                                       *)
(***************************************************************************)
EXTENDS CallQueue, OperatorSet, QueueingSystemMetrics

CONSTANTS
    IoThreads,             \* the pool that runs the HTTP handlers
    UserThreads,           \* the pool that runs the posted tasks
    DefaultOperatorCount,  \* kDefaultOperatorCount_
    DefaultCapacity,       \* kDefaultCapacity_
    MaxArrivalTime         \* bound: the last instant at which a call arrives

ASSUME CallCenterAssumption ==
    /\ IsFiniteSet(IoThreads) /\ IsFiniteSet(UserThreads)
    /\ IoThreads \cap UserThreads = {}
    /\ IsFiniteSet(Calls)
    /\ DefaultOperatorCount \in 1 .. Cardinality(OperatorIds)
    /\ DefaultCapacity \in Nat
    /\ MaxArrivalTime \in Nat
    /\ \A wait \in MaxWaits : MaxArrivalTime + wait <= MaxTime

VARIABLES
    thread,            \* what each thread is doing
    finish_tasks,      \* posted by Operator::HandleCall
    iteration_timers,  \* posted by ScheduleCallProcessingIteration:
                       \*   instant |-> number of timers set to it
    journal,           \* call |-> number of its records in the journal
    crashed,           \* an assertion about a call has failed, or an invalid
                       \* iterator was dereferenced: the process has ended
    aborted            \* an assertion about an operator has failed: likewise

Threads == IoThreads \cup UserThreads

\* The names of the pending calls.  ...ForCall is on behalf of a new call in
\* StartCallProcessingIfPossible, the plain ones are in an iteration.
Labels == {"idle",
           "QueueIsEmptyForCall", "EraseFreeForCall", "InsertForCall",
           "InsertFreeForCall", "PushToQueue",
           "QueueIsEmpty", "EraseTimeout", "EraseFree", "PopFromQueue",
           "InsertFree", "InsertPopped", "GetMinTimeout",
           "EraseFromProcessing", "InsertFreeFinished", "AddRecord"}

center_vars == <<config_json_, now, cdr, call_queue_vars, status_,
                 operator_set_vars, metrics_vars, thread, finish_tasks,
                 iteration_timers, journal>>
ended == <<crashed, aborted>>
vars == <<center_vars, ended>>

TypeOK ==
    /\ config_json_ \in Configurations
    /\ now \in 0 .. MaxTime
    /\ cdr \in [Calls -> Records]
    /\ in_processing_ \in SUBSET Calls
    /\ in_timout_point_order_ \in SUBSET Calls
    /\ in_receipt_order_ \in SUBSET Calls
    /\ capacity_ \in Nat
    /\ status_ \in [OperatorIds -> Status]
    /\ operators_ \in SUBSET OperatorIds
    /\ free_operators_ \in SUBSET OperatorIds
    /\ servers_metrics_ \in [DOMAIN servers_metrics_ -> Nat]
    /\ arrival_count_ \in Nat
    /\ current_queue_size_ \in Nat
    /\ current_in_system_count_ \in Nat
    /\ dropout_count_ \in Nat
    /\ thread \in [Threads -> [at : Labels,
                               call : Calls \cup {NoCall},
                               op : OperatorIds \cup {NoOperator}]]
    /\ finish_tasks \in SUBSET [call : Calls, op : OperatorIds, due : 0 .. MaxTime]
    /\ iteration_timers \in [0 .. MaxTime -> Nat]
    /\ journal \in [Calls -> Nat]
    /\ crashed \in BOOLEAN
    /\ aborted \in BOOLEAN

Idle == [at |-> "idle", call |-> NoCall, op |-> NoOperator]

Init ==
    /\ ConfigInit
    /\ RecordsInit
    /\ CallQueueInit(DefaultCapacity)
    /\ OperatorInit
    /\ OperatorSetInit(DefaultOperatorCount)
    /\ CountersInit
    /\ thread = [t \in Threads |-> Idle]
    /\ finish_tasks = {}
    /\ iteration_timers = [i \in 0 .. MaxTime |-> 0]
    /\ journal = [c \in Calls |-> 0]
    /\ crashed = FALSE
    /\ aborted = FALSE

Goto(t, label, call, op) ==
    thread' = [thread EXCEPT ![t] = [at |-> label, call |-> call, op |-> op]]

\* Journal::AddRecord(call).
AddRecord(call) == journal' = [journal EXCEPT ![call] = @ + 1]

\* A failed assertion ends the process; what else the step does is then
\* without consequence.  The assertions about calls and about operators are
\* told apart because CallFlow knows only the former and OperatorPool only the
\* latter.
Asserting(call_is_in_order, operator_is_in_order) ==
    /\ crashed' = ~call_is_in_order
    /\ aborted' = ~operator_is_in_order

Running == ~crashed /\ ~aborted

-----------------------------------------------------------------------------
(* StartCallProcessing and RejectCall.                                     *)

\* StartCallProcessing(call, op), the last thing thread t does.  The delayed
\* task is due no later than MaxTime, the bound of the clock.
StartCallProcessing(t, call, op) ==
    /\ Asserting(InSystem(cdr[call]), IsFree(op))
    /\ cdr' = [cdr EXCEPT ![call] = StartService(@, op)]
    /\ RecordServiceStart
    /\ HandleCall(op)
    /\ \E delay \in CallDelays :
          finish_tasks' = finish_tasks \cup
              {[call |-> call, op |-> op, due |-> Min({now + delay, MaxTime})]}
    /\ Goto(t, "idle", NoCall, NoOperator)
    /\ UNCHANGED <<config_json_, now, operator_set_vars, iteration_timers,
                   journal>>

\* A mistake for the checks to catch: the rejected call is not recorded.
RejectCallUnrecorded(call, reason) ==
    /\ Asserting(InSystem(cdr[call]), TRUE)
    /\ cdr' = [cdr EXCEPT ![call] = CompleteService(@, reason)]
    /\ RecordRequestDropout
    /\ UNCHANGED journal

\* RejectCall(call, reason).
RejectCall(call, reason) ==
    /\ Asserting(InSystem(cdr[call]), TRUE)
    /\ cdr' = [cdr EXCEPT ![call] = CompleteService(@, reason)]
    /\ RecordRequestDropout
    /\ AddRecord(call)

-----------------------------------------------------------------------------
(* PushCall.                                                               *)

\* CallRepository::HandleRequest makes the record; PushCall sets its arrival
\* time and tells the metrics.
PushCall(t, call, phone) ==
    /\ Running
    /\ thread[t] = Idle
    /\ ~WasArrived(cdr[call])
    /\ now <= MaxArrivalTime
    /\ cdr' = [cdr EXCEPT ![call] = SetArrivalTime(NewRecord(phone))]
    /\ RecordRequestArrival
    /\ Goto(t, "QueueIsEmptyForCall", call, NoOperator)
    /\ UNCHANGED <<config_json_, now, call_queue_vars, status_,
                   operator_set_vars, finish_tasks, iteration_timers, journal,
                   ended>>

\* StartCallProcessingIfPossible gives up when others wait already.
QueueIsEmptyForCall(t) ==
    /\ Running
    /\ thread[t].at = "QueueIsEmptyForCall"
    /\ Goto(t, IF QueueIsEmpty THEN "EraseFreeForCall" ELSE "PushToQueue",
            thread[t].call, NoOperator)
    /\ UNCHANGED <<config_json_, now, cdr, call_queue_vars, status_,
                   operator_set_vars, metrics_vars, finish_tasks,
                   iteration_timers, journal, ended>>

\* It takes a free operator, if there is one.
EraseFreeForCall(t, op) ==
    /\ Running
    /\ thread[t].at = "EraseFreeForCall"
    /\ EraseFree(op)
    /\ Goto(t, IF op = NoOperator THEN "PushToQueue" ELSE "InsertForCall",
            thread[t].call, op)
    /\ UNCHANGED <<config_json_, now, cdr, call_queue_vars, status_, counters,
                   finish_tasks, iteration_timers, journal, ended>>

\* InsertToProcessing: added, and the call is started ...
InsertForCall(t) ==
    /\ Running
    /\ thread[t].at = "InsertForCall"
    /\ InsertToProcessing(thread[t].call, TRUE)
    /\ StartCallProcessing(t, thread[t].call, thread[t].op)

\* ... or refused, ...
InsertForCallRefused(t) ==
    /\ Running
    /\ thread[t].at = "InsertForCall"
    /\ InsertToProcessing(thread[t].call, FALSE)
    /\ Goto(t, "InsertFreeForCall", thread[t].call, thread[t].op)
    /\ UNCHANGED <<config_json_, now, cdr, status_, operator_set_vars,
                   metrics_vars, finish_tasks, iteration_timers, journal, ended>>

\* A mistake for the checks to catch: the operator is not given back.
InsertFreeForCallForgotten(t) ==
    /\ Running
    /\ thread[t].at = "InsertFreeForCall"
    /\ Goto(t, "PushToQueue", thread[t].call, NoOperator)
    /\ UNCHANGED <<config_json_, now, cdr, call_queue_vars, status_,
                   operator_set_vars, metrics_vars, finish_tasks,
                   iteration_timers, journal, ended>>

\* ... and the operator goes back.
InsertFreeForCall(t) ==
    /\ Running
    /\ thread[t].at = "InsertFreeForCall"
    /\ InsertFree(thread[t].op)
    /\ Goto(t, "PushToQueue", thread[t].call, NoOperator)
    /\ UNCHANGED <<config_json_, now, cdr, call_queue_vars, status_, counters,
                   finish_tasks, iteration_timers, journal, ended>>

\* A mistake for the checks to catch: no iteration follows.
PushCallToQueueOnly(t) ==
    /\ Running
    /\ thread[t].at = "PushToQueue"
    /\ PushToQueue(thread[t].call, "kOk")
    /\ Goto(t, "idle", NoCall, NoOperator)
    /\ UNCHANGED <<config_json_, now, cdr, status_, operator_set_vars,
                   metrics_vars, finish_tasks, iteration_timers, journal, ended>>

\* PushToQueue takes the call and an iteration follows ...
PushCallToQueue(t) ==
    /\ Running
    /\ thread[t].at = "PushToQueue"
    /\ PushToQueue(thread[t].call, "kOk")
    /\ Goto(t, "QueueIsEmpty", NoCall, NoOperator)
    /\ UNCHANGED <<config_json_, now, cdr, status_, operator_set_vars,
                   metrics_vars, finish_tasks, iteration_timers, journal, ended>>

\* ... or the call is rejected for the reason PushToQueue gives.
PushCallRejected(t) ==
    /\ Running
    /\ thread[t].at = "PushToQueue"
    /\ \E reason \in {"kAlreadyInQueue", "kOverload"} :
          /\ PushToQueue(thread[t].call, reason)
          /\ RejectCall(thread[t].call, reason)
    /\ Goto(t, "idle", NoCall, NoOperator)
    /\ UNCHANGED <<config_json_, now, status_, operator_set_vars, finish_tasks,
                   iteration_timers>>

-----------------------------------------------------------------------------
(* PerformCallProcessingIteration.                                         *)

\* The iteration ends at once when nobody waits.
CheckQueueIsEmpty(t) ==
    /\ Running
    /\ thread[t].at = "QueueIsEmpty"
    /\ Goto(t, IF QueueIsEmpty THEN "idle" ELSE "EraseTimeout", NoCall, NoOperator)
    /\ UNCHANGED <<config_json_, now, cdr, call_queue_vars, status_,
                   operator_set_vars, metrics_vars, finish_tasks,
                   iteration_timers, journal, ended>>

\* RejectAllTimeoutCalls: a call whose wait is over is rejected, and the loop
\* goes on ...
RejectTimeoutCall(t, call) ==
    /\ Running
    /\ thread[t].at = "EraseTimeout"
    /\ BeginIsValid
    /\ EraseTimeoutCallFromQueue(call)
    /\ RejectCall(call, "kTimeout")
    /\ UNCHANGED <<config_json_, now, status_, operator_set_vars, thread,
                   finish_tasks, iteration_timers>>

\* ... until there is none.
NoTimeoutCall(t) ==
    /\ Running
    /\ thread[t].at = "EraseTimeout"
    /\ BeginIsValid
    /\ EraseTimeoutCallFromQueue(NoCall)
    /\ Goto(t, "EraseFree", NoCall, NoOperator)
    /\ UNCHANGED <<config_json_, now, cdr, status_, operator_set_vars,
                   metrics_vars, finish_tasks, iteration_timers, journal, ended>>

\* The operation dereferences begin() of an empty index: undefined, and taken
\* to end the process.
InvalidBegin(t) ==
    /\ Running
    /\ thread[t].at \in {"EraseTimeout", "GetMinTimeout"}
    /\ ~BeginIsValid
    /\ crashed' = TRUE
    /\ UNCHANGED <<center_vars, aborted>>

EraseFreeOperator(t, op) ==
    /\ Running
    /\ thread[t].at = "EraseFree"
    /\ EraseFree(op)
    /\ Goto(t, IF op = NoOperator THEN "GetMinTimeout" ELSE "PopFromQueue",
            NoCall, op)
    /\ UNCHANGED <<config_json_, now, cdr, call_queue_vars, status_, counters,
                   finish_tasks, iteration_timers, journal, ended>>

PopCall(t, call) ==
    /\ Running
    /\ thread[t].at = "PopFromQueue"
    /\ PopFromQueue(call)
    /\ Goto(t, IF call = NoCall THEN "InsertFree" ELSE "InsertPopped",
            call, thread[t].op)
    /\ UNCHANGED <<config_json_, now, cdr, status_, operator_set_vars,
                   metrics_vars, finish_tasks, iteration_timers, journal, ended>>

\* Somebody else has emptied the queue: the operator goes back.
InsertUnusedOperator(t) ==
    /\ Running
    /\ thread[t].at = "InsertFree"
    /\ InsertFree(thread[t].op)
    /\ Goto(t, "idle", NoCall, NoOperator)
    /\ UNCHANGED <<config_json_, now, cdr, call_queue_vars, status_, counters,
                   finish_tasks, iteration_timers, journal, ended>>

\* The popped call is started whatever InsertToProcessing returns.
StartPoppedCall(t) ==
    /\ Running
    /\ thread[t].at = "InsertPopped"
    /\ \E added \in BOOLEAN : InsertToProcessing(thread[t].call, added)
    /\ StartCallProcessing(t, thread[t].call, thread[t].op)

\* A mistake for the checks to catch: the next iteration is not scheduled.
ScheduleNoIteration(t) ==
    /\ Running
    /\ thread[t].at = "GetMinTimeout"
    /\ BeginIsValid
    /\ Goto(t, "idle", NoCall, NoOperator)
    /\ UNCHANGED <<config_json_, now, cdr, call_queue_vars, status_,
                   operator_set_vars, metrics_vars, finish_tasks,
                   iteration_timers, journal, ended>>

\* No operator is free: GetMinTimeoutCallInQueue, and another iteration for
\* the instant at which that call's wait ends.
ScheduleCallProcessingIteration(t) ==
    /\ Running
    /\ thread[t].at = "GetMinTimeout"
    /\ BeginIsValid
    /\ \E call \in Calls \cup {NoCall} :
          /\ GetMinTimeoutCallInQueue(call)
          /\ iteration_timers' =
                IF call = NoCall THEN iteration_timers
                ELSE [iteration_timers EXCEPT ![cdr[call].timeout_point_] = @ + 1]
    /\ Goto(t, "idle", NoCall, NoOperator)
    /\ UNCHANGED <<config_json_, now, cdr, call_queue_vars, status_,
                   operator_set_vars, metrics_vars, finish_tasks, journal,
                   ended>>

\* A user thread runs the task of an expired timer.
RunIteration(t, due) ==
    /\ Running
    /\ thread[t] = Idle
    /\ iteration_timers[due] > 0 /\ due <= now
    /\ iteration_timers' = [iteration_timers EXCEPT ![due] = @ - 1]
    /\ Goto(t, "QueueIsEmpty", NoCall, NoOperator)
    /\ UNCHANGED <<config_json_, now, cdr, call_queue_vars, status_,
                   operator_set_vars, metrics_vars, finish_tasks, journal,
                   ended>>

-----------------------------------------------------------------------------
(* FinishCallProcessing.                                                   *)

\* A user thread runs the task HandleCall has posted: finish_handle, the
\* answer to the caller, RecordServiceComplete.
FinishCallProcessing(t, task) ==
    /\ Running
    /\ thread[t] = Idle
    /\ task.due <= now
    /\ finish_tasks' = finish_tasks \ {task}
    /\ Asserting(InSystem(cdr[task.call]), ServerIsKnown(task.op))
    /\ FinishHandle(task.op)
    /\ cdr' = [cdr EXCEPT ![task.call] = CompleteService(@, "kOk")]
    /\ RecordServiceComplete(task.op)
    /\ Goto(t, "EraseFromProcessing", task.call, task.op)
    /\ UNCHANGED <<config_json_, now, call_queue_vars, operator_set_vars,
                   iteration_timers, journal>>

\* A mistake for the checks to catch: the call stays in in_processing_.
FinishedStaysInProcessing(t) ==
    /\ Running
    /\ thread[t].at = "EraseFromProcessing"
    /\ Goto(t, "InsertFreeFinished", thread[t].call, thread[t].op)
    /\ UNCHANGED <<config_json_, now, cdr, call_queue_vars, status_,
                   operator_set_vars, metrics_vars, finish_tasks,
                   iteration_timers, journal, ended>>

EraseFinishedFromProcessing(t) ==
    /\ Running
    /\ thread[t].at = "EraseFromProcessing"
    /\ EraseFromProcessing(thread[t].call)
    /\ Goto(t, "InsertFreeFinished", thread[t].call, thread[t].op)
    /\ UNCHANGED <<config_json_, now, cdr, status_, operator_set_vars,
                   metrics_vars, finish_tasks, iteration_timers, journal, ended>>

InsertFinishedOperator(t) ==
    /\ Running
    /\ thread[t].at = "InsertFreeFinished"
    /\ InsertFree(thread[t].op)
    /\ Goto(t, "AddRecord", thread[t].call, NoOperator)
    /\ UNCHANGED <<config_json_, now, cdr, call_queue_vars, status_, counters,
                   finish_tasks, iteration_timers, journal, ended>>

\* The journal, then an iteration if anybody waits.
AddFinishedRecord(t) ==
    /\ Running
    /\ thread[t].at = "AddRecord"
    /\ AddRecord(thread[t].call)
    /\ Goto(t, IF QueueIsEmpty THEN "idle" ELSE "QueueIsEmpty", NoCall, NoOperator)
    /\ UNCHANGED <<config_json_, now, cdr, call_queue_vars, status_,
                   operator_set_vars, metrics_vars, finish_tasks,
                   iteration_timers, ended>>

-----------------------------------------------------------------------------
PassTime ==
    /\ Running
    /\ Tick
    /\ UNCHANGED <<config_json_, cdr, call_queue_vars, status_,
                   operator_set_vars, metrics_vars, thread, finish_tasks,
                   iteration_timers, journal, ended>>

ChangeConfig ==
    /\ Running
    /\ UpdateConfiguration
    /\ UNCHANGED <<now, cdr, call_queue_vars, status_, operator_set_vars,
                   metrics_vars, thread, finish_tasks, iteration_timers,
                   journal, ended>>

\* A step of a thread that is inside an operation.
Continue(t) ==
    \/ QueueIsEmptyForCall(t)
    \/ \E op \in OperatorIds \cup {NoOperator} :
          EraseFreeForCall(t, op) \/ EraseFreeOperator(t, op)
    \/ InsertForCall(t) \/ InsertForCallRefused(t)
    \/ InsertFreeForCall(t)
    \/ PushCallToQueue(t) \/ PushCallRejected(t)
    \/ CheckQueueIsEmpty(t)
    \/ \E call \in Calls : RejectTimeoutCall(t, call)
    \/ NoTimeoutCall(t) \/ InvalidBegin(t)
    \/ \E call \in Calls \cup {NoCall} : PopCall(t, call)
    \/ InsertUnusedOperator(t)
    \/ StartPoppedCall(t)
    \/ ScheduleCallProcessingIteration(t)
    \/ EraseFinishedFromProcessing(t)
    \/ InsertFinishedOperator(t)
    \/ AddFinishedRecord(t)

\* A user thread takes up a task that is due.
RunTask(t) ==
    \/ \E due \in 0 .. MaxTime : RunIteration(t, due)
    \/ \E task \in finish_tasks : FinishCallProcessing(t, task)

Quiescent == \A t \in Threads : thread[t] = Idle

\* Nothing is left to do: the process has ended, or all work is done and the
\* clock is at its bound.
Rest ==
    /\ \/ ~Running
       \/ /\ now = MaxTime /\ Quiescent /\ finish_tasks = {}
          /\ \A i \in 0 .. MaxTime : iteration_timers[i] = 0
    /\ UNCHANGED vars

Next ==
    \/ \E t \in IoThreads, call \in Calls, phone \in Phones :
          PushCall(t, call, phone)
    \/ \E t \in Threads : Continue(t)
    \/ \E t \in UserThreads : RunTask(t)
    \/ PassTime
    \/ ChangeConfig
    \/ Rest

Spec == Init /\ [][Next]_vars

\* Every thread goes on with what it has begun, a due task is eventually run
\* by some user thread (io_context::run dispatches expired timers), and time
\* passes.  Nothing is assumed about new calls or the configuration.
Fairness ==
    /\ \A t \in Threads : WF_vars(Continue(t))
    /\ WF_vars(\E t \in UserThreads : RunTask(t))
    /\ WF_vars(PassTime)

FairSpec == Spec /\ Fairness

-----------------------------------------------------------------------------
(* The specifications that CallCenter implements.                          *)

\* Where a call is: with the thread that carries it, with a finish task, or,
\* when nobody carries it and it is not finished, in the queue.
Carries(t, labels, c) == thread[t].call = c /\ thread[t].at \in labels

FlowOf(c) ==
    IF ~WasArrived(cdr[c]) THEN "unborn"
    ELSE IF \E t \in Threads : Carries(t, {"QueueIsEmptyForCall",
               "EraseFreeForCall", "InsertForCall", "InsertFreeForCall",
               "PushToQueue"}, c) THEN "arrived"
    ELSE IF \E t \in Threads : Carries(t, {"InsertPopped"}, c) THEN "popped"
    ELSE IF \E task \in finish_tasks : task.call = c THEN "inService"
    ELSE IF \E t \in Threads : Carries(t, {"EraseFromProcessing"}, c) THEN "answered"
    ELSE IF WasFinished(cdr[c]) THEN "gone"
    ELSE "queued"

Flow == INSTANCE CallFlow WITH flow <- [c \in Calls |-> FlowOf(c)]

\* What is being done with an operator: whoever has it, a thread or a finish
\* task, is its owner.
HoldsOperator(t, labels, op) == thread[t].op = op /\ thread[t].at \in labels

PhaseOf(op) ==
    IF \E task \in finish_tasks : task.op = op THEN "handling"
    ELSE IF \E t \in Threads : HoldsOperator(t, {"InsertForCall",
               "InsertFreeForCall", "PopFromQueue", "InsertFree",
               "InsertPopped"}, op) THEN "taken"
    ELSE IF \E t \in Threads : HoldsOperator(t, {"EraseFromProcessing",
               "InsertFreeFinished"}, op) THEN "finished"
    ELSE "unowned"

Pool == INSTANCE OperatorPool
            WITH phase <- [op \in OperatorIds |-> PhaseOf(op)],
                 MaxServiced <- Cardinality(Calls)

\* Whatever the threads interleave, the queue is used as CallFlow says: each
\* call goes its way once, in order, and is never lost or handled twice.
ImplementsCallFlow == Flow!FlowSpec

\* Whatever the threads interleave, every operator has one owner at a time,
\* serves one call at a time and comes back.
ImplementsOperatorPool == Pool!Spec

-----------------------------------------------------------------------------
(* Properties.                                                             *)

\* No assertion about a call fails and no iterator is invalid.
NeverCrashes == ~crashed

\* An iteration that has not yet decided what becomes of the queue.
IterationLabels == {"QueueIsEmpty", "EraseTimeout", "EraseFree", "PopFromQueue",
                    "GetMinTimeout"}

\* Every call that waits will be looked at when its wait ends, although no
\* operator may ever become free: at every moment an iteration is under way,
\* or PerformCallProcessingIteration is scheduled for an instant not later
\* than the end of the wait of any call in the queue, as long as
\* "call_max_wait" stays the same.  (A call whose wait is shorter than that of
\* one before it may be passed over: its own iteration takes the new operator
\* that a larger "operator_count" brings to the first in the queue, and sets
\* no timer.)
TimeoutIsScheduled ==
    \A c \in in_receipt_order_ :
        \/ \E t \in Threads : thread[t].at \in IterationLabels
        \/ \E due \in 0 .. MaxTime :
              iteration_timers[due] > 0 /\ due <= cdr[c].timeout_point_

\* What the metrics report is true whenever no operation is in progress: the
\* two current counts are the calls that wait and those in the system.
MetricsAreExact ==
    Quiescent =>
        /\ current_queue_size_ = GetQueueSize
        /\ current_in_system_count_ =
              GetQueueSize + Cardinality(finish_tasks)

\* Every call that has arrived is serviced, dropped or in the system, as long
\* as "operator_count" stays the same (the count of what an operator has
\* serviced goes with it when the table of servers is built anew).
ArrivalsAreAccountedFor ==
    Quiescent =>
        arrival_count_ = GetServicedCount + dropout_count_ + current_in_system_count_

\* The journal has one record of each finished call and none of another,
\* whenever no operation is in progress.
JournalIsExact ==
    Quiescent =>
        \A c \in Calls : journal[c] = IF WasFinished(cdr[c]) THEN 1 ELSE 0

\* A call that got an operator is served to the end: it is never rejected,
\* and a call that was rejected never had an operator.
ServedOrRejected ==
    \A c \in Calls :
        WasFinished(cdr[c]) => (WasServiced(cdr[c]) <=> cdr[c].operator_id_ # NoOperator)

\* A call is never left waiting while an operator is idle.
NoIdleOperatorWhileWaiting ==
    Quiescent => in_receipt_order_ = {} \/ free_operators_ = {}

\* Every call that has arrived is answered in the end.
EveryCallIsAnswered ==
    \A c \in Calls : WasArrived(cdr[c]) ~> WasFinished(cdr[c])
=============================================================================
