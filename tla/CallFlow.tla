------------------------------- MODULE CallFlow -------------------------------
(***************************************************************************)
(* The way of a call through CallQueue, as CallCenter uses it: what is     *)
(* done to the queue and in what order for one call, with no threads and   *)
(* no operators.  CallCenter implements this specification.                *)
(***************************************************************************)
EXTENDS CallQueue

CONSTANTS
    DefaultCapacity,   \* kDefaultCapacity_
    MaxArrivalTime     \* bound: the last instant at which a call arrives

ASSUME FlowAssumption ==
    /\ DefaultCapacity \in Nat
    /\ MaxArrivalTime \in 0 .. MaxTime
    /\ IsFiniteSet(Calls)

VARIABLES
    flow,      \* how far each call has come
    crashed    \* the process has ended: failed assertion or invalid iterator

Stages == {"unborn", "arrived", "queued", "popped", "inService", "answered",
           "gone"}

flow_vars == <<config_json_, now, cdr, call_queue_vars, flow, crashed>>

At(stage) == {c \in Calls : flow[c] = stage}

FlowTypeOK ==
    /\ config_json_ \in Configurations
    /\ now \in 0 .. MaxTime
    /\ cdr \in [Calls -> Records]
    /\ in_processing_ \in SUBSET Calls
    /\ in_timout_point_order_ \in SUBSET Calls
    /\ in_receipt_order_ \in SUBSET Calls
    /\ capacity_ \in Nat
    /\ flow \in [Calls -> Stages]
    /\ crashed \in BOOLEAN

FlowInit ==
    /\ ConfigInit
    /\ RecordsInit
    /\ CallQueueInit(DefaultCapacity)
    /\ flow = [c \in Calls |-> "unborn"]
    /\ crashed = FALSE

\* CallRepository makes the record and PushCall sets its arrival time.
Arrive(c, phone) ==
    /\ ~crashed
    /\ flow[c] = "unborn"
    /\ now <= MaxArrivalTime
    /\ cdr' = [cdr EXCEPT ![c] = SetArrivalTime(NewRecord(phone))]
    /\ flow' = [flow EXCEPT ![c] = "arrived"]
    /\ UNCHANGED <<config_json_, now, call_queue_vars, crashed>>

\* A failed assertion ends the process; what else the step does is then
\* without consequence.
Asserting(condition) == crashed' = ~condition

\* StartService and CompleteService, with the assertion they share.
Start(c, op) ==
    /\ Asserting(InSystem(cdr[c]))
    /\ cdr' = [cdr EXCEPT ![c] = StartService(@, op)]
    /\ flow' = [flow EXCEPT ![c] = "inService"]

Complete(c, status, stage) ==
    /\ Asserting(InSystem(cdr[c]))
    /\ cdr' = [cdr EXCEPT ![c] = CompleteService(@, status)]
    /\ flow' = [flow EXCEPT ![c] = stage]

\* The attempt to bypass the queue, when it succeeds.
Bypass(c, op) ==
    /\ ~crashed
    /\ flow[c] = "arrived"
    /\ InsertToProcessing(c, TRUE)
    /\ Start(c, op)
    /\ UNCHANGED <<config_json_, now>>

\* PushToQueue takes the call ...
Push(c) ==
    /\ ~crashed
    /\ flow[c] = "arrived"
    /\ PushToQueue(c, "kOk")
    /\ flow' = [flow EXCEPT ![c] = "queued"]
    /\ UNCHANGED <<config_json_, now, cdr, crashed>>

\* ... or does not, and RejectCall ends it.
Refuse(c) ==
    /\ ~crashed
    /\ flow[c] = "arrived"
    /\ \E result \in {"kAlreadyInQueue", "kOverload"} :
          PushToQueue(c, result) /\ Complete(c, result, "gone")
    /\ UNCHANGED <<config_json_, now>>

\* One round of RejectAllTimeoutCalls that finds a call to reject.
RejectTimeout(c) ==
    /\ ~crashed
    /\ BeginIsValid
    /\ EraseTimeoutCallFromQueue(c)
    /\ Complete(c, "kTimeout", IF flow[c] = "queued" THEN "gone" ELSE flow[c])
    /\ UNCHANGED <<config_json_, now>>

\* begin() of an empty index is dereferenced, by EraseTimeoutCallFromQueue or
\* GetMinTimeoutCallInQueue: undefined behaviour, taken to end the process.
InvalidBegin ==
    /\ ~crashed
    /\ ~BeginIsValid
    /\ crashed' = TRUE
    /\ UNCHANGED <<config_json_, now, cdr, call_queue_vars, flow>>

\* PopFromQueue, when there is a call.
Pop(c) ==
    /\ ~crashed
    /\ PopFromQueue(c)
    /\ flow' = [flow EXCEPT ![c] = "popped"]
    /\ UNCHANGED <<config_json_, now, cdr, crashed>>

\* The popped call enters service whatever InsertToProcessing returns.
StartPopped(c, op) ==
    /\ ~crashed
    /\ flow[c] = "popped"
    /\ \E added \in BOOLEAN : InsertToProcessing(c, added)
    /\ Start(c, op)
    /\ UNCHANGED <<config_json_, now>>

\* FinishCallProcessing answers the caller ...
Answer(c) ==
    /\ ~crashed
    /\ flow[c] = "inService"
    /\ Complete(c, "kOk", "answered")
    /\ UNCHANGED <<config_json_, now, call_queue_vars>>

\* ... before it takes the call out of the processing set.
Leave(c) ==
    /\ ~crashed
    /\ flow[c] = "answered"
    /\ EraseFromProcessing(c)
    /\ flow' = [flow EXCEPT ![c] = "gone"]
    /\ UNCHANGED <<config_json_, now, cdr, crashed>>

PassTime ==
    /\ ~crashed
    /\ Tick
    /\ UNCHANGED <<config_json_, cdr, call_queue_vars, flow, crashed>>

ChangeConfiguration ==
    /\ ~crashed
    /\ UpdateConfiguration
    /\ UNCHANGED <<now, cdr, call_queue_vars, flow, crashed>>

\* Nothing is left to do: the process has ended, or every call has left and
\* the clock is at its bound.
Rest ==
    /\ crashed \/ (now = MaxTime /\ At("unborn") \cup At("gone") = Calls)
    /\ UNCHANGED flow_vars

FlowNext ==
    \/ \E c \in Calls, phone \in Phones : Arrive(c, phone)
    \/ \E c \in Calls : \/ Push(c) \/ Refuse(c) \/ RejectTimeout(c)
                        \/ Pop(c) \/ Answer(c) \/ Leave(c)
    \/ \E c \in Calls, op \in OperatorIds : Bypass(c, op) \/ StartPopped(c, op)
    \/ InvalidBegin
    \/ PassTime
    \/ ChangeConfiguration
    \/ Rest

FlowSpec == FlowInit /\ [][FlowNext]_flow_vars

-----------------------------------------------------------------------------
(* Properties.                                                             *)

\* Two calls of one number whose waits end at the same instant although they
\* arrived at different ones: "call_max_wait" was lowered in between.  The
\* index by timeout cannot tell them apart, the index by arrival can.
Twins ==
    \E c, d \in Calls :
        /\ WasArrived(cdr[c]) /\ WasArrived(cdr[d])
        /\ CallEquals(c, d)
        /\ cdr[c].timeout_point_ = cdr[d].timeout_point_
        /\ cdr[c].arrival_time_ # cdr[d].arrival_time_

\* The two indexes of CallQueue hold the same calls, and exactly those that
\* are queued, although each operation finds a call in an index by an equal
\* key and an equal phone number and never by identity.  With this, begin()
\* of the second index may be taken when the first one is not empty, no call
\* is both rejected and served, and none stays behind unseen.
IndexesAgree ==
    /\ in_receipt_order_ = At("queued")
    /\ in_timout_point_order_ = At("queued")

\* The processing set holds only calls that are being served or have just been
\* answered, and a number once: a number that stayed behind would be refused
\* as kAlreadyInQueue for ever.  (Not every call in service is in it: one that
\* was popped beside a call of its number is not, and the first of two such
\* calls to leave takes the number with it.)
NumbersAreReleased ==
    /\ in_processing_ \subseteq At("inService") \cup At("answered")
    /\ \A c, d \in in_processing_ : CallEquals(c, d) => c = d

\* EraseFromQueue, EraseFromProcessing and their callers keep the indexes in
\* agreement and the processing set current, whatever the file makes of the
\* capacity and the maximum wait, unless there were twins.
IndexesAgreeUnlessTwins == Twins \/ (IndexesAgree /\ NumbersAreReleased)

\* No assertion of CallDetailedRecord fails and no iterator is invalid unless
\* there were twins: a call is finished once, and never starts service after
\* it was rejected.
NeverCrashesUnlessTwins == crashed => Twins

\* "Звонки в очереди должны быть уникальны, причем как находящиеся
\* непосредственно в очереди, но и на обслуживании" (call_queue.h): no two
\* calls that are in the queue or in service have the same number.
CallsAreUnique ==
    \A c, d \in At("queued") \cup At("inService") :
        c # d => ~CallEquals(c, d)

\* The queue grows only while it is below the capacity configured at that
\* moment, even when the capacity has been lowered below its size.
GrowsWithinCapacity ==
    [][GetQueueSize' > GetQueueSize =>
          GetQueueSize' <= UpdateCapacity(GetCapacity)]_flow_vars

\* A call leaves the queue only when its wait is over, or as the one that has
\* waited longest of all in the queue: nobody is skipped, unless there were
\* twins.
LeavesInTurn ==
    [][\A c \in in_receipt_order_ \ in_receipt_order_' :
          \/ now >= cdr[c].timeout_point_
          \/ \A d \in in_receipt_order_ :
                cdr[c].arrival_time_ <= cdr[d].arrival_time_
          \/ Twins]_flow_vars
=============================================================================
