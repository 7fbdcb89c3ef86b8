-------------------------- MODULE CallDetailedRecord --------------------------
(***************************************************************************)
(* The record of one call and the clock it reads.  A record is created     *)
(* with the maximum wait configured at that moment, gets its arrival time  *)
(* and with it the point where its wait ends, then possibly an operator,   *)
(* and finally a status.  std::nullopt is a value outside the type.        *)
(*                                                                         *)
(* The times at which service starts and ends only feed the averages of    *)
(* the metrics and the text of the journal, and are left out.              *)
(***************************************************************************)
EXTENDS Configuration, Server

CONSTANTS
    Calls,      \* identities of the records
    NoCall,     \* nullptr
    Phones,     \* caller phone numbers
    MaxTime     \* bound: the last instant of the clock

ASSUME RecordAssumption ==
    /\ NoCall \notin Calls
    /\ MaxTime \in Nat

VARIABLES
    now,        \* Clock::now()
    cdr         \* the records

NoTime == -1
NoPhone == "no phone"
NoStatus == "nullopt"

CallStatus == {"kOk", "kTimeout", "kOverload", "kAlreadyInQueue"}

Records == [caller_phone_number_ : Phones \cup {NoPhone},
            max_wait_            : Nat,
            arrival_time_        : Nat \cup {NoTime},
            timeout_point_       : Nat \cup {NoTime},
            status_              : CallStatus \cup {NoStatus},
            operator_id_         : OperatorIds \cup {NoOperator}]

ReadMaxWait == config_json_.call_max_wait

\* The constructor.
NewRecord(phone) ==
    [caller_phone_number_ |-> phone,
     max_wait_            |-> ReadMaxWait,
     arrival_time_        |-> NoTime,
     timeout_point_       |-> NoTime,
     status_              |-> NoStatus,
     operator_id_         |-> NoOperator]

\* No record of that identity has been made yet.
Unborn == [caller_phone_number_ |-> NoPhone, max_wait_ |-> 0,
           arrival_time_ |-> NoTime, timeout_point_ |-> NoTime,
           status_ |-> NoStatus, operator_id_ |-> NoOperator]

RecordsInit ==
    /\ now = 0
    /\ cdr = [c \in Calls |-> Unborn]

WasArrived(r) == r.arrival_time_ # NoTime
WasFinished(r) == r.status_ # NoStatus
WasServiced(r) == r.status_ = "kOk"

\* The assertion that StartService and CompleteService share.
InSystem(r) == WasArrived(r) /\ ~WasFinished(r)

IsTimeout(r) == WasArrived(r) /\ now >= r.timeout_point_

\* SetArrivalTime, StartService and CompleteService, each given the record
\* for which its assertion holds.
SetArrivalTime(r) ==
    [r EXCEPT !.arrival_time_ = now, !.timeout_point_ = now + r.max_wait_]

StartService(r, operator_id) == [r EXCEPT !.operator_id_ = operator_id]

CompleteService(r, status) == [r EXCEPT !.status_ = status]

\* Time passes.
Tick == now < MaxTime /\ now' = now + 1
=============================================================================
