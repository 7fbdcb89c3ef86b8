------------------------ MODULE QueueingSystemMetrics ------------------------
(***************************************************************************)
(* The counters that the Record... operations of QueueingSystemMetrics     *)
(* keep, next to its table of servers.  Each operation is one step: it     *)
(* runs under queue_mutex_ (RecordServiceComplete under service_mutex_,    *)
(* RecordRequestDropout under queue_mutex_ and then dropout_mutex_).  A    *)
(* counter is a size_t in the code and an integer here, so that the        *)
(* specifications built on this module can ask whether one would wrap.     *)
(***************************************************************************)
EXTENDS ServersMetrics

VARIABLES
    arrival_count_,
    current_queue_size_,
    current_in_system_count_,
    dropout_count_

counters == <<arrival_count_, current_queue_size_, current_in_system_count_,
              dropout_count_>>
metrics_vars == <<counters, servers_metrics_>>

CountersInit ==
    /\ arrival_count_ = 0
    /\ current_queue_size_ = 0
    /\ current_in_system_count_ = 0
    /\ dropout_count_ = 0

RecordRequestArrival ==
    /\ arrival_count_' = arrival_count_ + 1
    /\ current_in_system_count_' = current_in_system_count_ + 1
    /\ current_queue_size_' = current_queue_size_ + 1
    /\ UNCHANGED <<dropout_count_, servers_metrics_>>

RecordServiceStart ==
    /\ current_queue_size_' = current_queue_size_ - 1
    /\ UNCHANGED <<arrival_count_, current_in_system_count_, dropout_count_,
                   servers_metrics_>>

\* A mistake for the checks to catch: the call leaves the queue once more.
RecordServiceCompleteQueueToo(server) ==
    /\ AddCompletedService(server)
    /\ current_queue_size_' = current_queue_size_ - 1
    /\ current_in_system_count_' = current_in_system_count_ - 1
    /\ UNCHANGED <<arrival_count_, dropout_count_>>

\* RecordServiceComplete, once its assertion ServerIsKnown(server) has passed.
RecordServiceComplete(server) ==
    /\ AddCompletedService(server)
    /\ current_in_system_count_' = current_in_system_count_ - 1
    /\ UNCHANGED <<arrival_count_, current_queue_size_, dropout_count_>>

\* A mistake for the checks to catch: the call is dropped, but still queued.
RecordRequestDropoutStillQueued ==
    /\ current_in_system_count_' = current_in_system_count_ - 1
    /\ dropout_count_' = dropout_count_ + 1
    /\ UNCHANGED <<arrival_count_, current_queue_size_, servers_metrics_>>

\* A mistake for the checks to catch: the second half, under dropout_mutex_, is
\* forgotten.
RecordRequestDropoutUncounted ==
    /\ current_queue_size_' = current_queue_size_ - 1
    /\ current_in_system_count_' = current_in_system_count_ - 1
    /\ UNCHANGED <<arrival_count_, dropout_count_, servers_metrics_>>

RecordRequestDropout ==
    /\ current_queue_size_' = current_queue_size_ - 1
    /\ current_in_system_count_' = current_in_system_count_ - 1
    /\ dropout_count_' = dropout_count_ + 1
    /\ UNCHANGED <<arrival_count_, servers_metrics_>>
=============================================================================
