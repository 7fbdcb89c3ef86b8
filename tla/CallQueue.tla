------------------------------ MODULE CallQueue ------------------------------
(***************************************************************************)
(* CallQueue: the calls that wait, indexed twice, and the calls in service.*)
(*                                                                         *)
(* A std::multiset orders by a key and puts an element after those of the  *)
(* same key that are already there.  It is a set of calls here, whose      *)
(* order comes from the records and, for equal keys, from ticket, which    *)
(* numbers the calls in the order of their insertion; both indexes are     *)
(* always filled together, so that one ticket serves both.                 *)
(*                                                                         *)
(* Every public operation runs under queue_mutex_ and is one step.         *)
(***************************************************************************)
EXTENDS CallDetailedRecord, FiniteSetsExt

VARIABLES
    in_processing_,
    in_timout_point_order_,
    in_receipt_order_,
    ticket,
    capacity_

call_queue_vars == <<in_processing_, in_timout_point_order_,
                     in_receipt_order_, ticket, capacity_>>
indexes == <<in_timout_point_order_, in_receipt_order_, ticket>>

GetQueueSize == Cardinality(in_receipt_order_)
GetCapacity == capacity_
UpdateCapacity(capacity) == GetProperty("queue_capacity", capacity)

CallQueueInit(kDefaultCapacity_) ==
    /\ in_processing_ = {}
    /\ in_timout_point_order_ = {}
    /\ in_receipt_order_ = {}
    /\ ticket = [c \in Calls |-> 0]
    /\ capacity_ = UpdateCapacity(kDefaultCapacity_)

\* A mistake for the checks to catch: > for <.
ReceiptOrderReversed == [c \in Calls |-> 0 - cdr[c].arrival_time_]

\* The two comparators, each as the key by which it orders.
ReceiptOrder == [c \in Calls |-> cdr[c].arrival_time_]
TimeoutPointOrder == [c \in Calls |-> cdr[c].timeout_point_]

CallEquals(c, d) == cdr[c].caller_phone_number_ = cdr[d].caller_phone_number_

\* The element at begin(), as a set: empty when the multiset is.
First(multiset, order) ==
    {c \in multiset :
        \A d \in multiset \ {c} :
            \/ order[c] < order[d]
            \/ order[c] = order[d] /\ ticket[c] < ticket[d]}

\* The elements of multiset.equal_range(call) that CallEquals accepts.
Matching(multiset, order, call) ==
    {c \in multiset : order[c] = order[call] /\ CallEquals(c, call)}

\* The first match in the range is erased, if there is one.
EraseCallFromMultiset(multiset, order, call) ==
    multiset \ First(Matching(multiset, order, call), order)

MultisetContainsCall(multiset, order, call) ==
    Matching(multiset, order, call) # {}

\* in_processing_ hashes and compares by phone number.
Contains(call) ==
    \/ MultisetContainsCall(in_receipt_order_, ReceiptOrder, call)
    \/ \E c \in in_processing_ : CallEquals(c, call)

\* A mistake for the checks to catch: the second index is forgotten.
EraseFromQueueOneIndex(call) ==
    /\ in_receipt_order_' =
          EraseCallFromMultiset(in_receipt_order_, ReceiptOrder, call)
    /\ UNCHANGED <<in_timout_point_order_, ticket>>

\* EraseFromQueue(call).  The ticket of a call in neither index is dropped.
EraseFromQueue(call) ==
    /\ in_receipt_order_' =
          EraseCallFromMultiset(in_receipt_order_, ReceiptOrder, call)
    /\ in_timout_point_order_' =
          EraseCallFromMultiset(in_timout_point_order_, TimeoutPointOrder, call)
    /\ ticket' = [c \in Calls |->
          IF c \in in_receipt_order_' \cup in_timout_point_order_'
          THEN ticket[c] ELSE 0]

InsertToQueue(call) ==
    /\ in_receipt_order_' = in_receipt_order_ \cup {call}
    /\ in_timout_point_order_' = in_timout_point_order_ \cup {call}
    /\ ticket' = [ticket EXCEPT ![call] = 1 + Max({ticket[c] : c \in Calls})]

QueueIsEmpty == in_receipt_order_ = {}

\* PopFromQueue(): call is the result.
PopFromQueue(call) ==
    /\ \/ QueueIsEmpty /\ call = NoCall /\ UNCHANGED indexes
       \/ call \in First(in_receipt_order_, ReceiptOrder) /\ EraseFromQueue(call)
    /\ UNCHANGED <<in_processing_, capacity_>>

\* A mistake for the checks to catch: the capacity is not read again.
PushToQueueOldCapacity(call, result) ==
    /\ result = IF Contains(call) THEN "kAlreadyInQueue"
                ELSE IF Cardinality(in_receipt_order_) >= capacity_
                THEN "kOverload" ELSE "kOk"
    /\ IF result = "kOk" THEN InsertToQueue(call) ELSE UNCHANGED indexes
    /\ UNCHANGED <<in_processing_, capacity_>>

\* PushToQueue(call) with its result.
PushToQueue(call, result) ==
    /\ capacity_' = UpdateCapacity(capacity_)
    /\ result = IF Contains(call) THEN "kAlreadyInQueue"
                ELSE IF Cardinality(in_receipt_order_) >= capacity_'
                THEN "kOverload" ELSE "kOk"
    /\ IF result = "kOk" THEN InsertToQueue(call) ELSE UNCHANGED indexes
    /\ UNCHANGED in_processing_

\* The code dereferences in_timout_point_order_.begin() after it has looked
\* at in_receipt_order_ only: the iterator must not be end().
BeginIsValid == in_receipt_order_ # {} => in_timout_point_order_ # {}

\* GetMinTimeoutCallInQueue(): call is the result.
GetMinTimeoutCallInQueue(call) ==
    IF QueueIsEmpty THEN call = NoCall
    ELSE call \in First(in_timout_point_order_, TimeoutPointOrder)

\* A mistake for the checks to catch: the call is returned and not erased.
EraseTimeoutCallKept(call) ==
    /\ \E least \in Calls \cup {NoCall} :
          /\ GetMinTimeoutCallInQueue(least)
          /\ call = IF least # NoCall /\ IsTimeout(cdr[least])
                    THEN least ELSE NoCall
    /\ UNCHANGED <<indexes, in_processing_, capacity_>>

\* EraseTimeoutCallFromQueue(): call is the result.
EraseTimeoutCallFromQueue(call) ==
    /\ \E least \in Calls \cup {NoCall} :
          /\ GetMinTimeoutCallInQueue(least)
          /\ IF least # NoCall /\ IsTimeout(cdr[least])
             THEN call = least /\ EraseFromQueue(call)
             ELSE call = NoCall /\ UNCHANGED indexes
    /\ UNCHANGED <<in_processing_, capacity_>>

\* InsertToProcessing(call) with its result.
InsertToProcessing(call, added) ==
    /\ added = ~Contains(call)
    /\ in_processing_' = IF added THEN in_processing_ \cup {call}
                         ELSE in_processing_
    /\ UNCHANGED <<indexes, capacity_>>

\* EraseFromProcessing(call) erases whichever call has the same number.
EraseFromProcessing(call) ==
    /\ in_processing_' = {c \in in_processing_ : ~CallEquals(c, call)}
    /\ UNCHANGED <<indexes, capacity_>>
=============================================================================
