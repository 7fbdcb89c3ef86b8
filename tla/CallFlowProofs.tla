---------------------------- MODULE CallFlowProofs ----------------------------
(***************************************************************************)
(* Proofs about CallFlow, for any number of calls, phone numbers and       *)
(* instants, and any changes of the capacity and of the maximum wait.      *)
(***************************************************************************)
EXTENDS CallFlow, FiniteSetTheorems, TLAPS

\* No assertion of CallDetailedRecord has failed and no iterator was invalid.
FlowNeverCrashes == ~crashed

\* A call that is on its way has arrived and is not finished.
ActiveCallsInSystem ==
    \A c \in At("arrived") \cup At("queued") \cup At("popped") \cup At("inService") :
        InSystem(cdr[c])

\* What Contains guarantees after all: the queue has no two calls of one
\* number that arrived at the same instant.
NoClonesInQueue ==
    \A c, d \in At("queued") :
        /\ CallEquals(c, d)
        /\ cdr[c].arrival_time_ = cdr[d].arrival_time_
        => c = d

\* Nothing is known of a call before it arrives.
UnbornAreOutside ==
    \A c \in At("unborn") :
        /\ cdr[c] = Unborn
        /\ c \notin in_receipt_order_ \cup in_timout_point_order_

\* What holds with twins too.
FlowBase == FlowTypeOK /\ UnbornAreOutside

\* What holds until there are twins.  Erasing by equal key and equal number
\* erases the call itself because NoClonesInQueue holds for the first key and,
\* without twins, for the second.
FlowInv ==
    /\ FlowTypeOK
    /\ IndexesAgree
    /\ FlowNeverCrashes
    /\ ActiveCallsInSystem
    /\ NoClonesInQueue

-----------------------------------------------------------------------------
(* Operators.                                                              *)

\* The capacity read from the file, or kept, is a natural number.
LEMMA CapacityType ==
    ASSUME FlowTypeOK PROVE UpdateCapacity(capacity_) \in Nat
BY ConfigurationAssumption DEF FlowTypeOK, Configurations, UpdateCapacity,
                               GetProperty, Missing

\* What PushCall and the two service operations make of a record is a record.
LEMMA RecordTypes ==
    ASSUME FlowTypeOK, NEW c \in Calls
    PROVE  /\ \A phone \in Phones : SetArrivalTime(NewRecord(phone)) \in Records
           /\ \A op \in OperatorIds : StartService(cdr[c], op) \in Records
           /\ \A st \in CallStatus : CompleteService(cdr[c], st) \in Records
<1>1. ASSUME NEW phone \in Phones
      PROVE  SetArrivalTime(NewRecord(phone)) \in Records
  <2> DEFINE r == NewRecord(phone)
  <2>1. config_json_.call_max_wait \in MaxWaits
    BY DEF FlowTypeOK, Configurations
  <2>2. config_json_.call_max_wait \in Nat
    BY <2>1, ConfigurationAssumption
  <2>3. now \in Nat
    BY RecordAssumption DEF FlowTypeOK
  <2>4. r \in Records /\ r.max_wait_ = config_json_.call_max_wait
    BY <2>2 DEF NewRecord, ReadMaxWait, Records
  <2>5. now + r.max_wait_ \in Nat
    BY <2>2, <2>3, <2>4
  <2> QED BY <2>3, <2>4, <2>5 DEF SetArrivalTime, Records
<1>2. ASSUME NEW op \in OperatorIds PROVE StartService(cdr[c], op) \in Records
  BY DEF FlowTypeOK, StartService, Records
<1>3. ASSUME NEW st \in CallStatus PROVE CompleteService(cdr[c], st) \in Records
  BY DEF FlowTypeOK, CompleteService, Records
<1> QED BY <1>1, <1>2, <1>3

\* The key of a call under each comparator.
LEMMA OrderKeys ==
    ASSUME NEW c \in Calls
    PROVE  /\ ReceiptOrder[c] = cdr[c].arrival_time_
           /\ TimeoutPointOrder[c] = cdr[c].timeout_point_
BY DEF ReceiptOrder, TimeoutPointOrder

\* A multiset in which the only match of a call is the call itself loses that
\* call and nothing else.
LEMMA EraseTheOnlyMatch ==
    ASSUME NEW S \in SUBSET Calls, NEW order, NEW call \in S,
           Matching(S, order, call) = {call}
    PROVE  EraseCallFromMultiset(S, order, call) = S \ {call}
BY DEF EraseCallFromMultiset, First

\* EraseFromQueue takes out of both indexes exactly the call it is given.
LEMMA EraseFromQueueIsExact ==
    ASSUME FlowInv, ~Twins, NEW c \in At("queued"), EraseFromQueue(c)
    PROVE  /\ in_receipt_order_' = At("queued") \ {c}
           /\ in_timout_point_order_' = At("queued") \ {c}
<1>1. c \in Calls /\ At("queued") \in SUBSET Calls
  BY DEF At
<1>2. Matching(At("queued"), ReceiptOrder, c) = {c}
  BY <1>1, OrderKeys DEF Matching, CallEquals, FlowInv, NoClonesInQueue
<1>3. Matching(At("queued"), TimeoutPointOrder, c) = {c}
  <2>1. ASSUME NEW d \in At("queued"),
               cdr[d].timeout_point_ = cdr[c].timeout_point_, CallEquals(d, c)
        PROVE  d = c
    <3>1. c \in Calls /\ d \in Calls /\ WasArrived(cdr[c]) /\ WasArrived(cdr[d])
      BY <1>1 DEF FlowInv, ActiveCallsInSystem, InSystem
    <3>2. cdr[d].arrival_time_ = cdr[c].arrival_time_
      BY <2>1, <3>1 DEF Twins
    <3> QED BY <2>1, <3>2 DEF FlowInv, NoClonesInQueue
  <2> QED BY <1>1, <2>1, OrderKeys DEF Matching, CallEquals
<1>4. /\ in_receipt_order_' =
            EraseCallFromMultiset(At("queued"), ReceiptOrder, c)
      /\ in_timout_point_order_' =
            EraseCallFromMultiset(At("queued"), TimeoutPointOrder, c)
  BY DEF EraseFromQueue, FlowInv, IndexesAgree
<1> QED BY <1>1, <1>2, <1>3, <1>4, EraseTheOnlyMatch

\* A call that moves on leaves its stage and enters the next.
LEMMA StageMoves ==
    ASSUME flow \in [Calls -> Stages], NEW c \in Calls, NEW s \in Stages,
           flow' = [flow EXCEPT ![c] = s]
    PROVE  /\ flow' \in [Calls -> Stages]
           /\ At(s)' = At(s) \cup {c}
           /\ \A st \in Stages \ {s} : At(st)' = At(st) \ {c}
BY DEF At

-----------------------------------------------------------------------------
(* Initially, and one lemma per action.                                    *)

\* The constructors establish the invariant.
LEMMA FlowInitInv == FlowInit => FlowBase /\ FlowInv
<1> SUFFICES ASSUME FlowInit PROVE FlowBase /\ FlowInv
  OBVIOUS
<1> USE DEF FlowInit, ConfigInit, RecordsInit, CallQueueInit
<1>1. \A st \in Stages \ {"unborn"} : At(st) = {}
  BY DEF At
<1>2. UpdateCapacity(DefaultCapacity) \in Nat
  BY ConfigurationAssumption, FlowAssumption
     DEF Configurations, UpdateCapacity, GetProperty, Missing
<1>3. Unborn \in Records
  BY DEF Unborn, Records
<1>4. FlowTypeOK
  <2>1. now \in 0 .. MaxTime
    BY RecordAssumption
  <2>2. cdr \in [Calls -> Records]
    BY <1>3
  <2>3. flow \in [Calls -> Stages]
    BY DEF Stages
  <2>4. /\ in_processing_ \in SUBSET Calls
        /\ in_timout_point_order_ \in SUBSET Calls
        /\ in_receipt_order_ \in SUBSET Calls
    OBVIOUS
  <2>5. capacity_ \in Nat
    BY <1>2
  <2>6. config_json_ \in Configurations /\ crashed \in BOOLEAN
    OBVIOUS
  <2> QED BY ONLY <2>1, <2>2, <2>3, <2>4, <2>5, <2>6 DEF FlowTypeOK
<1>5. IndexesAgree /\ FlowNeverCrashes
  BY <1>1 DEF IndexesAgree, FlowNeverCrashes, Stages
<1>6. ActiveCallsInSystem /\ NoClonesInQueue
  BY <1>1 DEF ActiveCallsInSystem, NoClonesInQueue, Stages
<1>7. UnbornAreOutside
  BY DEF UnbornAreOutside, At
<1> QED BY <1>4, <1>5, <1>6, <1>7 DEF FlowBase, FlowInv

\* A new record is in the system.
LEMMA ArriveKeepsInv ==
    ASSUME FlowInv, NEW c \in Calls, NEW phone \in Phones, Arrive(c, phone)
    PROVE  FlowInv'
<1> DEFINE r == SetArrivalTime(NewRecord(phone))
<1> USE DEF FlowInv
<1>1. /\ flow[c] = "unborn"
      /\ cdr' = [cdr EXCEPT ![c] = r]
      /\ flow' = [flow EXCEPT ![c] = "arrived"]
      /\ UNCHANGED <<config_json_, now, call_queue_vars, crashed>>
  BY DEF Arrive
<1>2. /\ flow' \in [Calls -> Stages]
      /\ At("arrived")' = At("arrived") \cup {c}
      /\ \A st \in Stages \ {"arrived"} : At(st)' = At(st) \ {c}
  BY <1>1, StageMoves DEF FlowTypeOK, Stages
<1>3. \A st \in Stages \ {"unborn"} : c \notin At(st)
  BY <1>1 DEF At
<1>4. r \in Records
  BY RecordTypes
<1>5. FlowTypeOK'
  BY <1>1, <1>2, <1>4 DEF FlowTypeOK, call_queue_vars
<1>6. At("queued")' = At("queued") /\ At("popped")' = At("popped")
      /\ At("inService")' = At("inService")
  BY <1>2, <1>3 DEF Stages
<1>7. IndexesAgree' /\ FlowNeverCrashes'
  BY <1>1, <1>6 DEF IndexesAgree, FlowNeverCrashes, call_queue_vars
<1>8. /\ cdr'[c] = r
      /\ \A d \in Calls \ {c} : cdr'[d] = cdr[d]
  BY <1>1 DEF FlowTypeOK
<1>9. InSystem(r)
  <2>1. now \in Nat
    BY RecordAssumption DEF FlowTypeOK
  <2>2. r.arrival_time_ = now /\ r.status_ = NoStatus
    BY DEF SetArrivalTime, NewRecord
  <2> QED BY <2>1, <2>2 DEF InSystem, WasArrived, WasFinished, NoTime
<1>10. ActiveCallsInSystem'
  BY <1>2, <1>3, <1>6, <1>8, <1>9 DEF ActiveCallsInSystem, At, InSystem, WasArrived, WasFinished
<1>11. NoClonesInQueue'
  BY <1>3, <1>6, <1>8 DEF NoClonesInQueue, CallEquals, At, Stages
<1> QED BY <1>5, <1>7, <1>10, <1>11

\* What a step does to the records, when it only moves a call c on: the keys
\* of the indexes and the state of the other calls stay.
KeysStay(c) ==
    /\ cdr' \in [Calls -> Records]
    /\ \A d \in Calls :
          /\ cdr'[d].caller_phone_number_ = cdr[d].caller_phone_number_
          /\ cdr'[d].arrival_time_ = cdr[d].arrival_time_
          /\ cdr'[d].timeout_point_ = cdr[d].timeout_point_
    /\ \A d \in Calls \ {c} : cdr'[d].status_ = cdr[d].status_

\* What else such a step keeps in order.
TypesStay ==
    /\ config_json_' \in Configurations
    /\ now' \in 0 .. MaxTime
    /\ in_processing_' \in SUBSET Calls
    /\ capacity_' \in Nat

\* Neither StartService nor CompleteService touches the key of an index.
LEMMA ServiceKeepsKeys ==
    ASSUME FlowTypeOK, NEW c \in Calls
    PROVE  /\ UNCHANGED cdr => KeysStay(c)
           /\ \A op \in OperatorIds :
                 cdr' = [cdr EXCEPT ![c] = StartService(@, op)] =>
                    KeysStay(c) /\ cdr'[c].status_ = cdr[c].status_
           /\ \A st \in CallStatus :
                 cdr' = [cdr EXCEPT ![c] = CompleteService(@, st)] => KeysStay(c)
<1>1. cdr \in [Calls -> Records]
  BY DEF FlowTypeOK
<1>2. UNCHANGED cdr => KeysStay(c)
  BY <1>1 DEF KeysStay
<1>3. ASSUME NEW op \in OperatorIds,
             cdr' = [cdr EXCEPT ![c] = StartService(@, op)]
      PROVE  KeysStay(c) /\ cdr'[c].status_ = cdr[c].status_
  <2>1. StartService(cdr[c], op) \in Records
    BY RecordTypes
  <2>2. /\ cdr'[c] = StartService(cdr[c], op)
        /\ \A d \in Calls \ {c} : cdr'[d] = cdr[d]
        /\ cdr' \in [Calls -> Records]
    BY <1>1, <1>3, <2>1
  <2>3. cdr[c] \in Records
    BY <1>1
  <2> QED BY <2>2, <2>3 DEF KeysStay, StartService, Records
<1>4. ASSUME NEW st \in CallStatus,
             cdr' = [cdr EXCEPT ![c] = CompleteService(@, st)]
      PROVE  KeysStay(c)
  <2>1. CompleteService(cdr[c], st) \in Records
    BY RecordTypes
  <2>2. /\ cdr'[c] = CompleteService(cdr[c], st)
        /\ \A d \in Calls \ {c} : cdr'[d] = cdr[d]
        /\ cdr' \in [Calls -> Records]
    BY <1>1, <1>4, <2>1
  <2>3. cdr[c] \in Records
    BY <1>1
  <2> QED BY <2>2, <2>3 DEF KeysStay, CompleteService, Records
<1> QED BY <1>2, <1>3, <1>4

\* A call that goes on from the queue, or past it, keeps the invariant when
\* the indexes lose that call and no other.
LEMMA MoveKeepsInv ==
    ASSUME FlowInv, NEW c \in Calls, TypesStay, KeysStay(c), crashed' = FALSE,
           NEW s \in {"popped", "inService", "answered", "gone"},
           flow' = [flow EXCEPT ![c] = s],
           s \in {"popped", "inService"} => InSystem(cdr'[c]),
           in_receipt_order_' = At("queued") \ {c},
           in_timout_point_order_' = At("queued") \ {c}
    PROVE  FlowInv'
<1> USE DEF FlowInv
<1>1. /\ flow' \in [Calls -> Stages]
      /\ \A st \in Stages \ {s} : At(st)' = At(st) \ {c}
      /\ At(s)' = At(s) \cup {c}
  BY StageMoves DEF FlowTypeOK, Stages
<1>2. /\ At("arrived")' = At("arrived") \ {c}
      /\ At("queued")' = At("queued") \ {c}
  BY <1>1 DEF Stages
<1>3. FlowTypeOK'
  <2>1. At("queued") \in SUBSET Calls
    BY DEF At
  <2>2. cdr' \in [Calls -> Records]
    BY DEF KeysStay
  <2> QED BY <1>1, <2>1, <2>2 DEF FlowTypeOK, TypesStay
<1>4. IndexesAgree' /\ FlowNeverCrashes'
  BY <1>2 DEF IndexesAgree, FlowNeverCrashes
<1>5. ActiveCallsInSystem'
  <2>1. ASSUME NEW d \in At("arrived")' \cup At("queued")' \cup At("popped")'
                         \cup At("inService")'
        PROVE  InSystem(cdr'[d])
    <3>1. d \in Calls /\ flow'[d] \in {"arrived", "queued", "popped", "inService"}
      BY <2>1 DEF At
    <3>2. CASE d = c
      BY <3>1, <3>2, <1>2 DEF At, FlowTypeOK
    <3>3. CASE d # c
      <4>1. flow'[d] = flow[d]
        BY <3>1, <3>3 DEF FlowTypeOK
      <4>2. InSystem(cdr[d])
        BY <3>1, <4>1 DEF ActiveCallsInSystem, At
      <4> QED BY <3>1, <3>3, <4>2 DEF KeysStay, InSystem, WasArrived, WasFinished
    <3> QED BY <3>2, <3>3
  <2> QED BY <2>1 DEF ActiveCallsInSystem, InSystem, WasArrived, WasFinished
<1>6. NoClonesInQueue'
  BY <1>2 DEF NoClonesInQueue, CallEquals, KeysStay, At
<1> QED BY <1>3, <1>4, <1>5, <1>6

\* The queue is as it was, and the call was not in it.
LEMMA NotQueued ==
    ASSUME FlowInv, NEW c \in Calls, flow[c] # "queued", UNCHANGED indexes
    PROVE  /\ in_receipt_order_' = At("queued") \ {c}
           /\ in_timout_point_order_' = At("queued") \ {c}
BY DEF FlowInv, IndexesAgree, indexes, At

\* A call enters service past the queue, or as the one just popped.
LEMMA ServiceStartKeepsInv ==
    ASSUME FlowInv, NEW c \in Calls, NEW op \in OperatorIds,
           Bypass(c, op) \/ StartPopped(c, op)
    PROVE  FlowInv'
<1>1. /\ flow[c] \in {"arrived", "popped"}
      /\ Start(c, op)
      /\ UNCHANGED <<config_json_, now, indexes, capacity_>>
      /\ in_processing_' \in {in_processing_, in_processing_ \cup {c}}
  BY DEF Bypass, StartPopped, InsertToProcessing
<1>2. InSystem(cdr[c])
  BY <1>1 DEF FlowInv, ActiveCallsInSystem, At
<1>3. /\ crashed' = FALSE
      /\ cdr' = [cdr EXCEPT ![c] = StartService(@, op)]
      /\ flow' = [flow EXCEPT ![c] = "inService"]
  BY <1>1, <1>2 DEF Start, Asserting
<1>4. KeysStay(c) /\ cdr'[c].status_ = cdr[c].status_
  BY <1>3, ServiceKeepsKeys DEF FlowInv
<1>5. InSystem(cdr'[c])
  BY <1>2, <1>4 DEF KeysStay, InSystem, WasArrived, WasFinished
<1>6. TypesStay
  BY <1>1 DEF TypesStay, FlowInv, FlowTypeOK
<1> QED BY <1>1, <1>3, <1>4, <1>5, <1>6, NotQueued, MoveKeepsInv

\* Contains finds every call of the same number and instant, so that the call
\* it lets in is no clone.
LEMMA PushKeepsInv ==
    ASSUME FlowInv, NEW c \in Calls, Push(c) PROVE FlowInv'
<1> USE DEF FlowInv
<1>1. /\ flow[c] = "arrived"
      /\ ~Contains(c)
      /\ InsertToQueue(c)
      /\ capacity_' = UpdateCapacity(capacity_)
      /\ flow' = [flow EXCEPT ![c] = "queued"]
      /\ UNCHANGED <<config_json_, now, cdr, crashed, in_processing_>>
  BY DEF Push, PushToQueue
<1>2. /\ flow' \in [Calls -> Stages]
      /\ At("queued")' = At("queued") \cup {c}
      /\ \A st \in Stages \ {"queued"} : At(st)' = At(st) \ {c}
  BY <1>1, StageMoves DEF FlowTypeOK, Stages
<1>3. /\ in_receipt_order_' = At("queued")'
      /\ in_timout_point_order_' = At("queued")'
  BY <1>1, <1>2 DEF InsertToQueue, IndexesAgree
<1>4. FlowTypeOK'
  <2>1. At("queued")' \in SUBSET Calls
    BY DEF At
  <2> QED BY <1>1, <1>2, <1>3, <2>1, CapacityType DEF FlowTypeOK
<1>5. IndexesAgree' /\ FlowNeverCrashes'
  BY <1>1, <1>3 DEF IndexesAgree, FlowNeverCrashes
<1>6. /\ At("arrived")' = At("arrived") \ {c}
      /\ At("popped")' = At("popped") \ {c}
      /\ At("inService")' = At("inService") \ {c}
      /\ c \in At("arrived")
  BY <1>1, <1>2 DEF Stages, At
<1>7. ActiveCallsInSystem'
  BY <1>1, <1>2, <1>6 DEF ActiveCallsInSystem, InSystem, WasArrived, WasFinished
<1>8. NoClonesInQueue'
  <2>1. \A d \in At("queued") :
           ~(CallEquals(d, c) /\ cdr[d].arrival_time_ = cdr[c].arrival_time_)
    BY <1>1, OrderKeys DEF Contains, MultisetContainsCall, Matching,
                           IndexesAgree, At
  <2> QED BY <1>1, <1>2, <2>1 DEF NoClonesInQueue, CallEquals
<1> QED BY <1>4, <1>5, <1>7, <1>8

\* A call that PushToQueue refuses was in the system and ends there.
LEMMA RefuseKeepsInv ==
    ASSUME FlowInv, NEW c \in Calls, Refuse(c) PROVE FlowInv'
<1>1. PICK result \in {"kAlreadyInQueue", "kOverload"} :
         PushToQueue(c, result) /\ Complete(c, result, "gone")
  BY DEF Refuse
<1>2. /\ flow[c] = "arrived"
      /\ UNCHANGED <<config_json_, now, indexes, in_processing_>>
      /\ capacity_' = UpdateCapacity(capacity_)
  BY <1>1 DEF Refuse, PushToQueue
<1>3. InSystem(cdr[c])
  BY <1>2 DEF FlowInv, ActiveCallsInSystem, At
<1>4. /\ crashed' = FALSE
      /\ cdr' = [cdr EXCEPT ![c] = CompleteService(@, result)]
      /\ flow' = [flow EXCEPT ![c] = "gone"]
  BY <1>1, <1>3 DEF Complete, Asserting
<1>5. KeysStay(c)
  BY <1>4, ServiceKeepsKeys DEF FlowInv, CallStatus
<1>6. TypesStay
  BY <1>2, CapacityType DEF TypesStay, FlowInv, FlowTypeOK
<1> QED BY <1>2, <1>4, <1>5, <1>6, NotQueued, MoveKeepsInv

\* The least timeout is that of a queued call, and both indexes lose it.
LEMMA RejectTimeoutKeepsInv ==
    ASSUME FlowInv, ~Twins, NEW c \in Calls, RejectTimeout(c) PROVE FlowInv'
<1>1. c # NoCall
  BY RecordAssumption
<1>2. /\ GetMinTimeoutCallInQueue(c)
      /\ EraseFromQueue(c)
      /\ UNCHANGED <<config_json_, now, in_processing_, capacity_>>
  BY <1>1 DEF RejectTimeout, EraseTimeoutCallFromQueue
<1>3. c \in At("queued")
  BY <1>1, <1>2 DEF GetMinTimeoutCallInQueue, First, FlowInv, IndexesAgree
<1>4. flow[c] = "queued" /\ InSystem(cdr[c])
  BY <1>3 DEF FlowInv, ActiveCallsInSystem, At
<1>5. /\ crashed' = FALSE
      /\ cdr' = [cdr EXCEPT ![c] = CompleteService(@, "kTimeout")]
      /\ flow' = [flow EXCEPT ![c] = "gone"]
  BY <1>4 DEF RejectTimeout, Complete, Asserting
<1>6. KeysStay(c)
  BY <1>5, ServiceKeepsKeys DEF FlowInv, CallStatus
<1>7. TypesStay
  BY <1>2 DEF TypesStay, FlowInv, FlowTypeOK
<1> QED BY <1>2, <1>3, <1>5, <1>6, <1>7, EraseFromQueueIsExact, MoveKeepsInv

\* PopFromQueue takes a queued call out of both indexes.
LEMMA PopKeepsInv ==
    ASSUME FlowInv, ~Twins, NEW c \in Calls, Pop(c) PROVE FlowInv'
<1>1. /\ c \in First(in_receipt_order_, ReceiptOrder)
      /\ EraseFromQueue(c)
      /\ UNCHANGED <<config_json_, now, cdr, in_processing_, capacity_, crashed>>
      /\ flow' = [flow EXCEPT ![c] = "popped"]
  BY RecordAssumption DEF Pop, PopFromQueue
<1>2. c \in At("queued")
  BY <1>1 DEF First, FlowInv, IndexesAgree
<1>3. KeysStay(c)
  BY <1>1, ServiceKeepsKeys DEF FlowInv
<1>4. InSystem(cdr'[c])
  BY <1>1, <1>2 DEF FlowInv, ActiveCallsInSystem
<1>5. TypesStay /\ crashed' = FALSE
  BY <1>1 DEF TypesStay, FlowInv, FlowTypeOK, FlowNeverCrashes
<1> QED BY <1>1, <1>2, <1>3, <1>4, <1>5, EraseFromQueueIsExact, MoveKeepsInv

\* The end of service concerns a call that is in neither index.
LEMMA FinishKeepsInv ==
    ASSUME FlowInv, NEW c \in Calls, Answer(c) \/ Leave(c) PROVE FlowInv'
<1>1. CASE Answer(c)
  <2>1. InSystem(cdr[c])
    BY <1>1 DEF Answer, FlowInv, ActiveCallsInSystem, At
  <2>2. /\ crashed' = FALSE
        /\ cdr' = [cdr EXCEPT ![c] = CompleteService(@, "kOk")]
        /\ flow' = [flow EXCEPT ![c] = "answered"]
    BY <1>1, <2>1 DEF Answer, Complete, Asserting
  <2>3. KeysStay(c)
    BY <2>2, ServiceKeepsKeys DEF FlowInv, CallStatus
  <2>4. TypesStay /\ flow[c] # "queued" /\ UNCHANGED indexes
    BY <1>1 DEF Answer, TypesStay, FlowInv, FlowTypeOK, call_queue_vars, indexes
  <2> QED BY <2>2, <2>3, <2>4, NotQueued, MoveKeepsInv
<1>2. CASE Leave(c)
  <2>1. /\ flow[c] # "queued"
        /\ flow' = [flow EXCEPT ![c] = "gone"]
        /\ UNCHANGED <<config_json_, now, cdr, indexes, capacity_, crashed>>
        /\ in_processing_' \subseteq in_processing_
    BY <1>2 DEF Leave, EraseFromProcessing
  <2>2. KeysStay(c)
    BY <2>1, ServiceKeepsKeys DEF FlowInv
  <2>3. TypesStay /\ crashed' = FALSE
    BY <2>1 DEF TypesStay, FlowInv, FlowTypeOK, FlowNeverCrashes
  <2> QED BY <2>1, <2>2, <2>3, NotQueued, MoveKeepsInv
<1> QED BY <1>1, <1>2

\* Neither the clock nor the configuration is part of the argument: a record
\* keeps the wait and the point it was given.
LEMMA EnvironmentKeepsInv ==
    ASSUME FlowInv, PassTime \/ ChangeConfiguration \/ UNCHANGED flow_vars
    PROVE  FlowInv'
<1>1. /\ UNCHANGED <<cdr, call_queue_vars, flow, crashed>>
      /\ config_json_' \in Configurations
      /\ now' \in 0 .. MaxTime
  BY RecordAssumption DEF PassTime, Tick, ChangeConfiguration, UpdateConfiguration,
                          flow_vars, FlowInv, FlowTypeOK
<1>2. \A st \in Stages : At(st)' = At(st)
  BY <1>1 DEF At
<1>3. FlowTypeOK'
  BY <1>1 DEF FlowInv, FlowTypeOK, call_queue_vars
<1>4. IndexesAgree' /\ FlowNeverCrashes'
  BY <1>1, <1>2 DEF FlowInv, IndexesAgree, FlowNeverCrashes, call_queue_vars, Stages
<1>5. ActiveCallsInSystem'
  BY <1>1, <1>2 DEF FlowInv, ActiveCallsInSystem, InSystem, WasArrived,
                    WasFinished, Stages
<1>6. NoClonesInQueue'
  BY <1>1, <1>2 DEF FlowInv, NoClonesInQueue, CallEquals, Stages
<1> QED BY <1>3, <1>4, <1>5, <1>6 DEF FlowInv

\* Every step keeps the invariant, and InvalidBegin is never enabled.
LEMMA FlowNextInv == FlowInv /\ ~Twins /\ [FlowNext]_flow_vars => FlowInv'
<1> SUFFICES ASSUME FlowInv, ~Twins, [FlowNext]_flow_vars PROVE FlowInv'
  OBVIOUS
<1>1. ASSUME NEW c \in Calls, NEW phone \in Phones, Arrive(c, phone)
      PROVE  FlowInv'
  BY <1>1, ArriveKeepsInv
<1>2. ASSUME NEW c \in Calls, Push(c) PROVE FlowInv'
  BY <1>2, PushKeepsInv
<1>3. ASSUME NEW c \in Calls, Refuse(c) PROVE FlowInv'
  BY <1>3, RefuseKeepsInv
<1>4. ASSUME NEW c \in Calls, RejectTimeout(c) PROVE FlowInv'
  BY <1>4, RejectTimeoutKeepsInv
<1>5. ASSUME NEW c \in Calls, Pop(c) PROVE FlowInv'
  BY <1>5, PopKeepsInv
<1>6. ASSUME NEW c \in Calls, Answer(c) \/ Leave(c) PROVE FlowInv'
  BY <1>6, FinishKeepsInv
<1>7. ASSUME NEW c \in Calls, NEW op \in OperatorIds,
             Bypass(c, op) \/ StartPopped(c, op)
      PROVE  FlowInv'
  BY <1>7, ServiceStartKeepsInv
<1>8. ~InvalidBegin
  BY DEF InvalidBegin, BeginIsValid, FlowInv, IndexesAgree
<1>9. CASE PassTime \/ ChangeConfiguration \/ UNCHANGED flow_vars
  BY <1>9, EnvironmentKeepsInv
<1> QED BY <1>1, <1>2, <1>3, <1>4, <1>5, <1>6, <1>7, <1>8, <1>9
        DEF FlowNext, Rest

-----------------------------------------------------------------------------
(* With or without twins.                                                  *)

\* What a step may do to the state when nothing is said about the indexes but
\* that they get no unborn call: the records of the others keep their keys.
LEMMA BaseStays ==
    ASSUME FlowBase, NEW c \in Calls, flow[c] # "unborn", TypesStay, KeysStay(c),
           crashed' \in BOOLEAN,
           NEW s \in Stages \ {"unborn"}, flow' = [flow EXCEPT ![c] = s],
           in_receipt_order_' \subseteq in_receipt_order_ \cup {c},
           in_timout_point_order_' \subseteq in_timout_point_order_ \cup {c},
           \A d \in Calls \ {c} : cdr'[d] = cdr[d]
    PROVE  FlowBase' /\ (Twins => Twins')
<1>1. /\ flow' \in [Calls -> Stages]
      /\ At("unborn")' = At("unborn") \ {c}
  BY StageMoves DEF FlowBase, FlowTypeOK, Stages
<1>2. FlowTypeOK'
  BY <1>1 DEF FlowBase, FlowTypeOK, TypesStay, KeysStay
<1>3. UnbornAreOutside'
  BY <1>1 DEF FlowBase, UnbornAreOutside, At
<1>4. Twins => Twins'
  BY DEF Twins, KeysStay, WasArrived, CallEquals
<1> QED BY <1>2, <1>3, <1>4 DEF FlowBase

\* Every step keeps the types, twins or not, and a pair of twins stays one.
LEMMA FlowNextBase ==
    FlowBase /\ [FlowNext]_flow_vars => FlowBase' /\ (Twins => Twins')
<1> SUFFICES ASSUME FlowBase, [FlowNext]_flow_vars
             PROVE  FlowBase' /\ (Twins => Twins')
  OBVIOUS
<1> USE DEF FlowBase
<1>1. ASSUME NEW c \in Calls, NEW phone \in Phones, Arrive(c, phone)
      PROVE  FlowBase' /\ (Twins => Twins')
  <2> DEFINE r == SetArrivalTime(NewRecord(phone))
  <2>1. /\ flow[c] = "unborn"
        /\ cdr' = [cdr EXCEPT ![c] = r]
        /\ flow' = [flow EXCEPT ![c] = "arrived"]
        /\ UNCHANGED <<config_json_, now, call_queue_vars, crashed>>
    BY <1>1 DEF Arrive
  <2>2. /\ flow' \in [Calls -> Stages]
        /\ At("unborn")' = At("unborn") \ {c}
    BY <2>1, StageMoves DEF FlowTypeOK, Stages
  <2>3. r \in Records
    BY RecordTypes
  <2>4. FlowTypeOK'
    BY <2>1, <2>2, <2>3 DEF FlowTypeOK, call_queue_vars
  <2>5. \A d \in Calls \ {c} : cdr'[d] = cdr[d]
    BY <2>1 DEF FlowTypeOK
  <2>6. UnbornAreOutside'
    BY <2>1, <2>2, <2>5 DEF UnbornAreOutside, call_queue_vars, At
  <2>7. ~WasArrived(cdr[c])
    BY <2>1 DEF UnbornAreOutside, At, Unborn, WasArrived
  <2>8. Twins => Twins'
    BY <2>5, <2>7 DEF Twins, CallEquals, WasArrived
  <2> QED BY <2>4, <2>6, <2>8
<1>2. ASSUME NEW c \in Calls, Push(c) PROVE FlowBase' /\ (Twins => Twins')
  <2>1. /\ flow[c] # "unborn"
        /\ flow' = [flow EXCEPT ![c] = "queued"]
        /\ in_receipt_order_' = in_receipt_order_ \cup {c}
        /\ in_timout_point_order_' = in_timout_point_order_ \cup {c}
        /\ capacity_' = UpdateCapacity(capacity_)
        /\ UNCHANGED <<config_json_, now, cdr, crashed, in_processing_>>
    BY <1>2 DEF Push, PushToQueue, InsertToQueue
  <2>2. TypesStay /\ KeysStay(c) /\ crashed' \in BOOLEAN
    BY <2>1, CapacityType DEF TypesStay, KeysStay, FlowTypeOK
  <2> QED BY <2>1, <2>2, BaseStays DEF Stages
<1>3. ASSUME NEW c \in Calls, Refuse(c) PROVE FlowBase' /\ (Twins => Twins')
  <2>1. PICK result \in {"kAlreadyInQueue", "kOverload"} :
           PushToQueue(c, result) /\ Complete(c, result, "gone")
    BY <1>3 DEF Refuse
  <2>2. /\ flow[c] # "unborn"
        /\ flow' = [flow EXCEPT ![c] = "gone"]
        /\ cdr' = [cdr EXCEPT ![c] = CompleteService(@, result)]
        /\ capacity_' = UpdateCapacity(capacity_)
        /\ UNCHANGED <<config_json_, now, indexes, in_processing_>>
        /\ crashed' \in BOOLEAN
    BY <1>3, <2>1 DEF Refuse, PushToQueue, Complete, Asserting
  <2>3. KeysStay(c)
    BY <2>2, ServiceKeepsKeys DEF CallStatus
  <2>4. TypesStay
    BY <2>2, CapacityType DEF TypesStay, FlowTypeOK
  <2>5. \A d \in Calls \ {c} : cdr'[d] = cdr[d]
    BY <2>2 DEF FlowTypeOK
  <2> QED BY <2>2, <2>3, <2>4, <2>5, BaseStays DEF Stages, indexes
<1>4. ASSUME NEW c \in Calls, RejectTimeout(c) PROVE FlowBase' /\ (Twins => Twins')
  <2>1. c # NoCall
    BY RecordAssumption
  <2>2. /\ GetMinTimeoutCallInQueue(c)
        /\ EraseFromQueue(c)
        /\ UNCHANGED <<config_json_, now, in_processing_, capacity_>>
    BY <1>4, <2>1 DEF RejectTimeout, EraseTimeoutCallFromQueue
  <2>3. flow[c] # "unborn"
    BY <2>1, <2>2 DEF GetMinTimeoutCallInQueue, First, UnbornAreOutside, At
  <2> DEFINE s == IF flow[c] = "queued" THEN "gone" ELSE flow[c]
  <2>4. /\ flow' = [flow EXCEPT ![c] = s]
        /\ cdr' = [cdr EXCEPT ![c] = CompleteService(@, "kTimeout")]
        /\ crashed' \in BOOLEAN
        /\ s \in Stages \ {"unborn"}
    BY <1>4, <2>3 DEF RejectTimeout, Complete, Asserting, FlowTypeOK, Stages
  <2>5. KeysStay(c)
    BY <2>4, ServiceKeepsKeys DEF CallStatus
  <2>6. TypesStay
    BY <2>2 DEF TypesStay, FlowTypeOK
  <2>7. \A d \in Calls \ {c} : cdr'[d] = cdr[d]
    BY <2>4 DEF FlowTypeOK
  <2>8. /\ in_receipt_order_' \subseteq in_receipt_order_
        /\ in_timout_point_order_' \subseteq in_timout_point_order_
    BY <2>2 DEF EraseFromQueue, EraseCallFromMultiset
  <2> HIDE DEF s
  <2> QED BY <2>3, <2>4, <2>5, <2>6, <2>7, <2>8, BaseStays
<1>5. ASSUME NEW c \in Calls, Pop(c) PROVE FlowBase' /\ (Twins => Twins')
  <2>1. /\ c \in First(in_receipt_order_, ReceiptOrder)
        /\ EraseFromQueue(c)
        /\ UNCHANGED <<config_json_, now, cdr, in_processing_, capacity_, crashed>>
        /\ flow' = [flow EXCEPT ![c] = "popped"]
    BY <1>5, RecordAssumption DEF Pop, PopFromQueue
  <2>2. flow[c] # "unborn"
    BY <2>1 DEF First, UnbornAreOutside, At
  <2>3. TypesStay /\ KeysStay(c) /\ crashed' \in BOOLEAN
    BY <2>1 DEF TypesStay, KeysStay, FlowTypeOK
  <2>4. /\ in_receipt_order_' \subseteq in_receipt_order_
        /\ in_timout_point_order_' \subseteq in_timout_point_order_
    BY <2>1 DEF EraseFromQueue, EraseCallFromMultiset
  <2> QED BY <2>1, <2>2, <2>3, <2>4, BaseStays DEF Stages
<1>6. ASSUME NEW c \in Calls, Answer(c) \/ Leave(c)
      PROVE  FlowBase' /\ (Twins => Twins')
  <2>1. /\ flow[c] # "unborn"
        /\ UNCHANGED <<config_json_, now, indexes, capacity_>>
        /\ in_processing_' \subseteq in_processing_
        /\ crashed' \in BOOLEAN
        /\ \E s \in {"answered", "gone"} : flow' = [flow EXCEPT ![c] = s]
        /\ \/ UNCHANGED cdr
           \/ cdr' = [cdr EXCEPT ![c] = CompleteService(@, "kOk")]
    BY <1>6 DEF Answer, Leave, Complete, Asserting, EraseFromProcessing,
                call_queue_vars, indexes, FlowTypeOK
  <2>2. KeysStay(c)
    BY <2>1, ServiceKeepsKeys DEF CallStatus
  <2>3. TypesStay
    BY <2>1 DEF TypesStay, FlowTypeOK
  <2>4. \A d \in Calls \ {c} : cdr'[d] = cdr[d]
    BY <2>1 DEF FlowTypeOK
  <2>5. PICK s \in {"answered", "gone"} : flow' = [flow EXCEPT ![c] = s]
    BY <2>1
  <2> QED BY <2>1, <2>2, <2>3, <2>4, <2>5, BaseStays DEF Stages, indexes
<1>7. ASSUME NEW c \in Calls, NEW op \in OperatorIds,
             Bypass(c, op) \/ StartPopped(c, op)
      PROVE  FlowBase' /\ (Twins => Twins')
  <2>1. /\ flow[c] # "unborn"
        /\ flow' = [flow EXCEPT ![c] = "inService"]
        /\ cdr' = [cdr EXCEPT ![c] = StartService(@, op)]
        /\ UNCHANGED <<config_json_, now, indexes, capacity_>>
        /\ in_processing_' \in {in_processing_, in_processing_ \cup {c}}
        /\ crashed' \in BOOLEAN
    BY <1>7 DEF Bypass, StartPopped, InsertToProcessing, Start, Asserting
  <2>2. KeysStay(c)
    BY <2>1, ServiceKeepsKeys
  <2>3. TypesStay
    BY <2>1 DEF TypesStay, FlowTypeOK
  <2>4. \A d \in Calls \ {c} : cdr'[d] = cdr[d]
    BY <2>1 DEF FlowTypeOK
  <2> QED BY <2>1, <2>2, <2>3, <2>4, BaseStays DEF Stages, indexes
<1>8. CASE \/ InvalidBegin \/ PassTime \/ ChangeConfiguration
           \/ UNCHANGED flow_vars
  <2>1. /\ UNCHANGED <<cdr, call_queue_vars, flow>>
        /\ crashed' \in BOOLEAN
        /\ config_json_' \in Configurations
        /\ now' \in 0 .. MaxTime
    <3>1. CASE InvalidBegin
      BY <3>1 DEF InvalidBegin, FlowTypeOK
    <3>2. CASE PassTime \/ ChangeConfiguration \/ UNCHANGED flow_vars
      BY <3>2, RecordAssumption
         DEF PassTime, Tick, ChangeConfiguration, UpdateConfiguration,
             flow_vars, FlowTypeOK
    <3> QED BY <1>8, <3>1, <3>2
  <2>2. FlowTypeOK'
    BY <2>1 DEF FlowTypeOK, call_queue_vars
  <2>3. UnbornAreOutside'
    BY <2>1 DEF UnbornAreOutside, call_queue_vars, At
  <2>4. Twins => Twins'
    BY <2>1 DEF Twins, CallEquals, WasArrived
  <2> QED BY <2>2, <2>3, <2>4
<1> QED BY <1>1, <1>2, <1>3, <1>4, <1>5, <1>6, <1>7, <1>8
        DEF FlowNext, Rest

-----------------------------------------------------------------------------
(* Theorems.                                                               *)

\* Type correctness, the capacity read from the file included.
THEOREM FlowTypeTheorem == FlowSpec => []FlowTypeOK
<1>1. FlowBase => FlowTypeOK
  BY DEF FlowBase
<1> QED BY <1>1, FlowInitInv, FlowNextBase, PTL DEF FlowSpec

\* The inductive invariant: the strong part holds as long as there are no
\* twins, and once there are, there always will be.
THEOREM FlowInvariant == FlowSpec => [](FlowBase /\ (Twins \/ FlowInv))
<1>1. FlowInit => FlowBase /\ (Twins \/ FlowInv)
  BY FlowInitInv
<1>2. FlowBase /\ (Twins \/ FlowInv) /\ [FlowNext]_flow_vars =>
         FlowBase' /\ (Twins' \/ FlowInv')
  BY FlowNextBase, FlowNextInv
<1> QED BY <1>1, <1>2, PTL DEF FlowSpec

\* Without twins no assertion of CallDetailedRecord fails and begin() of
\* in_timout_point_order_ is never taken while that index is empty.
THEOREM NeverCrashesTheorem == FlowSpec => []NeverCrashesUnlessTwins
<1>1. FlowBase /\ (Twins \/ FlowInv) => NeverCrashesUnlessTwins
  BY DEF FlowInv, FlowNeverCrashes, NeverCrashesUnlessTwins
<1> QED BY <1>1, FlowInvariant, PTL

-----------------------------------------------------------------------------
(* The processing set.                                                     *)

\* A step that lets no call in, moves c on and keeps the numbers of the calls
\* in the set.
LEMMA ReleasedMove ==
    ASSUME FlowTypeOK, NumbersAreReleased, NEW c \in Calls, NEW s,
           flow' = [flow EXCEPT ![c] = s],
           in_processing_' \subseteq in_processing_,
           c \in in_processing_' => s \in {"inService", "answered"},
           \A d \in in_processing_' :
              cdr'[d].caller_phone_number_ = cdr[d].caller_phone_number_
    PROVE  NumbersAreReleased'
<1>1. ASSUME NEW d \in in_processing_' PROVE d \in At("inService")' \cup At("answered")'
  <2>1. d \in Calls /\ flow[d] \in {"inService", "answered"}
    BY DEF NumbersAreReleased, At
  <2>2. flow'[d] = IF d = c THEN s ELSE flow[d]
    BY <2>1 DEF FlowTypeOK
  <2> QED BY <2>1, <2>2 DEF At
<1>2. \A d, e \in in_processing_' : CallEquals(d, e)' => d = e
  BY DEF NumbersAreReleased, CallEquals
<1> QED BY <1>1, <1>2 DEF NumbersAreReleased

\* InsertToProcessing lets a call in beside no other of its number, and
\* EraseFromProcessing removes whichever call has the number.  A call moves
\* past "answered" by Leave only, because those that are queued, and with
\* IndexesAgree they alone are popped or rejected, are not in the set.
LEMMA ReleasedStep ==
    ASSUME FlowInv, ~Twins, NumbersAreReleased, [FlowNext]_flow_vars
    PROVE  NumbersAreReleased'
<1>0. FlowTypeOK /\ IndexesAgree
  BY DEF FlowInv
<1>a. \A c \in Calls : c \in in_processing_ => flow[c] \in {"inService", "answered"}
  BY DEF NumbersAreReleased, At
<1>1. ASSUME NEW c \in Calls, NEW phone \in Phones, Arrive(c, phone)
      PROVE  NumbersAreReleased'
  <2>1. /\ flow[c] = "unborn" /\ flow' = [flow EXCEPT ![c] = "arrived"]
        /\ UNCHANGED in_processing_
        /\ \A d \in Calls \ {c} : cdr'[d] = cdr[d]
    BY <1>0, <1>1 DEF Arrive, call_queue_vars, FlowTypeOK
  <2>2. c \notin in_processing_'
    BY <1>a, <2>1
  <2>3. \A d \in in_processing_' : cdr'[d] = cdr[d]
    BY <1>0, <2>1, <2>2 DEF FlowTypeOK
  <2> QED BY <1>0, <2>1, <2>2, <2>3, ReleasedMove
<1>2. ASSUME NEW c \in Calls, Push(c) \/ Refuse(c) \/ RejectTimeout(c) \/ Pop(c)
      PROVE  NumbersAreReleased'
  <2>1. \A st \in CallStatus : Complete(c, st, "gone") => KeysStay(c)
    BY <1>0, ServiceKeepsKeys DEF Complete
  <2>2. CASE Push(c) \/ Refuse(c)
    <3>1. PICK s \in Stages : flow' = [flow EXCEPT ![c] = s]
      BY <2>2 DEF Push, Refuse, Complete, Stages
    <3>2. /\ flow[c] = "arrived"
          /\ UNCHANGED in_processing_
          /\ KeysStay(c)
      BY <1>0, <2>1, <2>2, ServiceKeepsKeys
         DEF Push, Refuse, PushToQueue, CallStatus
    <3>3. c \notin in_processing_'
      BY <1>a, <3>2
    <3> QED BY <1>0, <3>1, <3>2, <3>3, ReleasedMove DEF KeysStay, FlowTypeOK
  <2>3. CASE RejectTimeout(c) \/ Pop(c)
    <3>1. flow[c] = "queued" /\ UNCHANGED in_processing_
      BY <1>0, <2>3, RecordAssumption
         DEF RejectTimeout, EraseTimeoutCallFromQueue, GetMinTimeoutCallInQueue,
             Pop, PopFromQueue, First, IndexesAgree, At
    <3>2. KeysStay(c)
      BY <1>0, <2>1, <2>3, <3>1, ServiceKeepsKeys
         DEF RejectTimeout, Pop, CallStatus
    <3>3. PICK s \in Stages : flow' = [flow EXCEPT ![c] = s]
      BY <2>3, <3>1 DEF RejectTimeout, Pop, Complete, Stages
    <3>4. c \notin in_processing_'
      BY <1>a, <3>1
    <3> QED BY <1>0, <3>1, <3>2, <3>3, <3>4, ReleasedMove DEF KeysStay, FlowTypeOK
  <2> QED BY <1>2, <2>2, <2>3
<1>3. ASSUME NEW c \in Calls, Answer(c) PROVE NumbersAreReleased'
  <2>1. /\ flow' = [flow EXCEPT ![c] = "answered"]
        /\ UNCHANGED in_processing_
        /\ cdr' = [cdr EXCEPT ![c] = CompleteService(@, "kOk")]
    BY <1>3 DEF Answer, Complete, call_queue_vars
  <2>2. KeysStay(c)
    BY <1>0, <2>1, ServiceKeepsKeys DEF CallStatus
  <2> QED BY <1>0, <2>1, <2>2, ReleasedMove DEF KeysStay, FlowTypeOK
<1>4. ASSUME NEW c \in Calls, Leave(c) PROVE NumbersAreReleased'
  <2>1. /\ flow' = [flow EXCEPT ![c] = "gone"]
        /\ in_processing_' \subseteq in_processing_
        /\ c \notin in_processing_'
        /\ UNCHANGED cdr
    BY <1>4 DEF Leave, EraseFromProcessing, CallEquals
  <2> QED BY <1>0, <2>1, ReleasedMove
<1>5. ASSUME NEW c \in Calls, NEW op \in OperatorIds,
             Bypass(c, op) \/ StartPopped(c, op)
      PROVE  NumbersAreReleased'
  <2>1. /\ flow' = [flow EXCEPT ![c] = "inService"]
        /\ cdr' = [cdr EXCEPT ![c] = StartService(@, op)]
        /\ \/ in_processing_' = in_processing_
           \/ in_processing_' = in_processing_ \cup {c} /\ ~Contains(c)
    BY <1>5 DEF Bypass, StartPopped, InsertToProcessing, Start
  <2>2. KeysStay(c)
    BY <1>0, <2>1, ServiceKeepsKeys
  <2>3. CASE in_processing_' = in_processing_
    BY <1>0, <2>1, <2>2, <2>3, ReleasedMove DEF KeysStay, FlowTypeOK
  <2>4. CASE in_processing_' = in_processing_ \cup {c} /\ ~Contains(c)
    <3>1. At("inService")' = At("inService") \cup {c}
          /\ At("answered")' = At("answered") \ {c}
      BY <1>0, <2>1, StageMoves DEF FlowTypeOK, Stages
    <3>2. in_processing_' \subseteq At("inService")' \cup At("answered")'
      BY <2>4, <3>1 DEF NumbersAreReleased
    <3>3. \A d \in in_processing_ : ~CallEquals(d, c)
      BY <2>4 DEF Contains
    <3>4. \A d, e \in in_processing_' : CallEquals(d, e)' => d = e
      BY <1>0, <2>2, <2>4, <3>3 DEF NumbersAreReleased, CallEquals, KeysStay, FlowTypeOK
    <3> QED BY <3>2, <3>4 DEF NumbersAreReleased
  <2> QED BY <2>1, <2>3, <2>4
<1>6. CASE InvalidBegin \/ PassTime \/ ChangeConfiguration \/ UNCHANGED flow_vars
  <2>1. UNCHANGED <<flow, cdr, in_processing_>>
    BY <1>6 DEF InvalidBegin, PassTime, ChangeConfiguration, flow_vars, call_queue_vars
  <2> QED BY <2>1 DEF NumbersAreReleased, At, CallEquals
<1> QED BY <1>1, <1>2, <1>3, <1>4, <1>5, <1>6 DEF FlowNext, Rest

\* No number stays behind in the processing set, where it would be refused for
\* ever, unless there were twins.
THEOREM NumbersTheorem == FlowSpec => [](Twins \/ NumbersAreReleased)
<1>1. FlowInit => NumbersAreReleased
  BY DEF FlowInit, CallQueueInit, NumbersAreReleased
<1>2. /\ FlowBase /\ (Twins \/ FlowInv) /\ (Twins \/ NumbersAreReleased)
      /\ [FlowNext]_flow_vars
      => Twins' \/ NumbersAreReleased'
  BY FlowNextBase, ReleasedStep
<1> QED BY <1>1, <1>2, FlowInvariant, PTL DEF FlowSpec

\* EraseFromQueue and its callers keep both indexes equal to the set of the
\* calls that wait, and EraseFromProcessing the processing set current,
\* whatever numbers call, however often and at whatever instants, unless two
\* calls of one number were given waits that end together.
THEOREM IndexesAgreeTheorem == FlowSpec => []IndexesAgreeUnlessTwins
<1>1. FlowBase /\ (Twins \/ FlowInv) /\ (Twins \/ NumbersAreReleased)
         => IndexesAgreeUnlessTwins
  BY DEF FlowInv, IndexesAgreeUnlessTwins
<1> QED BY <1>1, FlowInvariant, NumbersTheorem, PTL

\* What is left of the uniqueness of the numbers in the queue: two calls of
\* one number that arrived at the same instant do not wait together, unless
\* there were twins.
THEOREM NoClonesTheorem == FlowSpec => [](Twins \/ NoClonesInQueue)
<1>1. FlowBase /\ (Twins \/ FlowInv) => Twins \/ NoClonesInQueue
  BY DEF FlowInv
<1> QED BY <1>1, FlowInvariant, PTL

-----------------------------------------------------------------------------
(* What a step may do to the queue.                                        *)

\* Only Push adds to the index by arrival.
LEMMA OnlyPushGrows ==
    ASSUME FlowTypeOK, [FlowNext]_flow_vars
    PROVE  \/ \E c \in Calls : Push(c)
           \/ in_receipt_order_' \subseteq in_receipt_order_
<1>1. ASSUME NEW c \in Calls, NEW phone \in Phones, Arrive(c, phone)
      PROVE  in_receipt_order_' \subseteq in_receipt_order_
  BY <1>1 DEF Arrive, call_queue_vars
<1>2. ASSUME NEW c \in Calls, Refuse(c)
      PROVE  in_receipt_order_' \subseteq in_receipt_order_
  <2>1. PICK result \in {"kAlreadyInQueue", "kOverload"} : PushToQueue(c, result)
    BY <1>2 DEF Refuse
  <2> QED BY <2>1 DEF PushToQueue, indexes
<1>3. ASSUME NEW c \in Calls, RejectTimeout(c) \/ Pop(c)
      PROVE  in_receipt_order_' \subseteq in_receipt_order_
  <2>1. EraseFromQueue(c)
    BY <1>3, RecordAssumption
       DEF RejectTimeout, EraseTimeoutCallFromQueue, Pop, PopFromQueue
  <2> QED BY <2>1 DEF EraseFromQueue, EraseCallFromMultiset
<1>4. ASSUME NEW c \in Calls, Answer(c) \/ Leave(c)
      PROVE  in_receipt_order_' \subseteq in_receipt_order_
  BY <1>4 DEF Answer, Leave, EraseFromProcessing, call_queue_vars, indexes
<1>5. ASSUME NEW c \in Calls, NEW op \in OperatorIds,
             Bypass(c, op) \/ StartPopped(c, op)
      PROVE  in_receipt_order_' \subseteq in_receipt_order_
  BY <1>5 DEF Bypass, StartPopped, InsertToProcessing, indexes
<1>6. CASE \/ InvalidBegin \/ PassTime \/ ChangeConfiguration
           \/ UNCHANGED flow_vars
  BY <1>6 DEF InvalidBegin, PassTime, ChangeConfiguration, flow_vars,
              call_queue_vars
<1> QED BY <1>1, <1>2, <1>3, <1>4, <1>5, <1>6 DEF FlowNext, Rest

\* A call is pushed below the capacity that PushToQueue has just read, so that
\* the queue, of any size before, then has at most that capacity.
LEMMA StepGrowsWithinCapacity ==
    ASSUME FlowTypeOK, [FlowNext]_flow_vars,
           Cardinality(in_receipt_order_') > Cardinality(in_receipt_order_)
    PROVE  Cardinality(in_receipt_order_') <= UpdateCapacity(capacity_)
<1>1. IsFiniteSet(in_receipt_order_)
  BY FlowAssumption, FS_Subset DEF FlowTypeOK
<1>2. Cardinality(in_receipt_order_) \in Nat
  BY <1>1, FS_CardinalityType
<1>3. CASE in_receipt_order_' \subseteq in_receipt_order_
  <2>1. Cardinality(in_receipt_order_') <= Cardinality(in_receipt_order_)
    BY <1>1, <1>3, FS_Subset
  <2>2. Cardinality(in_receipt_order_') \in Nat
    BY <1>1, <1>3, FS_Subset, FS_CardinalityType
  <2> QED BY <1>2, <2>1, <2>2
<1>4. ASSUME NEW c \in Calls, Push(c)
      PROVE  Cardinality(in_receipt_order_') <= UpdateCapacity(capacity_)
  <2> DEFINE capacity == UpdateCapacity(capacity_)
  <2>1. /\ in_receipt_order_' = in_receipt_order_ \cup {c}
        /\ ~(Cardinality(in_receipt_order_) >= capacity)
    BY <1>4 DEF Push, PushToQueue, InsertToQueue
  <2>2. capacity \in Nat
    BY CapacityType
  <2>3. Cardinality(in_receipt_order_') <= Cardinality(in_receipt_order_) + 1
        /\ Cardinality(in_receipt_order_') \in Nat
    <3>1. Cardinality(in_receipt_order_ \cup {c}) =
            IF c \in in_receipt_order_ THEN Cardinality(in_receipt_order_)
            ELSE Cardinality(in_receipt_order_) + 1
      BY <1>1, FS_AddElement
    <3> QED BY <1>2, <2>1, <3>1
  <2> HIDE DEF capacity
  <2>4. Cardinality(in_receipt_order_') <= capacity
    BY <1>2, <2>1, <2>2, <2>3
  <2> QED BY <2>4 DEF capacity
<1> QED BY <1>3, <1>4, OnlyPushGrows

\* Without twins, what leaves the queue is the call that PopFromQueue found at
\* begin() or the one whose wait EraseTimeoutCallFromQueue found over.
LEMMA StepLeavesInTurn ==
    ASSUME FlowInv, ~Twins, [FlowNext]_flow_vars,
           NEW c \in in_receipt_order_ \ in_receipt_order_'
    PROVE  \/ now >= cdr[c].timeout_point_
           \/ \A d \in in_receipt_order_ :
                 cdr[c].arrival_time_ <= cdr[d].arrival_time_
<1> USE DEF FlowInv
<1>0. in_receipt_order_ = At("queued") /\ in_timout_point_order_ = At("queued")
  BY DEF IndexesAgree
<1>1. ASSUME NEW b \in Calls, RejectTimeout(b) PROVE now >= cdr[c].timeout_point_
  <2>1. b # NoCall
    BY RecordAssumption
  <2>2. GetMinTimeoutCallInQueue(b) /\ EraseFromQueue(b) /\ IsTimeout(cdr[b])
    BY <1>1, <2>1 DEF RejectTimeout, EraseTimeoutCallFromQueue
  <2>3. b \in At("queued")
    BY <1>0, <2>1, <2>2 DEF GetMinTimeoutCallInQueue, First
  <2>4. c = b
    BY <1>0, <2>2, <2>3, EraseFromQueueIsExact
  <2> QED BY <2>2, <2>4 DEF IsTimeout
<1>2. ASSUME NEW b \in Calls, Pop(b), NEW d \in in_receipt_order_
      PROVE  cdr[c].arrival_time_ <= cdr[d].arrival_time_
  <2>1. b \in First(in_receipt_order_, ReceiptOrder) /\ EraseFromQueue(b)
    BY <1>2, RecordAssumption DEF Pop, PopFromQueue
  <2>2. b \in At("queued")
    BY <1>0, <2>1 DEF First
  <2>3. c = b
    BY <1>0, <2>1, <2>2, EraseFromQueueIsExact
  <2>4. c \in Calls /\ d \in Calls
    BY DEF FlowTypeOK
  <2>5. cdr[c].arrival_time_ \in Int /\ cdr[d].arrival_time_ \in Int
    BY <2>4 DEF FlowTypeOK, Records, NoTime
  <2>6. CASE d = c
    BY <2>5, <2>6
  <2>7. CASE d # c
    <3>1. ReceiptOrder[c] < ReceiptOrder[d] \/ ReceiptOrder[c] = ReceiptOrder[d]
      BY <2>1, <2>3, <2>7 DEF First
    <3> QED BY <2>4, <2>5, <3>1, OrderKeys
  <2> QED BY <2>6, <2>7
<1>3. ASSUME NEW b \in Calls, Push(b) \/ Refuse(b) \/ Answer(b) \/ Leave(b)
      PROVE  FALSE
  <2>1. CASE Push(b)
    BY <2>1 DEF Push, PushToQueue, InsertToQueue
  <2>2. CASE Refuse(b)
    <3>1. PICK result \in {"kAlreadyInQueue", "kOverload"} : PushToQueue(b, result)
      BY <2>2 DEF Refuse
    <3> QED BY <3>1 DEF PushToQueue, indexes
  <2>3. CASE Answer(b) \/ Leave(b)
    BY <2>3 DEF Answer, Leave, EraseFromProcessing, call_queue_vars, indexes
  <2> QED BY <1>3, <2>1, <2>2, <2>3
<1>4. ASSUME NEW b \in Calls, NEW op \in OperatorIds,
             Bypass(b, op) \/ StartPopped(b, op)
      PROVE  FALSE
  BY <1>4 DEF Bypass, StartPopped, InsertToProcessing, indexes
<1>5. ASSUME NEW b \in Calls, NEW phone \in Phones, Arrive(b, phone) PROVE FALSE
  BY <1>5 DEF Arrive, call_queue_vars
<1>6. CASE \/ InvalidBegin \/ PassTime \/ ChangeConfiguration
           \/ UNCHANGED flow_vars
  BY <1>6 DEF InvalidBegin, PassTime, ChangeConfiguration, flow_vars,
              call_queue_vars
<1> QED BY <1>1, <1>2, <1>3, <1>4, <1>5, <1>6 DEF FlowNext, Rest

\* However the capacity is lowered and raised, PushToQueue never takes the
\* queue beyond the capacity configured at that moment.
THEOREM GrowsWithinCapacityTheorem == FlowSpec => GrowsWithinCapacity
<1>1. FlowTypeOK /\ [FlowNext]_flow_vars =>
         [GetQueueSize' > GetQueueSize =>
             GetQueueSize' <= UpdateCapacity(GetCapacity)]_flow_vars
  BY StepGrowsWithinCapacity DEF GetQueueSize, GetCapacity
<1> QED BY <1>1, FlowTypeTheorem, PTL DEF FlowSpec, GrowsWithinCapacity

\* Calls leave the queue in the order of their arrival, or because their wait
\* is over, unless there were twins.
THEOREM LeavesInTurnTheorem == FlowSpec => LeavesInTurn
<1>1. FlowBase /\ (Twins \/ FlowInv) /\ [FlowNext]_flow_vars =>
         [\A c \in in_receipt_order_ \ in_receipt_order_' :
            \/ now >= cdr[c].timeout_point_
            \/ \A d \in in_receipt_order_ :
                  cdr[c].arrival_time_ <= cdr[d].arrival_time_
            \/ Twins]_flow_vars
  BY StepLeavesInTurn
<1> QED BY <1>1, FlowInvariant, PTL DEF FlowSpec, LeavesInTurn

-----------------------------------------------------------------------------
(* How long the queue may be.                                              *)

\* N is at least every capacity the file may hold and, if the key may be
\* missing, the default.
BoundsCapacities(N) ==
    /\ N \in Nat
    /\ Missing \in Capacities => DefaultCapacity <= N
    /\ \A v \in Capacities \ {Missing} : v <= N

LEMMA CapacityIsBounded ==
    ASSUME NEW N, BoundsCapacities(N), NEW old \in Nat,
           Missing \in Capacities => old <= N, config_json_ \in Configurations
    PROVE  UpdateCapacity(old) <= N
<1>1. config_json_["queue_capacity"] \in Capacities
  BY DEF Configurations
<1> QED BY <1>1 DEF BoundsCapacities, UpdateCapacity, GetProperty

\* PushToQueue alone writes capacity_, with what the file holds or the old one.
LEMMA CapacitySteps ==
    ASSUME FlowTypeOK, [FlowNext]_flow_vars
    PROVE  capacity_' \in {capacity_, UpdateCapacity(capacity_)}
<1>1. ASSUME NEW c \in Calls, Push(c) \/ Refuse(c)
      PROVE  capacity_' = UpdateCapacity(capacity_)
  BY <1>1 DEF Push, Refuse, PushToQueue
<1>2. ASSUME NEW c \in Calls, RejectTimeout(c) \/ Pop(c) \/ Answer(c) \/ Leave(c)
      PROVE  capacity_' = capacity_
  BY <1>2 DEF RejectTimeout, EraseTimeoutCallFromQueue, Pop, PopFromQueue, Answer,
              Leave, EraseFromProcessing, call_queue_vars
<1>3. ASSUME NEW c \in Calls, NEW op \in OperatorIds, Bypass(c, op) \/ StartPopped(c, op)
      PROVE  capacity_' = capacity_
  BY <1>3 DEF Bypass, StartPopped, InsertToProcessing
<1>4. ASSUME NEW c \in Calls, NEW phone \in Phones, Arrive(c, phone)
      PROVE  capacity_' = capacity_
  BY <1>4 DEF Arrive, call_queue_vars
<1>5. CASE InvalidBegin \/ PassTime \/ ChangeConfiguration \/ UNCHANGED flow_vars
  BY <1>5 DEF InvalidBegin, PassTime, ChangeConfiguration, flow_vars, call_queue_vars
<1> QED BY <1>1, <1>2, <1>3, <1>4, <1>5 DEF FlowNext, Rest

\* The queue is never longer than the largest capacity the file ever holds,
\* whatever is pushed and popped around its changes, twins or not; the
\* default counts only if the key may be missing.
THEOREM QueueIsBoundedTheorem ==
    ASSUME NEW N, BoundsCapacities(N)
    PROVE  FlowSpec => [](capacity_ <= N /\ GetQueueSize <= N)
<1> DEFINE Bounded == capacity_ <= N /\ GetQueueSize <= N
<1>0. N \in Nat
  BY DEF BoundsCapacities
<1>1. FlowInit => Bounded
  <2> SUFFICES ASSUME FlowInit PROVE Bounded
    OBVIOUS
  <2>1. capacity_ = UpdateCapacity(DefaultCapacity) /\ in_receipt_order_ = {}
        /\ config_json_ \in Configurations
    BY DEF FlowInit, CallQueueInit, ConfigInit
  <2>2. UpdateCapacity(DefaultCapacity) <= N
    BY <2>1, CapacityIsBounded, FlowAssumption DEF BoundsCapacities
  <2>3. Cardinality(in_receipt_order_) = 0
    BY <2>1, FS_EmptySet
  <2> QED BY <1>0, <2>1, <2>2, <2>3 DEF GetQueueSize
<1>2. FlowTypeOK /\ FlowTypeOK' /\ Bounded /\ [FlowNext]_flow_vars => Bounded'
  <2> SUFFICES ASSUME FlowTypeOK, FlowTypeOK', Bounded, [FlowNext]_flow_vars
               PROVE  Bounded'
    OBVIOUS
  <2>1. UpdateCapacity(capacity_) <= N /\ UpdateCapacity(capacity_) \in Nat
    BY CapacityIsBounded, CapacityType DEF FlowTypeOK
  <2>2. capacity_' <= N
    BY <2>1, CapacitySteps
  <2>3. /\ Cardinality(in_receipt_order_) \in Nat
        /\ Cardinality(in_receipt_order_') \in Nat
    <3>1. in_receipt_order_ \in SUBSET Calls /\ in_receipt_order_' \in SUBSET Calls
      BY DEF FlowTypeOK
    <3> QED BY <3>1, FlowAssumption, FS_Subset, FS_CardinalityType
  <2>4. CASE Cardinality(in_receipt_order_') > Cardinality(in_receipt_order_)
    <3>1. Cardinality(in_receipt_order_') <= UpdateCapacity(capacity_)
      BY <2>4, StepGrowsWithinCapacity
    <3> HIDE DEF Bounded
    <3>2. Cardinality(in_receipt_order_') <= N
      BY ONLY <1>0, <2>1, <2>3, <3>1
    <3> QED BY <2>2, <3>2 DEF Bounded, GetQueueSize
  <2>5. CASE ~(Cardinality(in_receipt_order_') > Cardinality(in_receipt_order_))
    <3>1. Cardinality(in_receipt_order_) <= N
      BY DEF GetQueueSize
    <3>2. Cardinality(in_receipt_order_') <= N
      BY ONLY <1>0, <2>3, <2>5, <3>1
    <3> QED BY <2>2, <3>2 DEF GetQueueSize
  <2> QED BY <2>4, <2>5
<1> QED BY <1>1, <1>2, FlowTypeTheorem, PTL DEF FlowSpec

-----------------------------------------------------------------------------
(* What the record of a call says at each stage.                           *)

RecordFits(stage, r) ==
    /\ stage # "unborn" => WasArrived(r)
    /\ stage \in {"unborn", "arrived", "queued", "popped", "inService"} => ~WasFinished(r)
    /\ stage \in {"unborn", "arrived", "queued", "popped"} => r.operator_id_ = NoOperator
    /\ stage = "inService" => r.operator_id_ # NoOperator
    /\ stage \in {"answered", "gone"} =>
          WasFinished(r) /\ (WasServiced(r) <=> r.operator_id_ # NoOperator)

\* A call has an operator from StartService on and a status from
\* CompleteService on, and the status is kOk for those that had an operator.
RecordsFit == \A c \in Calls : RecordFits(flow[c], cdr[c])

LEMMA RecordsFitMove ==
    ASSUME FlowTypeOK, RecordsFit, NEW c \in Calls, NEW s, NEW r,
           flow' = [flow EXCEPT ![c] = s], cdr' = [cdr EXCEPT ![c] = r], RecordFits(s, r)
    PROVE  RecordsFit'
<1>1. \A d \in Calls : /\ flow'[d] = IF d = c THEN s ELSE flow[d]
                       /\ cdr'[d] = IF d = c THEN r ELSE cdr[d]
  BY DEF FlowTypeOK
<1>2. \A d \in Calls : RecordFits(flow'[d], cdr'[d])
  BY <1>1 DEF RecordsFit
<1> QED BY <1>2 DEF RecordsFit

LEMMA ServiceFits ==
    ASSUME NEW r \in Records
    PROVE  /\ \A op \in OperatorIds, s \in {"arrived", "popped"} :
                 RecordFits(s, r) => RecordFits("inService", StartService(r, op))
           /\ \A st \in CallStatus \ {"kOk"}, s \in {"arrived", "queued"} :
                 RecordFits(s, r) => RecordFits("gone", CompleteService(r, st))
           /\ RecordFits("inService", r) => RecordFits("answered", CompleteService(r, "kOk"))
           /\ RecordFits("arrived", r) => RecordFits("queued", r)
           /\ RecordFits("queued", r) => RecordFits("popped", r)
           /\ RecordFits("answered", r) => RecordFits("gone", r)
<1> USE DEF RecordFits, WasArrived, WasFinished, WasServiced, Records, CallStatus, NoStatus
<1>1. ASSUME NEW op \in OperatorIds, NEW s \in {"arrived", "popped"}, RecordFits(s, r)
      PROVE  RecordFits("inService", StartService(r, op))
  BY <1>1, ServerAssumption DEF StartService
<1>2. ASSUME NEW st \in CallStatus \ {"kOk"}, NEW s \in {"arrived", "queued"}, RecordFits(s, r)
      PROVE  RecordFits("gone", CompleteService(r, st))
  BY <1>2 DEF CompleteService
<1>3. RecordFits("inService", r) => RecordFits("answered", CompleteService(r, "kOk"))
  BY DEF CompleteService
<1>4. /\ RecordFits("arrived", r) => RecordFits("queued", r)
      /\ RecordFits("queued", r) => RecordFits("popped", r)
      /\ RecordFits("answered", r) => RecordFits("gone", r)
  OBVIOUS
<1> QED BY <1>1, <1>2, <1>3, <1>4

\* Every step keeps the records in accord with the stages until there are
\* twins: only a call that waits is rejected for its timeout.
LEMMA RecordsFitStep ==
    ASSUME FlowInv, ~Twins, RecordsFit, [FlowNext]_flow_vars
    PROVE  RecordsFit'
<1>0. FlowTypeOK /\ cdr \in [Calls -> Records] /\ flow \in [Calls -> Stages]
      /\ IndexesAgree
  BY DEF FlowInv, FlowTypeOK
<1>a. \A c \in Calls : cdr[c] \in Records /\ RecordFits(flow[c], cdr[c])
  BY <1>0 DEF RecordsFit
<1>b. ASSUME NEW c \in Calls PROVE cdr = [cdr EXCEPT ![c] = cdr[c]]
  BY <1>0
<1>1. ASSUME NEW c \in Calls, NEW phone \in Phones, Arrive(c, phone) PROVE RecordsFit'
  <2> DEFINE r == SetArrivalTime(NewRecord(phone))
  <2>1. now \in Nat
    BY <1>0, RecordAssumption DEF FlowTypeOK
  <2>2. r.arrival_time_ = now /\ r.status_ = NoStatus /\ r.operator_id_ = NoOperator
    BY DEF SetArrivalTime, NewRecord
  <2>3. RecordFits("arrived", r)
    BY <2>1, <2>2 DEF RecordFits, WasArrived, WasFinished, NoTime
  <2> HIDE DEF r
  <2>4. flow' = [flow EXCEPT ![c] = "arrived"] /\ cdr' = [cdr EXCEPT ![c] = r]
    BY <1>1 DEF Arrive, r
  <2> QED BY <1>0, <2>3, <2>4, RecordsFitMove
<1>2. ASSUME NEW c \in Calls, Push(c) PROVE RecordsFit'
  <2>1. /\ flow[c] = "arrived" /\ flow' = [flow EXCEPT ![c] = "queued"]
        /\ cdr' = [cdr EXCEPT ![c] = cdr[c]]
    BY <1>2, <1>b DEF Push
  <2>2. RecordFits("queued", cdr[c])
    BY <1>a, <2>1, ServiceFits
  <2> QED BY <1>0, <2>1, <2>2, RecordsFitMove
<1>3. ASSUME NEW c \in Calls, Refuse(c) PROVE RecordsFit'
  <2>1. PICK st \in CallStatus \ {"kOk"} :
           /\ flow[c] = "arrived" /\ flow' = [flow EXCEPT ![c] = "gone"]
           /\ cdr' = [cdr EXCEPT ![c] = CompleteService(cdr[c], st)]
    BY <1>3 DEF Refuse, Complete, CallStatus
  <2>2. RecordFits("gone", CompleteService(cdr[c], st))
    BY <1>a, <2>1, ServiceFits
  <2> QED BY <1>0, <2>1, <2>2, RecordsFitMove
<1>4. ASSUME NEW c \in Calls, RejectTimeout(c) PROVE RecordsFit'
  <2>1. c # NoCall
    BY RecordAssumption
  <2>2. GetMinTimeoutCallInQueue(c)
    BY <1>4, <2>1 DEF RejectTimeout, EraseTimeoutCallFromQueue
  <2>3. flow[c] = "queued"
    BY <1>0, <2>1, <2>2 DEF GetMinTimeoutCallInQueue, First, IndexesAgree, At
  <2>4. /\ flow' = [flow EXCEPT ![c] = "gone"]
        /\ cdr' = [cdr EXCEPT ![c] = CompleteService(cdr[c], "kTimeout")]
    BY <1>4, <2>3 DEF RejectTimeout, Complete
  <2>5. RecordFits("gone", CompleteService(cdr[c], "kTimeout"))
    BY <1>a, <2>3, ServiceFits DEF CallStatus
  <2> QED BY <1>0, <2>4, <2>5, RecordsFitMove
<1>5. ASSUME NEW c \in Calls, Pop(c) PROVE RecordsFit'
  <2>1. flow[c] = "queued"
    BY <1>0, <1>5, RecordAssumption DEF Pop, PopFromQueue, First, IndexesAgree, At
  <2>2. /\ flow' = [flow EXCEPT ![c] = "popped"] /\ cdr' = [cdr EXCEPT ![c] = cdr[c]]
    BY <1>5, <1>b DEF Pop
  <2>3. RecordFits("popped", cdr[c])
    BY <1>a, <2>1, ServiceFits
  <2> QED BY <1>0, <2>2, <2>3, RecordsFitMove
<1>6. ASSUME NEW c \in Calls, Answer(c) PROVE RecordsFit'
  <2>1. /\ flow[c] = "inService" /\ flow' = [flow EXCEPT ![c] = "answered"]
        /\ cdr' = [cdr EXCEPT ![c] = CompleteService(cdr[c], "kOk")]
    BY <1>6 DEF Answer, Complete
  <2>2. RecordFits("answered", CompleteService(cdr[c], "kOk"))
    BY <1>a, <2>1, ServiceFits
  <2> QED BY <1>0, <2>1, <2>2, RecordsFitMove
<1>7. ASSUME NEW c \in Calls, Leave(c) PROVE RecordsFit'
  <2>1. /\ flow[c] = "answered" /\ flow' = [flow EXCEPT ![c] = "gone"]
        /\ cdr' = [cdr EXCEPT ![c] = cdr[c]]
    BY <1>7, <1>b DEF Leave
  <2>2. RecordFits("gone", cdr[c])
    BY <1>a, <2>1, ServiceFits
  <2> QED BY <1>0, <2>1, <2>2, RecordsFitMove
<1>8. ASSUME NEW c \in Calls, NEW op \in OperatorIds, Bypass(c, op) \/ StartPopped(c, op)
      PROVE  RecordsFit'
  <2>1. /\ flow[c] \in {"arrived", "popped"} /\ flow' = [flow EXCEPT ![c] = "inService"]
        /\ cdr' = [cdr EXCEPT ![c] = StartService(cdr[c], op)]
    BY <1>8 DEF Bypass, StartPopped, Start
  <2>2. RecordFits("inService", StartService(cdr[c], op))
    BY <1>a, <2>1, ServiceFits
  <2> QED BY <1>0, <2>1, <2>2, RecordsFitMove
<1>9. CASE InvalidBegin \/ PassTime \/ ChangeConfiguration \/ UNCHANGED flow_vars
  BY <1>9 DEF InvalidBegin, PassTime, ChangeConfiguration, flow_vars, RecordsFit
<1> QED BY <1>1, <1>2, <1>3, <1>4, <1>5, <1>6, <1>7, <1>8, <1>9 DEF FlowNext, Rest

\* A call has an operator exactly while and after it is in service, and is
\* finished exactly when it is answered or rejected, unless there were twins.
THEOREM RecordsTheorem == FlowSpec => [](Twins \/ RecordsFit)
<1>1. FlowInit => RecordsFit
  BY DEF FlowInit, RecordsInit, RecordsFit, RecordFits, Unborn, WasArrived, WasFinished, NoTime
<1>2. FlowBase /\ (Twins \/ FlowInv) /\ (Twins \/ RecordsFit) /\ [FlowNext]_flow_vars =>
         Twins' \/ RecordsFit'
  BY FlowNextBase, RecordsFitStep
<1> QED BY <1>1, <1>2, FlowInvariant, PTL DEF FlowSpec

\* A record is not touched any more once its call is finished, whoever comes
\* late: what the caller was answered is what the journal will say.
RecordsAreFinal ==
    [][\A c \in Calls : WasFinished(cdr[c]) => cdr'[c] = cdr[c] \/ Twins]_flow_vars

LEMMA StepKeepsFinished ==
    ASSUME FlowBase, FlowInv, ~Twins, [FlowNext]_flow_vars,
           NEW d \in Calls, WasFinished(cdr[d])
    PROVE  cdr'[d] = cdr[d]
<1>0. cdr \in [Calls -> Records] /\ IndexesAgree
  BY DEF FlowInv, FlowTypeOK
<1>1. flow[d] \notin {"unborn", "arrived", "queued", "popped", "inService"}
  <2>1. flow[d] # "unborn"
    BY DEF FlowBase, UnbornAreOutside, At, Unborn, WasFinished
  <2> QED BY <2>1 DEF FlowInv, ActiveCallsInSystem, At, InSystem
<1>2. ASSUME NEW c \in Calls, NEW r, cdr' = [cdr EXCEPT ![c] = r],
             flow[c] \in {"unborn", "arrived", "queued", "popped", "inService"}
      PROVE  cdr'[d] = cdr[d]
  BY <1>0, <1>1, <1>2
<1>3. ASSUME NEW c \in Calls, NEW phone \in Phones, Arrive(c, phone) PROVE cdr'[d] = cdr[d]
  BY <1>2, <1>3 DEF Arrive
<1>4. ASSUME NEW c \in Calls, Refuse(c) \/ Answer(c) PROVE cdr'[d] = cdr[d]
  BY <1>2, <1>4 DEF Refuse, Answer, Complete
<1>5. ASSUME NEW c \in Calls, RejectTimeout(c) PROVE cdr'[d] = cdr[d]
  <2>1. flow[c] = "queued"
    BY <1>0, <1>5, RecordAssumption
       DEF RejectTimeout, EraseTimeoutCallFromQueue, GetMinTimeoutCallInQueue, First,
           IndexesAgree, At
  <2> QED BY <1>2, <1>5, <2>1 DEF RejectTimeout, Complete
<1>6. ASSUME NEW c \in Calls, NEW op \in OperatorIds, Bypass(c, op) \/ StartPopped(c, op)
      PROVE  cdr'[d] = cdr[d]
  BY <1>2, <1>6 DEF Bypass, StartPopped, Start
<1>7. ASSUME NEW c \in Calls, Push(c) \/ Pop(c) \/ Leave(c) PROVE cdr'[d] = cdr[d]
  BY <1>7 DEF Push, Pop, Leave
<1>8. CASE InvalidBegin \/ PassTime \/ ChangeConfiguration \/ UNCHANGED flow_vars
  BY <1>8 DEF InvalidBegin, PassTime, ChangeConfiguration, flow_vars
<1> QED BY <1>3, <1>4, <1>5, <1>6, <1>7, <1>8 DEF FlowNext, Rest

\* No late step gives a finished call another status or operator, unless there
\* were twins.
THEOREM RecordsAreFinalTheorem == FlowSpec => RecordsAreFinal
<1>1. FlowBase /\ (Twins \/ FlowInv) /\ [FlowNext]_flow_vars =>
         [\A c \in Calls : WasFinished(cdr[c]) => cdr'[c] = cdr[c] \/ Twins]_flow_vars
  BY StepKeepsFinished
<1> QED BY <1>1, FlowInvariant, PTL DEF FlowSpec, RecordsAreFinal

-----------------------------------------------------------------------------
(* Without changes of "call_max_wait" there are no twins.                  *)

WaitsFollowArrivals ==
    \A c \in Calls : WasArrived(cdr[c]) =>
        \E wait \in MaxWaits : cdr[c].timeout_point_ = cdr[c].arrival_time_ + wait

\* Only PushCall sets the times of a record.
LEMMA OnlyArriveSetsTimes ==
    ASSUME FlowTypeOK, [FlowNext]_flow_vars
    PROVE  \/ \E c \in Calls, phone \in Phones : Arrive(c, phone)
           \/ \E c \in Calls : KeysStay(c)
           \/ UNCHANGED cdr
<1>1. ASSUME NEW c \in Calls, Refuse(c) \/ RejectTimeout(c) \/ Answer(c) PROVE KeysStay(c)
  <2>1. PICK st \in CallStatus : cdr' = [cdr EXCEPT ![c] = CompleteService(@, st)]
    BY <1>1 DEF Refuse, RejectTimeout, Answer, Complete, CallStatus
  <2> QED BY <2>1, ServiceKeepsKeys
<1>2. ASSUME NEW c \in Calls, NEW op \in OperatorIds, Bypass(c, op) \/ StartPopped(c, op)
      PROVE  KeysStay(c)
  <2>1. cdr' = [cdr EXCEPT ![c] = StartService(@, op)]
    BY <1>2 DEF Bypass, StartPopped, Start
  <2> QED BY <2>1, ServiceKeepsKeys
<1> QED BY <1>1, <1>2 DEF FlowNext, Push, Pop, Leave, InvalidBegin, PassTime,
                          ChangeConfiguration, Rest, flow_vars

LEMMA WaitsStep ==
    ASSUME FlowTypeOK, WaitsFollowArrivals, [FlowNext]_flow_vars
    PROVE  WaitsFollowArrivals'
<1>1. ASSUME NEW c \in Calls, NEW phone \in Phones, Arrive(c, phone)
      PROVE  WaitsFollowArrivals'
  <2> DEFINE r == SetArrivalTime(NewRecord(phone))
  <2>1. /\ r.arrival_time_ = now /\ r.timeout_point_ = now + config_json_.call_max_wait
        /\ config_json_.call_max_wait \in MaxWaits
    BY DEF SetArrivalTime, NewRecord, ReadMaxWait, FlowTypeOK, Configurations
  <2> HIDE DEF r
  <2>2. cdr'[c] = r /\ \A d \in Calls \ {c} : cdr'[d] = cdr[d]
    BY <1>1 DEF Arrive, FlowTypeOK, r
  <2> QED BY <2>1, <2>2 DEF WaitsFollowArrivals, WasArrived
<1>2. ASSUME NEW c \in Calls, KeysStay(c) PROVE WaitsFollowArrivals'
  BY <1>2 DEF KeysStay, WaitsFollowArrivals, WasArrived
<1>3. CASE UNCHANGED cdr
  BY <1>3 DEF WaitsFollowArrivals, WasArrived
<1> QED BY <1>1, <1>2, <1>3, OnlyArriveSetsTimes

LEMMA WaitsAlways == FlowSpec => []WaitsFollowArrivals
<1>1. FlowInit => WaitsFollowArrivals
  BY DEF FlowInit, RecordsInit, WaitsFollowArrivals, WasArrived, Unborn
<1>2. FlowTypeOK /\ WaitsFollowArrivals /\ [FlowNext]_flow_vars => WaitsFollowArrivals'
  BY WaitsStep
<1> QED BY <1>1, <1>2, FlowTypeTheorem, PTL DEF FlowSpec

\* As long as the file never changes "call_max_wait", what is said above
\* "unless there were twins" holds without exception.
THEOREM NoTwinsTheorem ==
    ASSUME \A v, w \in MaxWaits : v = w
    PROVE  FlowSpec => []~Twins
<1>1. FlowTypeOK /\ WaitsFollowArrivals => ~Twins
  <2> SUFFICES ASSUME FlowTypeOK, WaitsFollowArrivals, Twins PROVE FALSE
    OBVIOUS
  <2>1. PICK c \in Calls, d \in Calls :
           /\ WasArrived(cdr[c]) /\ WasArrived(cdr[d])
           /\ cdr[c].timeout_point_ = cdr[d].timeout_point_
           /\ cdr[c].arrival_time_ # cdr[d].arrival_time_
    BY DEF Twins
  <2>2. PICK w \in MaxWaits : /\ cdr[c].timeout_point_ = cdr[c].arrival_time_ + w
                              /\ cdr[d].timeout_point_ = cdr[d].arrival_time_ + w
    BY <2>1 DEF WaitsFollowArrivals
  <2>3. w \in Int /\ cdr[c].arrival_time_ \in Int /\ cdr[d].arrival_time_ \in Int
    BY <2>2, ConfigurationAssumption DEF FlowTypeOK, Records, NoTime
  <2>4. cdr[c].arrival_time_ + w = cdr[d].arrival_time_ + w
    BY <2>1, <2>2
  <2>5. \A a, b, n \in Int : a + n = b + n => a = b
    OBVIOUS
  <2> QED BY ONLY <2>1, <2>3, <2>4, <2>5
<1> QED BY <1>1, WaitsAlways, FlowTypeTheorem, PTL
=============================================================================
