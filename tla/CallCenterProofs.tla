--------------------------- MODULE CallCenterProofs ---------------------------
(***************************************************************************)
(* Proofs about CallCenter, for any number of calls, operators and threads *)
(* and any changes of the configuration: it implements CallFlow and        *)
(* OperatorPool, and so has the properties that are proved of these.       *)
(***************************************************************************)
EXTENDS CallCenter, SumTheorems, FiniteSetTheorems, TLAPS

FlowProofs == INSTANCE CallFlowProofs WITH flow <- [c \in Calls |-> FlowOf(c)]

PoolProofs == INSTANCE OperatorPoolProofs
                  WITH phase <- [op \in OperatorIds |-> PhaseOf(op)],
                       MaxServiced <- Cardinality(Calls)

-----------------------------------------------------------------------------
(* What a thread carries.                                                  *)

ArrivedLabels == {"QueueIsEmptyForCall", "EraseFreeForCall", "InsertForCall",
                  "InsertFreeForCall", "PushToQueue"}
FinishedLabels == {"EraseFromProcessing", "InsertFreeFinished", "AddRecord"}
CallLabels == ArrivedLabels \cup {"InsertPopped"} \cup FinishedLabels

TakenLabels == {"InsertForCall", "InsertFreeForCall", "PopFromQueue",
                "InsertFree", "InsertPopped"}
ServedLabels == {"EraseFromProcessing", "InsertFreeFinished"}
OperatorLabels == TakenLabels \cup ServedLabels

\* A thread has a call, and an operator, exactly between the operations that
\* take one and those that give it away.
ThreadStates ==
    {x \in [at : Labels, call : Calls \cup {NoCall}, op : OperatorIds \cup {NoOperator}] :
        /\ x.call \in Calls <=> x.at \in CallLabels
        /\ x.op \in OperatorIds <=> x.at \in OperatorLabels}

Tasks == [call : Calls, op : OperatorIds, due : 0 .. MaxTime]

ThreadMaps == [Threads -> ThreadStates]
TaskSets == SUBSET Tasks

ThreadsFit == thread \in ThreadMaps /\ finish_tasks \in TaskSets

\* FlowOf and PhaseOf as functions of what they depend on.
StageIn(th, tasks, r, c) ==
    IF ~WasArrived(r) THEN "unborn"
    ELSE IF \E t \in Threads : th[t].call = c /\ th[t].at \in ArrivedLabels THEN "arrived"
    ELSE IF \E t \in Threads : th[t].call = c /\ th[t].at \in {"InsertPopped"} THEN "popped"
    ELSE IF \E task \in tasks : task.call = c THEN "inService"
    ELSE IF \E t \in Threads : th[t].call = c /\ th[t].at \in {"EraseFromProcessing"}
         THEN "answered"
    ELSE IF WasFinished(r) THEN "gone"
    ELSE "queued"

PhaseIn(th, tasks, op) ==
    IF \E task \in tasks : task.op = op THEN "handling"
    ELSE IF \E t \in Threads : th[t].op = op /\ th[t].at \in TakenLabels THEN "taken"
    ELSE IF \E t \in Threads : th[t].op = op /\ th[t].at \in ServedLabels THEN "finished"
    ELSE "unowned"

LEMMA FlowIsStage ==
    ASSUME NEW c \in Calls
    PROVE  /\ FlowOf(c) = StageIn(thread, finish_tasks, cdr[c], c)
           /\ FlowOf(c)' = StageIn(thread', finish_tasks', cdr'[c], c)
BY DEF FlowOf, StageIn, Carries, ArrivedLabels, WasArrived, WasFinished

LEMMA PhaseIsPhase ==
    ASSUME NEW op \in OperatorIds
    PROVE  /\ PhaseOf(op) = PhaseIn(thread, finish_tasks, op)
           /\ PhaseOf(op)' = PhaseIn(thread', finish_tasks', op)
BY DEF PhaseOf, PhaseIn, HoldsOperator, TakenLabels, ServedLabels

\* What the stage of call d depends on besides the threads is the same.
Alike(d, T, T2, r, r2) ==
    /\ (\E k \in T : k.call = d) <=> (\E k \in T2 : k.call = d)
    /\ WasArrived(r) <=> WasArrived(r2)
    /\ WasFinished(r) <=> WasFinished(r2)

\* Thread t goes on to state x.
GoesTo(th, th2, t, x) == th2 = [th EXCEPT ![t] = x]

\* A step of thread t with other calls leaves the stage of call d alone.
LEMMA StageStays ==
    ASSUME NEW th \in ThreadMaps, NEW th2, NEW t \in Threads,
           NEW x \in ThreadStates, GoesTo(th, th2, t, x),
           NEW T, NEW T2, NEW r, NEW r2, NEW d \in Calls,
           th[t].call # d, x.call # d, Alike(d, T, T2, r, r2)
    PROVE  StageIn(th2, T2, r2, d) = StageIn(th, T, r, d)
<1>1. \A u \in Threads : th2[u] = IF u = t THEN x ELSE th[u]
  BY DEF GoesTo, ThreadMaps
<1>2. ASSUME NEW L
      PROVE  (\E u \in Threads : th2[u].call = d /\ th2[u].at \in L)
                <=> (\E u \in Threads : th[u].call = d /\ th[u].at \in L)
  BY <1>1
<1> QED BY <1>2 DEF StageIn, Alike

\* The stage of a call that thread t alone has ...
WithThread(t, th, T, c) ==
    /\ th[t].call = c
    /\ \A u \in Threads \ {t} : th[u].call # c
    /\ \A k \in T : k.call # c

LEMMA StageOfCarried ==
    ASSUME NEW t \in Threads, NEW th, NEW T, NEW r, NEW c,
           WithThread(t, th, T, c), WasArrived(r)
    PROVE  /\ th[t].at \in ArrivedLabels => StageIn(th, T, r, c) = "arrived"
           /\ th[t].at = "InsertPopped" => StageIn(th, T, r, c) = "popped"
           /\ th[t].at = "EraseFromProcessing" => StageIn(th, T, r, c) = "answered"
           /\ th[t].at \in {"InsertFreeFinished", "AddRecord"} /\ WasFinished(r) =>
                 StageIn(th, T, r, c) = "gone"
<1> USE DEF WithThread
<1>1. ASSUME NEW L
      PROVE  (\E u \in Threads : th[u].call = c /\ th[u].at \in L) <=> th[t].at \in L
  OBVIOUS
<1>2. ~ \E k \in T : k.call = c
  OBVIOUS
<1>3. th[t].at \in ArrivedLabels => StageIn(th, T, r, c) = "arrived"
  BY <1>1 DEF StageIn
<1>4. th[t].at = "InsertPopped" => StageIn(th, T, r, c) = "popped"
  BY <1>1 DEF StageIn, ArrivedLabels
<1>5. th[t].at = "EraseFromProcessing" => StageIn(th, T, r, c) = "answered"
  BY <1>1, <1>2 DEF StageIn, ArrivedLabels
<1>6. th[t].at \in {"InsertFreeFinished", "AddRecord"} /\ WasFinished(r) =>
         StageIn(th, T, r, c) = "gone"
  BY <1>1, <1>2 DEF StageIn, ArrivedLabels
<1> QED BY <1>3, <1>4, <1>5, <1>6

\* ... and of one that no thread has.
WithNoThread(th, c) == \A u \in Threads : th[u].call # c

LEMMA StageOfOthers ==
    ASSUME NEW th, NEW T, NEW r, NEW c, WithNoThread(th, c), WasArrived(r)
    PROVE  /\ (\E k \in T : k.call = c) => StageIn(th, T, r, c) = "inService"
           /\ (\A k \in T : k.call # c) =>
                 StageIn(th, T, r, c) = IF WasFinished(r) THEN "gone" ELSE "queued"
BY DEF StageIn, WithNoThread

-----------------------------------------------------------------------------
(* One holder for every call.                                              *)

\* The call is with a thread or with a finish task.
Held(th, tasks, c) ==
    (\E t \in Threads : th[t].call = c) \/ (\E k \in tasks : k.call = c)

OneHolder(th, tasks) ==
    /\ \A t, u \in Threads : th[t].call \in Calls /\ th[t].call = th[u].call => t = u
    /\ \A t \in Threads, k \in tasks : th[t].call # k.call
    /\ \A k, l \in tasks : k.call = l.call => k = l

\* A call that is with a thread or a task has arrived and is not in the
\* queue; it is finished only from FinishCallProcessing on.
HeldAreOutside(th, tasks, recs, receipt) ==
    \A c \in Calls : Held(th, tasks, c) => WasArrived(recs[c]) /\ c \notin receipt

NewAreInSystem(th, recs, timeouts) ==
    \A t \in Threads : th[t].at \in ArrivedLabels =>
        ~WasFinished(recs[th[t].call]) /\ th[t].call \notin timeouts

FinishedAreFinished(th, recs) ==
    \A t \in Threads : th[t].at \in FinishedLabels => WasFinished(recs[th[t].call])

Placed(th, tasks, recs, receipt, timeouts) ==
    /\ OneHolder(th, tasks)
    /\ HeldAreOutside(th, tasks, recs, receipt)
    /\ NewAreInSystem(th, recs, timeouts)
    /\ FinishedAreFinished(th, recs)

\* What a step of thread t does that concerns call c alone, or no call at all
\* (c = NoCall): c is nowhere but with t or a task of its own, and is
\* afterwards with t, with a task or in the queue.
StepOf(t, x, c, th, T, T2, recs, recs2, receipt, receipt2, timeouts, timeouts2) ==
    /\ th[t].call \in {c, NoCall} /\ x.call \in {c, NoCall}
    /\ c \in Calls => \A u \in Threads \ {t} : th[u].call # c
    /\ \A k \in Tasks : k.call # c => (k \in T <=> k \in T2)
    /\ \A k, l \in T2 : k.call = c /\ l.call = c => k = l
    /\ x.call = c => \A k \in T2 : k.call # c
    /\ \A d \in Calls : d # c =>
          /\ WasArrived(recs2[d]) <=> WasArrived(recs[d])
          /\ WasFinished(recs2[d]) <=> WasFinished(recs[d])
          /\ d \in receipt2 => d \in receipt
          /\ d \in timeouts2 => d \in timeouts
    /\ c \in Calls =>
          /\ x.call = c \/ (\E k \in T2 : k.call = c) =>
                WasArrived(recs2[c]) /\ c \notin receipt2
          /\ x.call = c /\ x.at \in ArrivedLabels =>
                ~WasFinished(recs2[c]) /\ c \notin timeouts2
          /\ x.call = c /\ x.at \in FinishedLabels => WasFinished(recs2[c])

\* Such a step keeps every call with one holder and moves no other call on.
LEMMA StepKeepsPlaces ==
    ASSUME NEW th \in ThreadMaps, NEW th2, NEW t \in Threads,
           NEW x \in ThreadStates, GoesTo(th, th2, t, x),
           NEW c \in Calls \cup {NoCall}, NEW T \in TaskSets, NEW T2 \in TaskSets,
           NEW recs, NEW recs2, NEW receipt, NEW receipt2, NEW timeouts, NEW timeouts2,
           Placed(th, T, recs, receipt, timeouts),
           StepOf(t, x, c, th, T, T2, recs, recs2, receipt, receipt2, timeouts, timeouts2)
    PROVE  /\ Placed(th2, T2, recs2, receipt2, timeouts2)
           /\ \A d \in Calls : d # c =>
                 StageIn(th2, T2, recs2[d], d) = StageIn(th, T, recs[d], d)
<1>1. \A u \in Threads : th2[u] = IF u = t THEN x ELSE th[u]
  BY DEF GoesTo, ThreadMaps
<1>2. /\ \A u \in Threads : /\ th[u].call \in Calls \cup {NoCall}
                            /\ th[u].call \in Calls <=> th[u].at \in CallLabels
      /\ x.call \in Calls \cup {NoCall}
      /\ x.call \in Calls <=> x.at \in CallLabels
  BY DEF ThreadStates, ThreadMaps
<1>3. \A k \in T \cup T2 : k \in Tasks /\ k.call \in Calls
  BY DEF Tasks, TaskSets
<1>4. NoCall \notin Calls
  BY RecordAssumption
<1>5. OneHolder(th2, T2)
  <2>1. ASSUME NEW u \in Threads, NEW v \in Threads, th2[u].call \in Calls,
               th2[u].call = th2[v].call
        PROVE  u = v
    BY <2>1, <1>1, <1>2, <1>4 DEF Placed, OneHolder, StepOf
  <2>2. ASSUME NEW u \in Threads, NEW k \in T2 PROVE th2[u].call # k.call
    <3>1. CASE k.call = c
      BY <3>1, <1>1, <1>2, <1>3, <1>4 DEF StepOf
    <3>2. CASE k.call # c
      <4>1. k \in T
        BY <3>2, <1>3 DEF StepOf
      <4>2. th[u].call # k.call
        BY <4>1 DEF Placed, OneHolder
      <4> QED BY <3>2, <4>2, <1>1, <1>2, <1>3, <1>4 DEF StepOf
    <3> QED BY <3>1, <3>2
  <2>3. ASSUME NEW k \in T2, NEW l \in T2, k.call = l.call PROVE k = l
    BY <2>3, <1>3 DEF Placed, OneHolder, StepOf
  <2> QED BY <2>1, <2>2, <2>3 DEF OneHolder
<1>6. ASSUME NEW d \in Calls, d # c
      PROVE  /\ (\E u \in Threads : th2[u].call = d) <=> (\E u \in Threads : th[u].call = d)
             /\ (\E k \in T2 : k.call = d) <=> (\E k \in T : k.call = d)
             /\ th[t].call # d /\ x.call # d
  <2>1. th[t].call # d /\ x.call # d
    BY <1>6, <1>4 DEF StepOf
  <2>2. (\E k \in T2 : k.call = d) <=> (\E k \in T : k.call = d)
    BY <1>6, <1>3 DEF StepOf
  <2> QED BY <1>1, <2>1, <2>2
<1>7. HeldAreOutside(th2, T2, recs2, receipt2)
  <2>1. ASSUME NEW d \in Calls, Held(th2, T2, d), d # c
        PROVE  WasArrived(recs2[d]) /\ d \notin receipt2
    <3>1. Held(th, T, d)
      BY <2>1, <1>6 DEF Held
    <3> QED BY <2>1, <3>1 DEF Placed, HeldAreOutside, StepOf
  <2>2. ASSUME c \in Calls, Held(th2, T2, c)
        PROVE  WasArrived(recs2[c]) /\ c \notin receipt2
    <3>1. x.call = c \/ \E k \in T2 : k.call = c
      BY <2>2, <1>1 DEF Held, StepOf
    <3> QED BY <2>2, <3>1 DEF StepOf
  <2> QED BY <2>1, <2>2 DEF HeldAreOutside
<1>8. ASSUME NEW u \in Threads, th2[u].at \in CallLabels
      PROVE  /\ th2[u].at \in ArrivedLabels =>
                   ~WasFinished(recs2[th2[u].call]) /\ th2[u].call \notin timeouts2
             /\ th2[u].at \in FinishedLabels => WasFinished(recs2[th2[u].call])
  <2>1. th2[u].call \in Calls
    BY <1>1, <1>2, <1>8
  <2>2. CASE u = t
    <3>1. th2[u] = x /\ x.call = c
      BY <1>1, <2>1, <2>2, <1>4 DEF StepOf
    <3> QED BY <2>1, <3>1 DEF StepOf
  <2>3. CASE u # t
    <3>1. th2[u] = th[u] /\ th[u].call # c
      BY <1>1, <2>1, <2>3 DEF StepOf
    <3> QED BY <2>1, <3>1 DEF Placed, NewAreInSystem, FinishedAreFinished, StepOf
  <2> QED BY <2>2, <2>3
<1>9. NewAreInSystem(th2, recs2, timeouts2) /\ FinishedAreFinished(th2, recs2)
  BY <1>8 DEF NewAreInSystem, FinishedAreFinished, CallLabels
<1>10. ASSUME NEW d \in Calls, d # c
       PROVE  StageIn(th2, T2, recs2[d], d) = StageIn(th, T, recs[d], d)
  <2>1. Alike(d, T, T2, recs[d], recs2[d])
    BY <1>6, <1>10 DEF StepOf, Alike
  <2>2. th[t].call # d /\ x.call # d
    BY <1>6, <1>10
  <2> QED BY <2>1, <2>2, StageStays
<1> QED BY <1>5, <1>7, <1>9, <1>10 DEF Placed

-----------------------------------------------------------------------------
(* Steps of CallCenter that CallFlow does not see.                         *)

Places == Placed(thread, finish_tasks, cdr, in_receipt_order_, in_timout_point_order_)

\* What is inductive together: the types of CallFlow, with nothing known of a
\* call before it arrives, and where the calls are.
FlowPart == FlowProofs!FlowBase /\ ThreadsFit /\ Places

StageStaysFor(d) ==
    StageIn(thread', finish_tasks', cdr'[d], d) = StageIn(thread, finish_tasks, cdr[d], d)

LEMMA BaseFacts ==
    ASSUME FlowProofs!FlowBase
    PROVE  /\ config_json_ \in Configurations
           /\ now \in 0 .. MaxTime
           /\ cdr \in [Calls -> Records]
           /\ in_receipt_order_ \in SUBSET Calls
           /\ in_timout_point_order_ \in SUBSET Calls
           /\ \A c \in Calls : ~WasArrived(cdr[c]) =>
                 /\ cdr[c] = Unborn
                 /\ c \notin in_receipt_order_ \cup in_timout_point_order_
<1>1. FlowProofs!Records = Records
  BY DEF FlowProofs!Records, Records, FlowProofs!NoTime, NoTime, FlowProofs!NoPhone,
         NoPhone, FlowProofs!NoStatus, NoStatus, FlowProofs!CallStatus, CallStatus
<1>2. FlowProofs!Configurations = Configurations
  BY DEF FlowProofs!Configurations, Configurations
<1>3. ASSUME NEW c \in Calls, ~WasArrived(cdr[c])
      PROVE  /\ cdr[c] = Unborn
             /\ c \notin in_receipt_order_ \cup in_timout_point_order_
  <2>1. c \in FlowProofs!At("unborn")
    BY <1>3 DEF FlowProofs!At, FlowOf
  <2>2. FlowProofs!Unborn = Unborn
    BY DEF FlowProofs!Unborn, Unborn, FlowProofs!NoTime, NoTime, FlowProofs!NoPhone,
           NoPhone, FlowProofs!NoStatus, NoStatus
  <2> QED BY <2>1, <2>2 DEF FlowProofs!FlowBase, FlowProofs!UnbornAreOutside
<1> QED BY <1>1, <1>2, <1>3 DEF FlowProofs!FlowBase, FlowProofs!FlowTypeOK

\* The flow after a step, from the stages.
LEMMA FlowAfter ==
    /\ (\A d \in Calls : StageStaysFor(d)) =>
          [d \in Calls |-> FlowOf(d)]' = [d \in Calls |-> FlowOf(d)]
    /\ \A c \in Calls : \A s : (\A d \in Calls \ {c} : StageStaysFor(d))
                        /\ StageIn(thread', finish_tasks', cdr'[c], c) = s =>
          [d \in Calls |-> FlowOf(d)]' = [[d \in Calls |-> FlowOf(d)] EXCEPT ![c] = s]
<1>1. ASSUME NEW d \in Calls
      PROVE  /\ FlowOf(d) = StageIn(thread, finish_tasks, cdr[d], d)
             /\ FlowOf(d)' = StageIn(thread', finish_tasks', cdr'[d], d)
  BY FlowIsStage
<1> QED BY <1>1 DEF StageStaysFor

\* StepKeepsPlaces for the variables.
LEMMA ThreadStep ==
    ASSUME ThreadsFit, Places, NEW t \in Threads, NEW x \in ThreadStates,
           NEW c \in Calls \cup {NoCall},
           GoesTo(thread, thread', t, x), finish_tasks' \in TaskSets,
           StepOf(t, x, c, thread, finish_tasks, finish_tasks', cdr, cdr',
                  in_receipt_order_, in_receipt_order_',
                  in_timout_point_order_, in_timout_point_order_')
    PROVE  /\ ThreadsFit' /\ Places'
           /\ \A d \in Calls : d # c => StageStaysFor(d)
<1>2. thread \in ThreadMaps /\ finish_tasks \in TaskSets
  BY DEF ThreadsFit
<1>3. thread' \in ThreadMaps
  BY <1>2 DEF ThreadMaps, GoesTo
<1>4. /\ Placed(thread', finish_tasks', cdr', in_receipt_order_', in_timout_point_order_')
      /\ \A d \in Calls : d # c =>
            StageIn(thread', finish_tasks', cdr'[d], d) = StageIn(thread, finish_tasks, cdr[d], d)
  BY <1>2, StepKeepsPlaces DEF Places
<1> QED BY <1>3, <1>4 DEF ThreadsFit, Places, StageStaysFor

\* A thread that goes on with the call it has, that has none, or that is done
\* with a finished call moves no call on, except at EraseFromProcessing.
LEMMA QuietStep ==
    ASSUME ThreadsFit, Places, NEW t \in Threads, NEW x \in ThreadStates,
           GoesTo(thread, thread', t, x),
           UNCHANGED <<finish_tasks, cdr, in_receipt_order_, in_timout_point_order_>>,
           \/ /\ x.call = thread[t].call
              /\ \/ thread[t].at \in ArrivedLabels /\ x.at \in ArrivedLabels
                 \/ thread[t].at \in FinishedLabels /\ x.at \in {"InsertFreeFinished", "AddRecord"}
           \/ x.call = NoCall /\ thread[t].call = NoCall
           \/ x.call = NoCall /\ thread[t].at = "AddRecord"
    PROVE  /\ ThreadsFit' /\ Places'
           /\ \A d \in Calls : d # thread[t].call \/ thread[t].at # "EraseFromProcessing"
                                  => StageStaysFor(d)
           /\ thread[t].at = "EraseFromProcessing" =>
                 /\ StageIn(thread, finish_tasks, cdr[thread[t].call], thread[t].call) = "answered"
                 /\ StageIn(thread', finish_tasks', cdr'[thread[t].call], thread[t].call) = "gone"
<1> DEFINE c == thread[t].call
<1>1. thread \in [Threads -> ThreadStates] /\ finish_tasks \in SUBSET Tasks
  BY DEF ThreadsFit, ThreadMaps, TaskSets
<1>2. thread[t] \in ThreadStates
  BY <1>1
<1>3. /\ c \in Calls \cup {NoCall} /\ (c \in Calls <=> thread[t].at \in CallLabels)
      /\ x.call \in Calls \cup {NoCall} /\ (x.call \in Calls <=> x.at \in CallLabels)
  BY <1>2 DEF ThreadStates
<1>4. NoCall \notin Calls
  BY RecordAssumption
<1>5. \A k \in finish_tasks : k.call # c /\ k \in Tasks
  BY <1>1 DEF Places, Placed, OneHolder
<1>6. c \in Calls => \A u \in Threads \ {t} : thread[u].call # c
  BY DEF Places, Placed, OneHolder
<1>7. c \in Calls => WasArrived(cdr[c]) /\ c \notin in_receipt_order_
  BY DEF Places, Placed, HeldAreOutside, Held
<1>8. /\ thread[t].at \in ArrivedLabels =>
            ~WasFinished(cdr[c]) /\ c \notin in_timout_point_order_
      /\ thread[t].at \in FinishedLabels => WasFinished(cdr[c])
  BY DEF Places, Placed, NewAreInSystem, FinishedAreFinished
<1>9. ArrivedLabels \cap FinishedLabels = {}
  BY DEF ArrivedLabels, FinishedLabels
<1>10. {"InsertFreeFinished", "AddRecord"} \subseteq FinishedLabels
  BY DEF FinishedLabels
<1>11. StepOf(t, x, c, thread, finish_tasks, finish_tasks', cdr, cdr',
              in_receipt_order_, in_receipt_order_',
              in_timout_point_order_, in_timout_point_order_')
  BY <1>3, <1>4, <1>5, <1>6, <1>7, <1>8, <1>9, <1>10 DEF StepOf, CallLabels
<1>12. /\ ThreadsFit' /\ Places'
       /\ \A d \in Calls : d # c => StageStaysFor(d)
  BY <1>1, <1>3, <1>11, ThreadStep DEF TaskSets
<1>13. /\ thread'[t] = x /\ \A u \in Threads \ {t} : thread'[u] = thread[u]
  BY <1>1 DEF GoesTo
<1>14. c \in Calls => WithThread(t, thread, finish_tasks, c)
  BY <1>5, <1>6 DEF WithThread
<1>15. c \in Calls /\ x.call = c => WithThread(t, thread', finish_tasks', c)
  BY <1>5, <1>6, <1>13 DEF WithThread
<1>16. ASSUME c \in Calls, thread[t].at # "EraseFromProcessing" PROVE StageStaysFor(c)
  <2>1. CASE x.call = c
    <3>1. \/ thread[t].at \in ArrivedLabels /\ x.at \in ArrivedLabels
          \/ thread[t].at \in {"InsertFreeFinished", "AddRecord"}
             /\ x.at \in {"InsertFreeFinished", "AddRecord"}
      BY <1>16, <1>4, <2>1 DEF FinishedLabels
    <3>2. /\ x.at \in ArrivedLabels =>
                StageIn(thread', finish_tasks', cdr[c], c) = "arrived"
          /\ x.at \in {"InsertFreeFinished", "AddRecord"} /\ WasFinished(cdr[c]) =>
                StageIn(thread', finish_tasks', cdr[c], c) = "gone"
      BY <1>7, <1>13, <1>15, <1>16, <2>1, StageOfCarried
    <3>3. /\ thread[t].at \in ArrivedLabels =>
                StageIn(thread, finish_tasks, cdr[c], c) = "arrived"
          /\ thread[t].at \in {"InsertFreeFinished", "AddRecord"} /\ WasFinished(cdr[c]) =>
                StageIn(thread, finish_tasks, cdr[c], c) = "gone"
      BY <1>7, <1>14, <1>16, StageOfCarried
    <3> QED BY <1>8, <1>10, <3>1, <3>2, <3>3 DEF StageStaysFor
  <2>2. CASE x.call # c
    <3>1. thread[t].at = "AddRecord" /\ WasFinished(cdr[c]) /\ x.call = NoCall
      BY <1>4, <1>8, <1>16, <2>2 DEF FinishedLabels
    <3>2. StageIn(thread, finish_tasks, cdr[c], c) = "gone"
      BY <1>7, <1>14, <1>16, <3>1, StageOfCarried
    <3>3. WithNoThread(thread', c)
      BY <1>6, <1>13, <1>16, <2>2 DEF WithNoThread
    <3>4. StageIn(thread', finish_tasks, cdr[c], c) = "gone"
      BY <1>5, <1>7, <1>16, <3>1, <3>3, StageOfOthers
    <3> QED BY <3>2, <3>4 DEF StageStaysFor
  <2> QED BY <2>1, <2>2
<1>17. ASSUME thread[t].at = "EraseFromProcessing"
       PROVE  /\ StageIn(thread, finish_tasks, cdr[c], c) = "answered"
              /\ StageIn(thread', finish_tasks', cdr'[c], c) = "gone"
  <2>1. c \in Calls /\ WasFinished(cdr[c])
    BY <1>3, <1>8, <1>17 DEF CallLabels, FinishedLabels
  <2>2. x.call = c /\ x.at \in {"InsertFreeFinished", "AddRecord"}
    BY <1>17, <1>4, <2>1 DEF ArrivedLabels
  <2>3. StageIn(thread, finish_tasks, cdr[c], c) = "answered"
    BY <1>7, <1>14, <1>17, <2>1, StageOfCarried
  <2>4. StageIn(thread', finish_tasks', cdr[c], c) = "gone"
    BY <1>7, <1>13, <1>15, <2>1, <2>2, StageOfCarried
  <2> QED BY <2>3, <2>4
<1> QED BY <1>12, <1>16, <1>17

\* A step of a thread that CallFlow does not see.
HiddenStep ==
    /\ ThreadsFit' /\ Places'
    /\ \A d \in Calls : StageStaysFor(d)

\* The thread goes on with the call it has, or still has none.
LEMMA GoesOnHidden ==
    ASSUME ThreadsFit, Places, NEW t \in Threads, NEW x \in ThreadStates,
           GoesTo(thread, thread', t, x),
           UNCHANGED <<finish_tasks, cdr, in_receipt_order_, in_timout_point_order_>>,
           thread[t].at # "EraseFromProcessing",
           \/ /\ x.call = thread[t].call
              /\ \/ thread[t].at \in ArrivedLabels /\ x.at \in ArrivedLabels
                 \/ thread[t].at \in FinishedLabels /\ x.at \in {"InsertFreeFinished", "AddRecord"}
           \/ x.call = NoCall /\ thread[t].call = NoCall
           \/ x.call = NoCall /\ thread[t].at = "AddRecord"
    PROVE  HiddenStep
BY QuietStep DEF HiddenStep

\* The states of a thread, by what it has.
LEMMA StatesOfThreads ==
    ASSUME NEW l \in Labels, NEW c \in Calls \cup {NoCall},
           NEW op \in OperatorIds \cup {NoOperator},
           c # NoCall <=> l \in CallLabels, op # NoOperator <=> l \in OperatorLabels
    PROVE  [at |-> l, call |-> c, op |-> op] \in ThreadStates
BY RecordAssumption, ServerAssumption DEF ThreadStates

LEMMA ThreadType ==
    ASSUME ThreadsFit, NEW t \in Threads
    PROVE  /\ thread[t] \in ThreadStates
           /\ thread[t].call \in Calls \cup {NoCall}
           /\ thread[t].op \in OperatorIds \cup {NoOperator}
           /\ thread[t].call # NoCall <=> thread[t].at \in CallLabels
           /\ thread[t].op # NoOperator <=> thread[t].at \in OperatorLabels
BY RecordAssumption, ServerAssumption DEF ThreadsFit, ThreadMaps, ThreadStates

\* The operations on behalf of a new call that do not move it on.
LEMMA NewCallHidden ==
    ASSUME ThreadsFit, Places, NEW t \in Threads,
           \/ QueueIsEmptyForCall(t)
           \/ \E op \in OperatorIds \cup {NoOperator} : EraseFreeForCall(t, op)
           \/ InsertForCallRefused(t)
           \/ InsertFreeForCall(t)
    PROVE  HiddenStep
<1> DEFINE c == thread[t].call
<1>1. PICK l \in ArrivedLabels, op \in OperatorIds \cup {NoOperator} :
         /\ thread' = [thread EXCEPT ![t] = [at |-> l, call |-> c, op |-> op]]
         /\ op # NoOperator <=> l \in OperatorLabels
  <2>1. CASE QueueIsEmptyForCall(t)
    BY <2>1 DEF QueueIsEmptyForCall, Goto, ArrivedLabels, OperatorLabels, TakenLabels, ServedLabels
  <2>2. ASSUME NEW op \in OperatorIds \cup {NoOperator}, EraseFreeForCall(t, op)
        PROVE  \E l \in ArrivedLabels :
                  /\ thread' = [thread EXCEPT ![t] = [at |-> l, call |-> c, op |-> op]]
                  /\ op # NoOperator <=> l \in OperatorLabels
    BY <2>2, ServerAssumption
       DEF EraseFreeForCall, Goto, ArrivedLabels, OperatorLabels, TakenLabels, ServedLabels
  <2>3. CASE InsertForCallRefused(t)
    BY <2>3, ThreadType
       DEF InsertForCallRefused, Goto, ArrivedLabels, OperatorLabels, TakenLabels, ServedLabels
  <2>4. CASE InsertFreeForCall(t)
    BY <2>4 DEF InsertFreeForCall, Goto, ArrivedLabels, OperatorLabels, TakenLabels, ServedLabels
  <2> QED BY <2>1, <2>2, <2>3, <2>4
<1>2. /\ thread[t].at \in ArrivedLabels /\ thread[t].at # "EraseFromProcessing"
      /\ UNCHANGED <<finish_tasks, cdr, in_receipt_order_, in_timout_point_order_>>
  BY DEF QueueIsEmptyForCall, EraseFreeForCall, InsertForCallRefused, InsertFreeForCall,
         InsertToProcessing, indexes, call_queue_vars, ArrivedLabels
<1> DEFINE x == [at |-> l, call |-> c, op |-> op]
<1>3. x \in ThreadStates /\ x.call = c /\ x.at = l
  <2>1. l \in Labels /\ l \in CallLabels /\ thread[t].at \in CallLabels
    BY <1>1, <1>2 DEF Labels, CallLabels, ArrivedLabels
  <2>2. c \in Calls \cup {NoCall} /\ c # NoCall
    BY <2>1, ThreadType
  <2> QED BY <1>1, <2>1, <2>2, StatesOfThreads
<1>4. GoesTo(thread, thread', t, x)
  BY <1>1 DEF GoesTo
<1> HIDE DEF x
<1> QED BY <1>1, <1>2, <1>3, <1>4, GoesOnHidden

\* The operations of an iteration that concern no call.
LEMMA IterationHidden ==
    ASSUME ThreadsFit, Places, in_receipt_order_ \in SUBSET Calls, NEW t \in Threads,
           \/ CheckQueueIsEmpty(t)
           \/ NoTimeoutCall(t)
           \/ \E op \in OperatorIds \cup {NoOperator} : EraseFreeOperator(t, op)
           \/ PopCall(t, NoCall)
           \/ InsertUnusedOperator(t)
           \/ ScheduleCallProcessingIteration(t)
           \/ \E due \in 0 .. MaxTime : RunIteration(t, due)
    PROVE  HiddenStep
<1>1. PICK l \in Labels \ CallLabels, op \in OperatorIds \cup {NoOperator} :
         /\ thread' = [thread EXCEPT ![t] = [at |-> l, call |-> NoCall, op |-> op]]
         /\ op # NoOperator <=> l \in OperatorLabels
  <2> USE DEF Goto, Labels, CallLabels, ArrivedLabels, FinishedLabels, OperatorLabels,
              TakenLabels, ServedLabels
  <2>1. CASE CheckQueueIsEmpty(t) \/ NoTimeoutCall(t)
    BY <2>1 DEF CheckQueueIsEmpty, NoTimeoutCall
  <2>2. ASSUME NEW op \in OperatorIds \cup {NoOperator}, EraseFreeOperator(t, op)
        PROVE  \E l \in Labels \ CallLabels :
                  /\ thread' = [thread EXCEPT ![t] = [at |-> l, call |-> NoCall, op |-> op]]
                  /\ op # NoOperator <=> l \in OperatorLabels
    <3>1. CASE op = NoOperator
      <4>1. thread' = [thread EXCEPT ![t] = [at |-> "GetMinTimeout", call |-> NoCall, op |-> op]]
        BY <2>2, <3>1 DEF EraseFreeOperator
      <4>2. "GetMinTimeout" \in Labels \ CallLabels /\ "GetMinTimeout" \notin OperatorLabels
        OBVIOUS
      <4> QED BY ONLY <3>1, <4>1, <4>2
    <3>2. CASE op # NoOperator
      BY <2>2, <3>2 DEF EraseFreeOperator
    <3> QED BY <3>1, <3>2
  <2>3. CASE PopCall(t, NoCall)
    BY <2>3, ThreadType DEF PopCall
  <2>4. CASE InsertUnusedOperator(t) \/ ScheduleCallProcessingIteration(t)
             \/ \E due \in 0 .. MaxTime : RunIteration(t, due)
    BY <2>4 DEF InsertUnusedOperator, ScheduleCallProcessingIteration, RunIteration
  <2> QED BY <2>1, <2>2, <2>3, <2>4
<1>2. thread[t].at \in Labels \ CallLabels
  <2> USE DEF Labels, CallLabels, ArrivedLabels, FinishedLabels
  <2>1. CASE \E due \in 0 .. MaxTime : RunIteration(t, due)
    BY <2>1 DEF RunIteration, Idle
  <2> QED BY <2>1 DEF CheckQueueIsEmpty, NoTimeoutCall, EraseFreeOperator, PopCall,
                      InsertUnusedOperator, ScheduleCallProcessingIteration
<1>3. UNCHANGED <<finish_tasks, cdr, in_receipt_order_, in_timout_point_order_>>
  <2>1. CASE NoTimeoutCall(t)
    <3>1. EraseTimeoutCallFromQueue(NoCall)
      BY <2>1 DEF NoTimeoutCall
    <3>2. UNCHANGED indexes
      BY <3>1 DEF EraseTimeoutCallFromQueue
    <3> QED BY <2>1, <3>2 DEF NoTimeoutCall, indexes
  <2>2. CASE PopCall(t, NoCall)
    <3>1. NoCall \notin First(in_receipt_order_, ReceiptOrder)
      BY RecordAssumption DEF First
    <3> QED BY <2>2, <3>1 DEF PopCall, PopFromQueue, indexes
  <2> QED BY <2>1, <2>2 DEF CheckQueueIsEmpty, EraseFreeOperator, InsertUnusedOperator,
                 ScheduleCallProcessingIteration, RunIteration, call_queue_vars
<1> DEFINE x == [at |-> l, call |-> NoCall, op |-> op]
<1>4. x \in ThreadStates /\ x.call = NoCall
  BY <1>1, StatesOfThreads
<1>5. thread[t].call = NoCall /\ thread[t].at # "EraseFromProcessing"
  BY <1>2, ThreadType DEF CallLabels, FinishedLabels
<1>6. GoesTo(thread, thread', t, x)
  BY <1>1 DEF GoesTo
<1> HIDE DEF x
<1> QED BY <1>3, <1>4, <1>5, <1>6, GoesOnHidden

\* The operations on a finished call after it has left in_processing_.
LEMMA FinishedHidden ==
    ASSUME ThreadsFit, Places, NEW t \in Threads,
           InsertFinishedOperator(t) \/ AddFinishedRecord(t)
    PROVE  HiddenStep
<1>1. CASE InsertFinishedOperator(t)
  <2> DEFINE x == [at |-> "AddRecord", call |-> thread[t].call, op |-> NoOperator]
  <2>1. /\ thread[t].at = "InsertFreeFinished"
        /\ GoesTo(thread, thread', t, x)
        /\ UNCHANGED <<finish_tasks, cdr, in_receipt_order_, in_timout_point_order_>>
    BY <1>1 DEF InsertFinishedOperator, Goto, GoesTo, call_queue_vars
  <2>2. x \in ThreadStates
    BY <2>1, ThreadType, StatesOfThreads
       DEF Labels, CallLabels, FinishedLabels, OperatorLabels, TakenLabels, ServedLabels
  <2>3. /\ x.call = thread[t].call /\ x.at \in {"InsertFreeFinished", "AddRecord"}
        /\ thread[t].at \in FinishedLabels /\ thread[t].at # "EraseFromProcessing"
    BY <2>1 DEF FinishedLabels
  <2> HIDE DEF x
  <2> QED BY <2>1, <2>2, <2>3, GoesOnHidden
<1>2. CASE AddFinishedRecord(t)
  <2> DEFINE x == [at |-> IF QueueIsEmpty THEN "idle" ELSE "QueueIsEmpty",
                   call |-> NoCall, op |-> NoOperator]
  <2>1. /\ thread[t].at = "AddRecord" /\ thread[t].at # "EraseFromProcessing"
        /\ GoesTo(thread, thread', t, x)
        /\ UNCHANGED <<finish_tasks, cdr, in_receipt_order_, in_timout_point_order_>>
    BY <1>2 DEF AddFinishedRecord, Goto, GoesTo, call_queue_vars
  <2>2. x \in ThreadStates
    BY StatesOfThreads DEF Labels, CallLabels, ArrivedLabels, FinishedLabels, OperatorLabels,
                           TakenLabels, ServedLabels
  <2>3. x.call = NoCall
    OBVIOUS
  <2> HIDE DEF x
  <2> QED BY <2>1, <2>2, <2>3, GoesOnHidden
<1> QED BY <1>1, <1>2

-----------------------------------------------------------------------------
(* Steps that move a call on.                                              *)

\* A step that takes call c, and no other, to stage s.
MovesTo(c, s) ==
    /\ ThreadsFit' /\ Places'
    /\ \A d \in Calls \ {c} : StageStaysFor(d)
    /\ StageIn(thread', finish_tasks', cdr'[c], c) = s

\* What is known of the call that a thread has.
LEMMA CarriedFacts ==
    ASSUME ThreadsFit, Places, NEW t \in Threads, thread[t].at \in CallLabels
    PROVE  /\ thread[t].call \in Calls
           /\ WithThread(t, thread, finish_tasks, thread[t].call)
           /\ WasArrived(cdr[thread[t].call])
           /\ thread[t].call \notin in_receipt_order_
           /\ thread[t].at \in ArrivedLabels =>
                 /\ ~WasFinished(cdr[thread[t].call])
                 /\ thread[t].call \notin in_timout_point_order_
                 /\ StageIn(thread, finish_tasks, cdr[thread[t].call], thread[t].call) = "arrived"
           /\ thread[t].at = "InsertPopped" =>
                 StageIn(thread, finish_tasks, cdr[thread[t].call], thread[t].call) = "popped"
<1>1. thread[t].call \in Calls
  BY ThreadType
<1>2. WithThread(t, thread, finish_tasks, thread[t].call)
  BY <1>1 DEF WithThread, Places, Placed, OneHolder
<1>3. WasArrived(cdr[thread[t].call]) /\ thread[t].call \notin in_receipt_order_
  BY <1>1 DEF Places, Placed, HeldAreOutside, Held
<1>4. thread[t].at \in ArrivedLabels =>
         ~WasFinished(cdr[thread[t].call]) /\ thread[t].call \notin in_timout_point_order_
  BY DEF Places, Placed, NewAreInSystem
<1>5. /\ thread[t].at \in ArrivedLabels =>
            StageIn(thread, finish_tasks, cdr[thread[t].call], thread[t].call) = "arrived"
      /\ thread[t].at = "InsertPopped" =>
            StageIn(thread, finish_tasks, cdr[thread[t].call], thread[t].call) = "popped"
  BY <1>2, <1>3, StageOfCarried
<1> QED BY <1>1, <1>2, <1>3, <1>4, <1>5

\* What the operations of CallDetailedRecord do to the times and the status.
LEMMA RecordFacts ==
    ASSUME NEW r \in Records
    PROVE  /\ \A op : WasArrived(StartService(r, op)) <=> WasArrived(r)
           /\ \A op : WasFinished(StartService(r, op)) <=> WasFinished(r)
           /\ \A st : WasArrived(CompleteService(r, st)) <=> WasArrived(r)
           /\ \A st \in CallStatus : WasFinished(CompleteService(r, st))
BY DEF Records, WasArrived, WasFinished, StartService, CompleteService, CallStatus, NoStatus

LEMMA RecordChanges ==
    ASSUME cdr \in [Calls -> Records], NEW c \in Calls, NEW r, cdr' = [cdr EXCEPT ![c] = r]
    PROVE  cdr'[c] = r /\ \A d \in Calls \ {c} : cdr'[d] = cdr[d]
OBVIOUS

\* A new call is with the thread that handles its request.
LEMMA PushCallMoves ==
    ASSUME FlowPart, NEW t \in Threads, NEW c \in Calls, NEW phone \in Phones,
           PushCall(t, c, phone)
    PROVE  /\ StageIn(thread, finish_tasks, cdr[c], c) = "unborn"
           /\ MovesTo(c, "arrived")
<1> DEFINE x == [at |-> "QueueIsEmptyForCall", call |-> c, op |-> NoOperator]
           r == SetArrivalTime(NewRecord(phone))
<1>1. /\ thread[t] = Idle
      /\ ~WasArrived(cdr[c])
      /\ cdr' = [cdr EXCEPT ![c] = r]
      /\ GoesTo(thread, thread', t, x)
      /\ UNCHANGED <<finish_tasks, in_receipt_order_, in_timout_point_order_>>
  BY DEF PushCall, Goto, GoesTo, call_queue_vars
<1>2. /\ cdr \in [Calls -> Records] /\ now \in Int /\ now # NoTime
      /\ c \notin in_receipt_order_ \cup in_timout_point_order_
  BY <1>1, BaseFacts DEF FlowPart, NoTime
<1>3. WasArrived(r) /\ ~WasFinished(r)
  <2>1. r.arrival_time_ = now /\ r.status_ = NoStatus
    BY DEF SetArrivalTime, NewRecord
  <2> QED BY <1>2, <2>1 DEF WasArrived, WasFinished
<1> HIDE DEF r
<1>4. cdr'[c] = r /\ \A d \in Calls \ {c} : cdr'[d] = cdr[d]
  BY <1>1, <1>2, RecordChanges
<1>5. thread \in ThreadMaps /\ finish_tasks \in TaskSets /\ ThreadsFit /\ Places
  BY DEF FlowPart, ThreadsFit
<1>6. (\A u \in Threads : thread[u].call # c) /\ (\A k \in finish_tasks : k.call # c)
  BY <1>1, <1>5 DEF Places, Placed, HeldAreOutside, Held
<1>7. x \in ThreadStates
  BY StatesOfThreads, RecordAssumption
     DEF Labels, CallLabels, ArrivedLabels, OperatorLabels, TakenLabels, ServedLabels
<1>8. /\ x.call = c /\ x.at \in ArrivedLabels /\ x.at \notin FinishedLabels
      /\ thread[t].call = NoCall
  BY <1>1 DEF Idle, ArrivedLabels, FinishedLabels
<1> HIDE DEF x
<1>9. StepOf(t, x, c, thread, finish_tasks, finish_tasks', cdr, cdr',
             in_receipt_order_, in_receipt_order_',
             in_timout_point_order_, in_timout_point_order_')
  BY <1>1, <1>2, <1>3, <1>4, <1>6, <1>8 DEF StepOf
<1>10. /\ ThreadsFit' /\ Places'
       /\ \A d \in Calls : d # c => StageStaysFor(d)
  BY <1>1, <1>5, <1>7, <1>9, ThreadStep
<1>11. WithThread(t, thread', finish_tasks', c) /\ thread'[t] = x
  BY <1>1, <1>5, <1>6, <1>8 DEF WithThread, GoesTo, ThreadMaps
<1>12. StageIn(thread', finish_tasks', cdr'[c], c) = "arrived"
  BY <1>3, <1>4, <1>8, <1>11, StageOfCarried
<1>13. StageIn(thread, finish_tasks, cdr[c], c) = "unborn"
  BY <1>1 DEF StageIn
<1> QED BY <1>10, <1>12, <1>13 DEF MovesTo

\* The instant at which a finish task is due.
LEMMA MinIsFirst ==
    ASSUME NEW a \in Nat, NEW b \in Nat PROVE Min({a, b}) \in 0 .. b
<1>1. PICK m \in {a, b} : \A y \in {a, b} : m <= y
  BY SMT
<1>2. Min({a, b}) \in {a, b} /\ \A y \in {a, b} : Min({a, b}) <= y
  BY <1>1 DEF Min
<1> QED BY <1>2

\* StartCallProcessing hands the call over to the finish task.
LEMMA StartMoves ==
    ASSUME FlowPart, NEW t \in Threads,
           thread[t].at \in {"InsertForCall", "InsertPopped"},
           StartCallProcessing(t, thread[t].call, thread[t].op),
           UNCHANGED <<in_receipt_order_, in_timout_point_order_>>
    PROVE  MovesTo(thread[t].call, "inService")
<1> DEFINE c == thread[t].call
           op == thread[t].op
<1>1. /\ cdr \in [Calls -> Records] /\ now \in 0 .. MaxTime /\ now \in Int
      /\ ThreadsFit /\ Places
  BY BaseFacts DEF FlowPart
<1>2. thread \in ThreadMaps /\ finish_tasks \in TaskSets
  BY <1>1 DEF ThreadsFit
<1>3. /\ c \in Calls /\ WithThread(t, thread, finish_tasks, c)
      /\ WasArrived(cdr[c]) /\ c \notin in_receipt_order_
  BY <1>1, CarriedFacts DEF CallLabels, ArrivedLabels
<1>4. op \in OperatorIds
  BY <1>1, ThreadType DEF OperatorLabels, TakenLabels
<1>5. PICK delay \in CallDelays :
         finish_tasks' = finish_tasks \cup
            {[call |-> c, op |-> op, due |-> Min({now + delay, MaxTime})]}
  BY DEF StartCallProcessing
<1> DEFINE task == [call |-> c, op |-> op, due |-> Min({now + delay, MaxTime})]
<1>6. task \in Tasks /\ task.call = c
  <2>1. delay \in Nat /\ MaxTime \in Nat
    BY OperatorAssumption, RecordAssumption DEF CallDelays
  <2>2. Min({now + delay, MaxTime}) \in 0 .. MaxTime
    BY <1>1, <2>1, MinIsFirst
  <2> QED BY <1>3, <1>4, <2>2 DEF Tasks
<1> HIDE DEF task
<1>7. finish_tasks' = finish_tasks \cup {task} /\ finish_tasks' \in TaskSets
  BY <1>2, <1>5, <1>6 DEF TaskSets, task
<1> DEFINE x == [at |-> "idle", call |-> NoCall, op |-> NoOperator]
<1>8. GoesTo(thread, thread', t, x) /\ cdr' = [cdr EXCEPT ![c] = StartService(cdr[c], op)]
  BY DEF StartCallProcessing, Goto, GoesTo
<1>9. x \in ThreadStates
  BY StatesOfThreads DEF Labels, CallLabels, ArrivedLabels, FinishedLabels, OperatorLabels,
                         TakenLabels, ServedLabels
<1>10. x.call = NoCall /\ NoCall # c
  BY <1>3, RecordAssumption
<1> HIDE DEF x
<1>11. /\ WasArrived(cdr'[c])
       /\ \A d \in Calls \ {c} : cdr'[d] = cdr[d]
  <2>1. cdr'[c] = StartService(cdr[c], op) /\ \A d \in Calls \ {c} : cdr'[d] = cdr[d]
    BY <1>1, <1>3, <1>8, RecordChanges
  <2>2. cdr[c] \in Records
    BY <1>1, <1>3
  <2> QED BY <1>3, <2>1, <2>2, RecordFacts
<1>12. StepOf(t, x, c, thread, finish_tasks, finish_tasks', cdr, cdr',
              in_receipt_order_, in_receipt_order_',
              in_timout_point_order_, in_timout_point_order_')
  BY <1>3, <1>6, <1>7, <1>10, <1>11 DEF StepOf, WithThread
<1>13. /\ ThreadsFit' /\ Places'
       /\ \A d \in Calls : d # c => StageStaysFor(d)
  BY <1>1, <1>3, <1>7, <1>8, <1>9, <1>12, ThreadStep
<1>14. WithNoThread(thread', c)
  BY <1>2, <1>3, <1>8, <1>10 DEF WithNoThread, WithThread, GoesTo, ThreadMaps
<1>15. StageIn(thread', finish_tasks', cdr'[c], c) = "inService"
  BY <1>6, <1>7, <1>11, <1>14, StageOfOthers
<1> QED BY <1>13, <1>15 DEF MovesTo

\* The states of a thread that has nothing.
LEMMA EmptyHanded ==
    \A l \in {"idle", "QueueIsEmpty"} :
        [at |-> l, call |-> NoCall, op |-> NoOperator] \in ThreadStates
BY StatesOfThreads DEF Labels, CallLabels, ArrivedLabels, FinishedLabels, OperatorLabels,
                       TakenLabels, ServedLabels

\* PushToQueue takes the call from the thread, or the call is rejected.
LEMMA PushMoves ==
    ASSUME FlowPart, NEW t \in Threads, PushCallToQueue(t) \/ PushCallRejected(t)
    PROVE  /\ PushCallToQueue(t) => MovesTo(thread[t].call, "queued")
           /\ PushCallRejected(t) => MovesTo(thread[t].call, "gone")
<1> DEFINE c == thread[t].call
<1>1. /\ cdr \in [Calls -> Records] /\ ThreadsFit /\ Places
      /\ thread \in ThreadMaps /\ finish_tasks \in TaskSets
  BY BaseFacts DEF FlowPart, ThreadsFit
<1>2. thread[t].at \in ArrivedLabels /\ thread[t].at \in CallLabels
  BY DEF PushCallToQueue, PushCallRejected, ArrivedLabels, CallLabels
<1>3. /\ c \in Calls /\ WithThread(t, thread, finish_tasks, c)
      /\ WasArrived(cdr[c]) /\ ~WasFinished(cdr[c])
      /\ NoCall # c
  BY <1>1, <1>2, CarriedFacts, RecordAssumption
<1>4. PICK l \in {"idle", "QueueIsEmpty"} :
         GoesTo(thread, thread', t, [at |-> l, call |-> NoCall, op |-> NoOperator])
  BY DEF PushCallToQueue, PushCallRejected, Goto, GoesTo
<1> DEFINE x == [at |-> l, call |-> NoCall, op |-> NoOperator]
<1>5. x \in ThreadStates /\ x.call = NoCall /\ GoesTo(thread, thread', t, x)
  BY <1>4, EmptyHanded
<1> HIDE DEF x
<1>6. /\ UNCHANGED finish_tasks
      /\ in_receipt_order_' \subseteq in_receipt_order_ \cup {c}
      /\ in_timout_point_order_' \subseteq in_timout_point_order_ \cup {c}
  BY DEF PushCallToQueue, PushCallRejected, PushToQueue, InsertToQueue, indexes
<1>7. /\ WasArrived(cdr'[c])
      /\ PushCallToQueue(t) => ~WasFinished(cdr'[c])
      /\ PushCallRejected(t) => WasFinished(cdr'[c])
      /\ \A d \in Calls \ {c} : cdr'[d] = cdr[d]
  <2>1. cdr[c] \in Records
    BY <1>1, <1>3
  <2>2. PushCallToQueue(t) => UNCHANGED cdr
    BY DEF PushCallToQueue
  <2>3. ASSUME PushCallRejected(t)
        PROVE  /\ WasArrived(cdr'[c]) /\ WasFinished(cdr'[c])
               /\ \A d \in Calls \ {c} : cdr'[d] = cdr[d]
    <3>1. PICK reason \in CallStatus : cdr' = [cdr EXCEPT ![c] = CompleteService(cdr[c], reason)]
      BY <2>3 DEF PushCallRejected, RejectCall, CallStatus
    <3>2. cdr'[c] = CompleteService(cdr[c], reason) /\ \A d \in Calls \ {c} : cdr'[d] = cdr[d]
      BY <1>1, <1>3, <3>1, RecordChanges
    <3> QED BY <1>3, <2>1, <3>2, RecordFacts
  <2>4. ASSUME PushCallToQueue(t), PushCallRejected(t) PROVE FALSE
    BY <2>2, <2>3, <2>4, <1>3
  <2> QED BY <1>3, <2>2, <2>3, <2>4
<1>8. \A k \in finish_tasks : k.call # c
  BY <1>3 DEF WithThread
<1>9. StepOf(t, x, c, thread, finish_tasks, finish_tasks', cdr, cdr',
             in_receipt_order_, in_receipt_order_',
             in_timout_point_order_, in_timout_point_order_')
  BY <1>3, <1>5, <1>6, <1>7, <1>8 DEF StepOf, WithThread
<1>10. /\ ThreadsFit' /\ Places'
       /\ \A d \in Calls : d # c => StageStaysFor(d)
  BY <1>1, <1>3, <1>5, <1>6, <1>9, ThreadStep
<1>11. WithNoThread(thread', c)
  BY <1>1, <1>3, <1>5 DEF WithNoThread, WithThread, GoesTo, ThreadMaps
<1>12. StageIn(thread', finish_tasks', cdr'[c], c) = IF WasFinished(cdr'[c]) THEN "gone" ELSE "queued"
  BY <1>6, <1>7, <1>8, <1>11, StageOfOthers
<1> QED BY <1>7, <1>10, <1>12 DEF MovesTo

\* begin() of an index is also the first of those that match it.
LEMMA PopTakesOut ==
    ASSUME in_receipt_order_ \in SUBSET Calls, NEW c \in Calls, PopFromQueue(c)
    PROVE  /\ c \in in_receipt_order_ /\ c \notin in_receipt_order_'
           /\ in_receipt_order_' \subseteq in_receipt_order_
           /\ in_timout_point_order_' \subseteq in_timout_point_order_
<1>1. c \in First(in_receipt_order_, ReceiptOrder) /\ EraseFromQueue(c)
  BY RecordAssumption DEF PopFromQueue
<1>2. c \in First(Matching(in_receipt_order_, ReceiptOrder, c), ReceiptOrder)
  BY <1>1 DEF First, Matching, CallEquals
<1> QED BY <1>1, <1>2 DEF EraseFromQueue, EraseCallFromMultiset, First

\* PopFromQueue gives the call to the thread.
LEMMA PopMoves ==
    ASSUME FlowPart, NEW t \in Threads, NEW c \in Calls, PopCall(t, c)
    PROVE  MovesTo(c, "popped")
<1> DEFINE x == [at |-> "InsertPopped", call |-> c, op |-> thread[t].op]
<1>1. /\ cdr \in [Calls -> Records] /\ ThreadsFit /\ Places
      /\ thread \in ThreadMaps /\ finish_tasks \in TaskSets
      /\ in_receipt_order_ \in SUBSET Calls
  BY BaseFacts DEF FlowPart, ThreadsFit
<1>2. c # NoCall
  BY RecordAssumption
<1>3. /\ thread[t].at = "PopFromQueue" /\ PopFromQueue(c)
      /\ GoesTo(thread, thread', t, x)
      /\ UNCHANGED <<cdr, finish_tasks>>
  BY <1>2 DEF PopCall, Goto, GoesTo
<1>4. /\ c \in in_receipt_order_ /\ c \notin in_receipt_order_'
      /\ in_receipt_order_' \subseteq in_receipt_order_
      /\ in_timout_point_order_' \subseteq in_timout_point_order_
  BY <1>1, <1>3, PopTakesOut
<1>5. WasArrived(cdr[c])
  BY <1>4, BaseFacts DEF FlowPart
<1>6. (\A u \in Threads : thread[u].call # c) /\ (\A k \in finish_tasks : k.call # c)
  BY <1>1, <1>4 DEF Places, Placed, HeldAreOutside, Held
<1>7. thread[t].call = NoCall /\ x \in ThreadStates
  <2>1. /\ thread[t].op \in OperatorIds \cup {NoOperator} /\ thread[t].op # NoOperator
        /\ thread[t].call = NoCall
    BY <1>1, <1>3, ThreadType DEF OperatorLabels, TakenLabels, CallLabels, ArrivedLabels,
                                  FinishedLabels
  <2> QED BY <1>2, <2>1, StatesOfThreads DEF Labels, CallLabels, OperatorLabels, TakenLabels
<1>8. x.call = c /\ x.at = "InsertPopped" /\ x.at \notin ArrivedLabels /\ x.at \notin FinishedLabels
  BY DEF ArrivedLabels, FinishedLabels
<1> HIDE DEF x
<1>9. StepOf(t, x, c, thread, finish_tasks, finish_tasks', cdr, cdr',
             in_receipt_order_, in_receipt_order_',
             in_timout_point_order_, in_timout_point_order_')
  BY <1>3, <1>4, <1>5, <1>6, <1>7, <1>8 DEF StepOf
<1>10. /\ ThreadsFit' /\ Places'
       /\ \A d \in Calls : d # c => StageStaysFor(d)
  BY <1>1, <1>3, <1>7, <1>9, ThreadStep
<1>11. WithThread(t, thread', finish_tasks', c) /\ thread'[t] = x
  BY <1>1, <1>3, <1>6, <1>8 DEF WithThread, GoesTo, ThreadMaps
<1>12. StageIn(thread', finish_tasks', cdr'[c], c) = "popped"
  BY <1>3, <1>5, <1>8, <1>11, StageOfCarried
<1> QED BY <1>10, <1>12 DEF MovesTo

\* The finish task gives the call to the thread that runs it.
LEMMA FinishMoves ==
    ASSUME FlowPart, NEW t \in Threads, NEW task \in finish_tasks,
           FinishCallProcessing(t, task)
    PROVE  /\ task.call \in Calls
           /\ StageIn(thread, finish_tasks, cdr[task.call], task.call) = "inService"
           /\ MovesTo(task.call, "answered")
<1> DEFINE c == task.call
           x == [at |-> "EraseFromProcessing", call |-> c, op |-> task.op]
<1>1. /\ cdr \in [Calls -> Records] /\ ThreadsFit /\ Places
      /\ thread \in ThreadMaps /\ finish_tasks \in TaskSets
  BY BaseFacts DEF FlowPart, ThreadsFit
<1>2. task \in Tasks /\ c \in Calls /\ task.op \in OperatorIds
  BY <1>1 DEF TaskSets, Tasks
<1>3. /\ thread[t] = Idle
      /\ finish_tasks' = finish_tasks \ {task}
      /\ cdr' = [cdr EXCEPT ![c] = CompleteService(cdr[c], "kOk")]
      /\ GoesTo(thread, thread', t, x)
      /\ UNCHANGED <<in_receipt_order_, in_timout_point_order_>>
  BY DEF FinishCallProcessing, Goto, GoesTo, call_queue_vars
<1>4. /\ \A u \in Threads : thread[u].call # c
      /\ \A k \in finish_tasks : k.call = c => k = task
  BY <1>1 DEF Places, Placed, OneHolder
<1>5. WasArrived(cdr[c]) /\ c \notin in_receipt_order_
  BY <1>1, <1>2 DEF Places, Placed, HeldAreOutside, Held
<1>6. /\ WasArrived(cdr'[c]) /\ WasFinished(cdr'[c])
      /\ \A d \in Calls \ {c} : cdr'[d] = cdr[d]
  <2>1. cdr'[c] = CompleteService(cdr[c], "kOk") /\ \A d \in Calls \ {c} : cdr'[d] = cdr[d]
    BY <1>1, <1>2, <1>3, RecordChanges
  <2>2. cdr[c] \in Records /\ "kOk" \in CallStatus
    BY <1>1, <1>2 DEF CallStatus
  <2> QED BY <1>5, <2>1, <2>2, RecordFacts
<1>7. x \in ThreadStates
  BY <1>2, StatesOfThreads, RecordAssumption, ServerAssumption
     DEF Labels, CallLabels, FinishedLabels, OperatorLabels, ServedLabels
<1>8. /\ x.call = c /\ x.at = "EraseFromProcessing" /\ x.at \notin ArrivedLabels
      /\ thread[t].call = NoCall
  BY <1>3 DEF ArrivedLabels, Idle
<1> HIDE DEF x
<1>9. /\ finish_tasks' \in TaskSets /\ \A k \in finish_tasks' : k.call # c
      /\ \A k \in Tasks : k.call # c => (k \in finish_tasks <=> k \in finish_tasks')
  BY <1>1, <1>3, <1>4 DEF TaskSets
<1>10. StepOf(t, x, c, thread, finish_tasks, finish_tasks', cdr, cdr',
              in_receipt_order_, in_receipt_order_',
              in_timout_point_order_, in_timout_point_order_')
  BY <1>3, <1>4, <1>5, <1>6, <1>8, <1>9 DEF StepOf
<1>11. /\ ThreadsFit' /\ Places'
       /\ \A d \in Calls : d # c => StageStaysFor(d)
  BY <1>1, <1>2, <1>3, <1>7, <1>9, <1>10, ThreadStep
<1>12. WithThread(t, thread', finish_tasks', c) /\ thread'[t] = x
  BY <1>1, <1>3, <1>4, <1>8, <1>9 DEF WithThread, GoesTo, ThreadMaps
<1>13. StageIn(thread', finish_tasks', cdr'[c], c) = "answered"
  BY <1>6, <1>8, <1>12, StageOfCarried
<1>14. StageIn(thread, finish_tasks, cdr[c], c) = "inService"
  <2>1. WithNoThread(thread, c)
    BY <1>4 DEF WithNoThread
  <2>2. \E k \in finish_tasks : k.call = c
    OBVIOUS
  <2> QED BY <1>5, <2>1, <2>2, StageOfOthers
<1> QED BY <1>2, <1>11, <1>13, <1>14 DEF MovesTo

\* The finished call leaves in_processing_.
LEMMA LeaveMoves ==
    ASSUME FlowPart, NEW t \in Threads, EraseFinishedFromProcessing(t)
    PROVE  /\ thread[t].call \in Calls
           /\ StageIn(thread, finish_tasks, cdr[thread[t].call], thread[t].call) = "answered"
           /\ MovesTo(thread[t].call, "gone")
<1> DEFINE x == [at |-> "InsertFreeFinished", call |-> thread[t].call, op |-> thread[t].op]
<1>1. ThreadsFit /\ Places
  BY DEF FlowPart
<1>2. /\ thread[t].at = "EraseFromProcessing" /\ thread[t].at \in FinishedLabels
      /\ GoesTo(thread, thread', t, x)
      /\ UNCHANGED <<finish_tasks, cdr, in_receipt_order_, in_timout_point_order_>>
  BY DEF EraseFinishedFromProcessing, EraseFromProcessing, Goto, GoesTo, indexes, FinishedLabels
<1>3. thread[t].call \in Calls /\ x \in ThreadStates
  BY <1>1, <1>2, ThreadType, StatesOfThreads
     DEF Labels, CallLabels, FinishedLabels, OperatorLabels, ServedLabels
<1>4. x.call = thread[t].call /\ x.at \in {"InsertFreeFinished", "AddRecord"}
  OBVIOUS
<1> HIDE DEF x
<1>5. /\ ThreadsFit' /\ Places'
      /\ \A d \in Calls : d # thread[t].call => StageStaysFor(d)
      /\ StageIn(thread, finish_tasks, cdr[thread[t].call], thread[t].call) = "answered"
      /\ StageIn(thread', finish_tasks', cdr'[thread[t].call], thread[t].call) = "gone"
  BY <1>1, <1>2, <1>3, <1>4, QuietStep
<1> QED BY <1>3, <1>5 DEF MovesTo

\* RejectAllTimeoutCalls takes a call that waits, or one that the index by
\* timeout has kept although it is elsewhere, which then stays there.
LEMMA RejectMoves ==
    ASSUME FlowPart, NEW t \in Threads, NEW c \in Calls, RejectTimeoutCall(t, c)
    PROVE  LET s == StageIn(thread, finish_tasks, cdr[c], c)
           IN  MovesTo(c, IF s = "queued" THEN "gone" ELSE s)
<1> DEFINE s == StageIn(thread, finish_tasks, cdr[c], c)
<1>1. /\ cdr \in [Calls -> Records] /\ ThreadsFit /\ Places
      /\ in_timout_point_order_ \in SUBSET Calls
  BY BaseFacts DEF FlowPart, ThreadsFit
<1>2. c # NoCall
  BY RecordAssumption
<1>3. EraseTimeoutCallFromQueue(c) /\ UNCHANGED <<thread, finish_tasks>>
      /\ cdr' = [cdr EXCEPT ![c] = CompleteService(cdr[c], "kTimeout")]
  BY DEF RejectTimeoutCall, RejectCall
<1>4. GetMinTimeoutCallInQueue(c) /\ IsTimeout(cdr[c]) /\ EraseFromQueue(c)
  BY <1>2, <1>3 DEF EraseTimeoutCallFromQueue
<1>5. /\ c \in in_timout_point_order_ /\ WasArrived(cdr[c])
      /\ in_receipt_order_' \subseteq in_receipt_order_
      /\ in_timout_point_order_' \subseteq in_timout_point_order_
  BY <1>2, <1>4 DEF GetMinTimeoutCallInQueue, First, IsTimeout, EraseFromQueue,
                    EraseCallFromMultiset
<1>6. /\ WasArrived(cdr'[c]) /\ WasFinished(cdr'[c])
      /\ \A d \in Calls \ {c} : cdr'[d] = cdr[d]
  <2>1. cdr'[c] = CompleteService(cdr[c], "kTimeout") /\ \A d \in Calls \ {c} : cdr'[d] = cdr[d]
    BY <1>1, <1>3, RecordChanges
  <2>2. cdr[c] \in Records /\ "kTimeout" \in CallStatus
    BY <1>1 DEF CallStatus
  <2> QED BY <1>5, <2>1, <2>2, RecordFacts
<1>7. Places'
  <2>1. \A u \in Threads : thread[u].at \in CallLabels => thread[u].call \in Calls
    BY <1>1, ThreadType
  <2>2. OneHolder(thread', finish_tasks')
    BY <1>1, <1>3 DEF Places, Placed
  <2>3. HeldAreOutside(thread', finish_tasks', cdr', in_receipt_order_')
    BY <1>1, <1>3, <1>5, <1>6 DEF Places, Placed, HeldAreOutside, Held
  <2>4. NewAreInSystem(thread', cdr', in_timout_point_order_')
    BY <1>1, <1>3, <1>5, <1>6, <2>1 DEF Places, Placed, NewAreInSystem, CallLabels
  <2>5. FinishedAreFinished(thread', cdr')
    BY <1>1, <1>3, <1>6, <2>1 DEF Places, Placed, FinishedAreFinished, CallLabels
  <2> QED BY <2>2, <2>3, <2>4, <2>5 DEF Places, Placed
<1>8. ThreadsFit' /\ \A d \in Calls \ {c} : StageStaysFor(d)
  BY <1>1, <1>3, <1>6 DEF ThreadsFit, StageStaysFor
<1>9. StageIn(thread', finish_tasks', cdr'[c], c) = IF s = "queued" THEN "gone" ELSE s
  BY <1>3, <1>5, <1>6 DEF StageIn
<1> QED BY <1>7, <1>8, <1>9 DEF MovesTo

\* A step of the clock, of the file, or none at all.
LEMMA EnvironmentHidden ==
    ASSUME ThreadsFit, Places,
           UNCHANGED <<thread, finish_tasks, cdr, in_receipt_order_, in_timout_point_order_>>
    PROVE  HiddenStep
BY DEF HiddenStep, ThreadsFit, Places, StageStaysFor

-----------------------------------------------------------------------------
(* Every step is one of CallFlow.                                          *)

\* The operations of CallQueue and CallDetailedRecord are the same ones there.
LEMMA SameOperations ==
    /\ \A c, result : FlowProofs!PushToQueue(c, result) <=> PushToQueue(c, result)
    /\ \A c : FlowProofs!PopFromQueue(c) <=> PopFromQueue(c)
    /\ \A c : FlowProofs!EraseTimeoutCallFromQueue(c) <=> EraseTimeoutCallFromQueue(c)
    /\ \A c, added : FlowProofs!InsertToProcessing(c, added) <=> InsertToProcessing(c, added)
    /\ \A c : FlowProofs!EraseFromProcessing(c) <=> EraseFromProcessing(c)
    /\ FlowProofs!BeginIsValid <=> BeginIsValid
    /\ FlowProofs!UpdateConfiguration <=> UpdateConfiguration
    /\ FlowProofs!Tick <=> Tick
    /\ \A phone : FlowProofs!SetArrivalTime(FlowProofs!NewRecord(phone))
                     = SetArrivalTime(NewRecord(phone))
    /\ \A r : FlowProofs!InSystem(r) <=> InSystem(r)
    /\ \A r, op : FlowProofs!StartService(r, op) = StartService(r, op)
    /\ \A r, st : FlowProofs!CompleteService(r, st) = CompleteService(r, st)
<1>1. \A c, result : FlowProofs!PushToQueue(c, result) <=> PushToQueue(c, result)
  BY DEF FlowProofs!PushToQueue, PushToQueue, FlowProofs!InsertToQueue,
         InsertToQueue, FlowProofs!UpdateCapacity, UpdateCapacity,
         FlowProofs!GetProperty, GetProperty, FlowProofs!Missing, Missing,
         FlowProofs!Max, Max, FlowProofs!Cardinality, Cardinality,
         FlowProofs!Contains, Contains, FlowProofs!MultisetContainsCall,
         MultisetContainsCall, FlowProofs!Matching, Matching,
         FlowProofs!ReceiptOrder, ReceiptOrder, FlowProofs!CallEquals, CallEquals,
         FlowProofs!indexes, indexes
<1>2. \A c : FlowProofs!PopFromQueue(c) <=> PopFromQueue(c)
  BY DEF FlowProofs!PopFromQueue, PopFromQueue, FlowProofs!QueueIsEmpty,
         QueueIsEmpty, FlowProofs!EraseFromQueue, EraseFromQueue,
         FlowProofs!EraseCallFromMultiset, EraseCallFromMultiset,
         FlowProofs!Matching, Matching, FlowProofs!First, First,
         FlowProofs!ReceiptOrder, ReceiptOrder, FlowProofs!TimeoutPointOrder,
         TimeoutPointOrder, FlowProofs!CallEquals, CallEquals, FlowProofs!indexes,
         indexes
<1>3. \A c : FlowProofs!EraseTimeoutCallFromQueue(c) <=> EraseTimeoutCallFromQueue(c)
  BY DEF FlowProofs!EraseTimeoutCallFromQueue, EraseTimeoutCallFromQueue,
         FlowProofs!GetMinTimeoutCallInQueue, GetMinTimeoutCallInQueue,
         FlowProofs!QueueIsEmpty, QueueIsEmpty, FlowProofs!IsTimeout, IsTimeout,
         FlowProofs!WasArrived, WasArrived, FlowProofs!NoTime, NoTime,
         FlowProofs!EraseFromQueue, EraseFromQueue,
         FlowProofs!EraseCallFromMultiset, EraseCallFromMultiset,
         FlowProofs!Matching, Matching, FlowProofs!First, First,
         FlowProofs!ReceiptOrder, ReceiptOrder, FlowProofs!TimeoutPointOrder,
         TimeoutPointOrder, FlowProofs!CallEquals, CallEquals, FlowProofs!indexes,
         indexes
<1>4. \A c, added : FlowProofs!InsertToProcessing(c, added) <=> InsertToProcessing(c, added)
  BY DEF FlowProofs!InsertToProcessing, InsertToProcessing, FlowProofs!Contains,
         Contains, FlowProofs!MultisetContainsCall, MultisetContainsCall,
         FlowProofs!Matching, Matching, FlowProofs!ReceiptOrder, ReceiptOrder,
         FlowProofs!CallEquals, CallEquals, FlowProofs!indexes, indexes
<1>5. \A c : FlowProofs!EraseFromProcessing(c) <=> EraseFromProcessing(c)
  BY DEF FlowProofs!EraseFromProcessing, EraseFromProcessing,
         FlowProofs!CallEquals, CallEquals, FlowProofs!indexes, indexes
<1>6. /\ FlowProofs!BeginIsValid <=> BeginIsValid
      /\ FlowProofs!UpdateConfiguration <=> UpdateConfiguration
      /\ FlowProofs!Tick <=> Tick
  BY DEF FlowProofs!BeginIsValid, BeginIsValid, FlowProofs!call_queue_vars,
         call_queue_vars, FlowProofs!UpdateConfiguration, UpdateConfiguration,
         FlowProofs!Configurations, Configurations, FlowProofs!Tick, Tick
<1>7. /\ \A phone : FlowProofs!SetArrivalTime(FlowProofs!NewRecord(phone))
                       = SetArrivalTime(NewRecord(phone))
      /\ \A r : FlowProofs!InSystem(r) <=> InSystem(r)
      /\ \A r, op : FlowProofs!StartService(r, op) = StartService(r, op)
      /\ \A r, st : FlowProofs!CompleteService(r, st) = CompleteService(r, st)
  BY DEF FlowProofs!SetArrivalTime, SetArrivalTime, FlowProofs!NewRecord,
         NewRecord, FlowProofs!ReadMaxWait, ReadMaxWait, FlowProofs!NoTime, NoTime,
         FlowProofs!NoStatus, NoStatus, FlowProofs!InSystem, InSystem,
         FlowProofs!WasArrived, WasArrived, FlowProofs!WasFinished, WasFinished,
         FlowProofs!StartService, StartService, FlowProofs!CompleteService,
         CompleteService
<1> QED BY <1>1, <1>2, <1>3, <1>4, <1>5, <1>6, <1>7

\* What else CallFlow sees.
RestOfFlow == <<config_json_, now, cdr, call_queue_vars, crashed>>

FlowStep ==
    /\ ThreadsFit' /\ Places'
    /\ FlowProofs!FlowNext \/ UNCHANGED FlowProofs!flow_vars

LEMMA HiddenIsStutter ==
    ASSUME HiddenStep, UNCHANGED RestOfFlow
    PROVE  FlowStep
<1>1. [d \in Calls |-> FlowOf(d)]' = [d \in Calls |-> FlowOf(d)]
  BY FlowAfter DEF HiddenStep
<1>2. UNCHANGED <<config_json_, now, cdr, call_queue_vars, crashed>>
  BY DEF RestOfFlow
<1>3. UNCHANGED FlowProofs!flow_vars
  BY <1>1, <1>2 DEF FlowProofs!flow_vars, FlowProofs!call_queue_vars, call_queue_vars
<1> QED BY <1>3 DEF HiddenStep, FlowStep

\* The stage that CallFlow sees a call in, and the move that it sees.
LEMMA MoveIsSeen ==
    ASSUME NEW c \in Calls, NEW s, MovesTo(c, s)
    PROVE  /\ [d \in Calls |-> FlowOf(d)]' = [[d \in Calls |-> FlowOf(d)] EXCEPT ![c] = s]
           /\ [d \in Calls |-> FlowOf(d)][c] = StageIn(thread, finish_tasks, cdr[c], c)
BY FlowAfter, FlowIsStage DEF MovesTo

\* PushCall ...
LEMMA PushCallStep ==
    ASSUME FlowPart, NEW t \in Threads, NEW c \in Calls, NEW phone \in Phones,
           PushCall(t, c, phone)
    PROVE  FlowStep
<1>1. MovesTo(c, "arrived") /\ StageIn(thread, finish_tasks, cdr[c], c) = "unborn"
  BY PushCallMoves
<1>2. FlowProofs!Arrive(c, phone)
  BY <1>1, MoveIsSeen, SameOperations DEF PushCall, Running, FlowProofs!Arrive,
         ended, FlowProofs!call_queue_vars, call_queue_vars
<1> QED BY <1>1, <1>2 DEF MovesTo, FlowStep, FlowProofs!FlowNext

\* ... StartCallProcessing, past the queue or for the call just popped ...
LEMMA StartStep ==
    ASSUME FlowPart, NEW t \in Threads, InsertForCall(t) \/ StartPoppedCall(t)
    PROVE  FlowStep
<1> DEFINE c == thread[t].call
           op == thread[t].op
<1>1. /\ thread[t].at \in {"InsertForCall", "InsertPopped"}
      /\ StartCallProcessing(t, c, op)
      /\ UNCHANGED <<in_receipt_order_, in_timout_point_order_>>
  BY DEF InsertForCall, StartPoppedCall, InsertToProcessing, indexes
<1>2. ThreadsFit /\ Places
  BY DEF FlowPart
<1>3. c \in Calls /\ op \in OperatorIds
  BY <1>1, <1>2, ThreadType DEF CallLabels, ArrivedLabels, OperatorLabels, TakenLabels
<1>4. MovesTo(c, "inService")
  BY <1>1, StartMoves
<1>5. /\ thread[t].at = "InsertForCall" => [d \in Calls |-> FlowOf(d)][c] = "arrived"
      /\ thread[t].at = "InsertPopped" => [d \in Calls |-> FlowOf(d)][c] = "popped"
  BY <1>1, <1>2, <1>3, <1>4, MoveIsSeen, CarriedFacts DEF CallLabels, ArrivedLabels
<1>6. FlowProofs!Start(c, op) /\ UNCHANGED <<config_json_, now>>
  BY <1>1, <1>3, <1>4, MoveIsSeen, SameOperations
     DEF StartCallProcessing, Asserting, FlowProofs!Start, FlowProofs!Asserting
<1>7. ~crashed
  BY DEF InsertForCall, StartPoppedCall, Running
<1>8. FlowProofs!Bypass(c, op) \/ FlowProofs!StartPopped(c, op)
  <2>1. CASE InsertForCall(t)
    BY <2>1, <1>5, <1>6, <1>7, SameOperations DEF InsertForCall, FlowProofs!Bypass
  <2>2. CASE StartPoppedCall(t)
    BY <2>2, <1>5, <1>6, <1>7, SameOperations DEF StartPoppedCall, FlowProofs!StartPopped
  <2> QED BY <2>1, <2>2
<1> QED BY <1>3, <1>4, <1>8 DEF MovesTo, FlowStep, FlowProofs!FlowNext

\* ... PushToQueue with either result ...
LEMMA PushStep ==
    ASSUME FlowPart, NEW t \in Threads, PushCallToQueue(t) \/ PushCallRejected(t)
    PROVE  FlowStep
<1> DEFINE c == thread[t].call
<1>1. /\ thread[t].at \in ArrivedLabels /\ thread[t].at \in CallLabels /\ ~crashed
      /\ ThreadsFit /\ Places
  BY DEF PushCallToQueue, PushCallRejected, ArrivedLabels, CallLabels, Running, FlowPart
<1>2. c \in Calls /\ StageIn(thread, finish_tasks, cdr[c], c) = "arrived"
  BY <1>1, CarriedFacts
<1>3. CASE PushCallToQueue(t)
  <2>1. MovesTo(c, "queued")
    BY <1>3, PushMoves
  <2>2. FlowProofs!Push(c)
    BY <1>1, <1>2, <1>3, <2>1, MoveIsSeen, SameOperations
       DEF PushCallToQueue, FlowProofs!Push, ended
  <2> QED BY <1>2, <2>1, <2>2 DEF MovesTo, FlowStep, FlowProofs!FlowNext
<1>4. CASE PushCallRejected(t)
  <2>1. MovesTo(c, "gone")
    BY <1>4, PushMoves
  <2>2. PICK reason \in {"kAlreadyInQueue", "kOverload"} :
           PushToQueue(c, reason) /\ RejectCall(c, reason)
    BY <1>4 DEF PushCallRejected
  <2>3. FlowProofs!PushToQueue(c, reason) /\ FlowProofs!Complete(c, reason, "gone")
    BY <1>2, <2>1, <2>2, MoveIsSeen, SameOperations
       DEF RejectCall, Asserting, FlowProofs!Complete, FlowProofs!Asserting
  <2>4. FlowProofs!Refuse(c)
    BY <1>1, <1>2, <1>4, <2>1, <2>3, MoveIsSeen DEF PushCallRejected, FlowProofs!Refuse
  <2> QED BY <1>2, <2>1, <2>4 DEF MovesTo, FlowStep, FlowProofs!FlowNext
<1> QED BY <1>3, <1>4

\* ... the operations of an iteration that take a call out ...
LEMMA TakeOutStep ==
    ASSUME FlowPart, NEW t \in Threads, NEW c \in Calls,
           RejectTimeoutCall(t, c) \/ PopCall(t, c)
    PROVE  FlowStep
<1>1. ~crashed
  BY DEF RejectTimeoutCall, PopCall, Running
<1>2. CASE RejectTimeoutCall(t, c)
  <2> DEFINE s == StageIn(thread, finish_tasks, cdr[c], c)
             s2 == IF s = "queued" THEN "gone" ELSE s
  <2>1. MovesTo(c, s2)
    BY <1>2, RejectMoves
  <2>2. [d \in Calls |-> FlowOf(d)][c] = s
    BY <2>1, MoveIsSeen
  <2>3. FlowProofs!Complete(c, "kTimeout", s2)
    BY <1>2, <2>1, MoveIsSeen, SameOperations
       DEF RejectTimeoutCall, RejectCall, Asserting, FlowProofs!Complete, FlowProofs!Asserting
  <2>4. FlowProofs!RejectTimeout(c)
    BY <1>1, <1>2, <2>2, <2>3, SameOperations DEF RejectTimeoutCall, FlowProofs!RejectTimeout
  <2> QED BY <2>1, <2>4 DEF MovesTo, FlowStep, FlowProofs!FlowNext
<1>3. CASE PopCall(t, c)
  <2>1. MovesTo(c, "popped")
    BY <1>3, PopMoves
  <2>2. FlowProofs!Pop(c)
    BY <1>1, <1>3, <2>1, MoveIsSeen, SameOperations DEF PopCall, FlowProofs!Pop, ended
  <2> QED BY <2>1, <2>2 DEF MovesTo, FlowStep, FlowProofs!FlowNext
<1> QED BY <1>2, <1>3

\* ... and FinishCallProcessing.
LEMMA FinishStep ==
    ASSUME FlowPart, NEW t \in Threads,
           \/ \E task \in finish_tasks : FinishCallProcessing(t, task)
           \/ EraseFinishedFromProcessing(t)
    PROVE  FlowStep
<1>1. ASSUME NEW task \in finish_tasks, FinishCallProcessing(t, task) PROVE FlowStep
  <2>1. /\ task.call \in Calls
        /\ StageIn(thread, finish_tasks, cdr[task.call], task.call) = "inService"
        /\ MovesTo(task.call, "answered")
    BY <1>1, FinishMoves
  <2>2. FlowProofs!Complete(task.call, "kOk", "answered")
    BY <1>1, <2>1, MoveIsSeen, SameOperations
       DEF FinishCallProcessing, Asserting, FlowProofs!Complete, FlowProofs!Asserting
  <2>3. FlowProofs!Answer(task.call)
    BY <1>1, <2>1, <2>2, MoveIsSeen, SameOperations
       DEF FinishCallProcessing, Running, FlowProofs!Answer,
           FlowProofs!call_queue_vars, call_queue_vars
  <2> QED BY <2>1, <2>3 DEF MovesTo, FlowStep, FlowProofs!FlowNext
<1>2. CASE EraseFinishedFromProcessing(t)
  <2> DEFINE c == thread[t].call
  <2>1. /\ c \in Calls
        /\ StageIn(thread, finish_tasks, cdr[c], c) = "answered"
        /\ MovesTo(c, "gone")
    BY <1>2, LeaveMoves
  <2>2. FlowProofs!Leave(c)
    BY <1>2, <2>1, MoveIsSeen, SameOperations
       DEF EraseFinishedFromProcessing, Running, FlowProofs!Leave, ended
  <2> QED BY <2>1, <2>2 DEF MovesTo, FlowStep, FlowProofs!FlowNext
<1> QED BY <1>1, <1>2

\* The steps that are not those of one call.
LEMMA OtherStep ==
    ASSUME FlowPart,
           PassTime \/ ChangeConfig \/ (\E t \in Threads : InvalidBegin(t)) \/ UNCHANGED vars
    PROVE  FlowStep
<1>1. /\ ThreadsFit /\ Places
      /\ UNCHANGED <<thread, finish_tasks, cdr, in_receipt_order_, in_timout_point_order_>>
  BY DEF FlowPart, PassTime, ChangeConfig, InvalidBegin, vars, center_vars, call_queue_vars
<1>2. HiddenStep
  BY <1>1, EnvironmentHidden
<1>3. [d \in Calls |-> FlowOf(d)]' = [d \in Calls |-> FlowOf(d)]
  BY <1>2, FlowAfter DEF HiddenStep
<1>4. CASE PassTime
  <2>1. FlowProofs!PassTime
    BY <1>3, <1>4, SameOperations DEF PassTime, Running, FlowProofs!PassTime, ended,
           FlowProofs!call_queue_vars, call_queue_vars
  <2> QED BY <1>2, <2>1 DEF HiddenStep, FlowStep, FlowProofs!FlowNext
<1>5. CASE ChangeConfig
  <2>1. FlowProofs!ChangeConfiguration
    BY <1>3, <1>5, SameOperations
       DEF ChangeConfig, Running, FlowProofs!ChangeConfiguration, ended,
           FlowProofs!call_queue_vars, call_queue_vars
  <2> QED BY <1>2, <2>1 DEF HiddenStep, FlowStep, FlowProofs!FlowNext
<1>6. ASSUME NEW t \in Threads, InvalidBegin(t) PROVE FlowStep
  <2>1. FlowProofs!InvalidBegin
    BY <1>3, <1>6, SameOperations
       DEF InvalidBegin, Running, FlowProofs!InvalidBegin, center_vars,
           FlowProofs!call_queue_vars, call_queue_vars
  <2> QED BY <1>2, <2>1 DEF HiddenStep, FlowStep, FlowProofs!FlowNext
<1>7. CASE UNCHANGED vars
  <2>1. UNCHANGED RestOfFlow
    BY <1>7 DEF vars, center_vars, RestOfFlow, ended
  <2> QED BY <1>2, <2>1, HiddenIsStutter
<1> QED BY <1>4, <1>5, <1>6, <1>7

\* The operations of a thread that CallFlow does not see ...
HiddenOperation(t) ==
    \/ QueueIsEmptyForCall(t)
    \/ \E op \in OperatorIds \cup {NoOperator} : EraseFreeForCall(t, op)
    \/ InsertForCallRefused(t)
    \/ InsertFreeForCall(t)
    \/ CheckQueueIsEmpty(t)
    \/ NoTimeoutCall(t)
    \/ \E op \in OperatorIds \cup {NoOperator} : EraseFreeOperator(t, op)
    \/ PopCall(t, NoCall)
    \/ InsertUnusedOperator(t)
    \/ ScheduleCallProcessingIteration(t)
    \/ \E due \in 0 .. MaxTime : RunIteration(t, due)
    \/ InsertFinishedOperator(t) \/ AddFinishedRecord(t)

\* ... leave what it sees alone.
LEMMA ThreadOnlyStep ==
    ASSUME FlowPart, NEW t \in Threads, HiddenOperation(t)
    PROVE  FlowStep
<1> USE DEF HiddenOperation
<1>1. ThreadsFit /\ Places /\ in_receipt_order_ \in SUBSET Calls
  BY BaseFacts DEF FlowPart
<1>2. HiddenStep
  BY <1>1, NewCallHidden, IterationHidden, FinishedHidden
<1>3. UNCHANGED RestOfFlow
  <2> USE DEF RestOfFlow, ended
  <2>1. CASE InsertForCallRefused(t)
    BY <2>1 DEF InsertForCallRefused, InsertToProcessing, call_queue_vars, indexes
  <2>2. CASE NoTimeoutCall(t)
    <3>1. EraseTimeoutCallFromQueue(NoCall)
      BY <2>2 DEF NoTimeoutCall
    <3>2. UNCHANGED call_queue_vars
      BY <3>1 DEF EraseTimeoutCallFromQueue, call_queue_vars, indexes
    <3> QED BY <2>2, <3>2 DEF NoTimeoutCall
  <2>3. CASE PopCall(t, NoCall)
    <3>1. NoCall \notin First(in_receipt_order_, ReceiptOrder)
      BY <1>1, RecordAssumption DEF First
    <3> QED BY <2>3, <3>1 DEF PopCall, PopFromQueue, indexes, call_queue_vars
  <2>4. CASE \/ QueueIsEmptyForCall(t)
             \/ \E op \in OperatorIds \cup {NoOperator} : EraseFreeForCall(t, op)
             \/ InsertFreeForCall(t) \/ CheckQueueIsEmpty(t)
             \/ \E op \in OperatorIds \cup {NoOperator} : EraseFreeOperator(t, op)
             \/ InsertUnusedOperator(t) \/ ScheduleCallProcessingIteration(t)
             \/ \E due \in 0 .. MaxTime : RunIteration(t, due)
             \/ InsertFinishedOperator(t) \/ AddFinishedRecord(t)
    BY <2>4 DEF QueueIsEmptyForCall, EraseFreeForCall, InsertFreeForCall, CheckQueueIsEmpty,
                EraseFreeOperator, InsertUnusedOperator, ScheduleCallProcessingIteration,
                RunIteration, InsertFinishedOperator, AddFinishedRecord
  <2> QED BY <2>1, <2>2, <2>3, <2>4
<1> QED BY <1>2, <1>3, HiddenIsStutter

\* All together.
LEMMA NextIsFlowStep == FlowPart /\ [Next]_vars => FlowStep
<1> SUFFICES ASSUME FlowPart, [Next]_vars PROVE FlowStep
  OBVIOUS
<1>1. ASSUME NEW t \in Threads, Continue(t) PROVE FlowStep
  <2>1. ASSUME NEW call \in Calls \cup {NoCall}, PopCall(t, call) PROVE FlowStep
    BY <2>1, TakeOutStep, ThreadOnlyStep DEF HiddenOperation
  <2> QED BY <1>1, <2>1, ThreadOnlyStep, StartStep, PushStep, TakeOutStep, FinishStep, OtherStep
          DEF Continue, HiddenOperation
<1>2. ASSUME NEW t \in UserThreads, RunTask(t) PROVE FlowStep
  BY <1>2, ThreadOnlyStep, FinishStep DEF RunTask, Threads, HiddenOperation
<1>3. ASSUME NEW t \in IoThreads, NEW call \in Calls, NEW phone \in Phones,
             PushCall(t, call, phone)
      PROVE  FlowStep
  BY <1>3, PushCallStep DEF Threads
<1>4. CASE PassTime \/ ChangeConfig \/ Rest \/ UNCHANGED vars
  BY <1>4, OtherStep DEF Rest
<1> QED BY <1>1, <1>2, <1>3, <1>4 DEF Next

-----------------------------------------------------------------------------
(* CallCenter implements CallFlow.                                         *)

\* What CallFlow assumes of its constants.
LEMMA FlowConstants ==
    /\ FlowProofs!ConfigurationAssumption
    /\ FlowProofs!ServerAssumption
    /\ FlowProofs!RecordAssumption
    /\ FlowProofs!FlowAssumption
<1>1. FlowProofs!ConfigurationAssumption
  BY ConfigurationAssumption DEF FlowProofs!Missing, Missing
<1>2. FlowProofs!ServerAssumption
  BY ServerAssumption
<1>3. FlowProofs!RecordAssumption
  BY RecordAssumption
<1>4. FlowProofs!FlowAssumption
  <2>1. PICK w \in MaxWaits : w \in Nat
    BY ConfigurationAssumption
  <2>2. MaxArrivalTime \in 0 .. MaxTime
    BY <2>1, RecordAssumption, CallCenterAssumption
  <2>3. FlowProofs!IsFiniteSet(Calls)
    BY CallCenterAssumption DEF FlowProofs!IsFiniteSet, IsFiniteSet
  <2> QED BY <2>2, <2>3, CallCenterAssumption
<1> QED BY <1>1, <1>2, <1>3, <1>4

\* No call is anywhere when the process starts.
LEMMA InitIsFlowInit == Init => FlowProofs!FlowInit /\ FlowPart
<1> SUFFICES ASSUME Init PROVE FlowProofs!FlowInit /\ FlowPart
  OBVIOUS
<1>1. /\ cdr = [c \in Calls |-> Unborn] /\ thread = [t \in Threads |-> Idle]
      /\ finish_tasks = {} /\ in_receipt_order_ = {} /\ in_timout_point_order_ = {}
  BY DEF Init, RecordsInit, CallQueueInit
<1>2. ASSUME NEW c \in Calls PROVE FlowOf(c) = "unborn"
  BY <1>1 DEF FlowOf, WasArrived, Unborn
<1>3. FlowProofs!FlowInit
  <2>1. [c \in Calls |-> FlowOf(c)] = [c \in Calls |-> "unborn"]
    BY <1>2
  <2>2. FlowProofs!ConfigInit /\ FlowProofs!RecordsInit /\ FlowProofs!CallQueueInit(DefaultCapacity)
    BY DEF Init, ConfigInit, FlowProofs!ConfigInit, RecordsInit, FlowProofs!RecordsInit,
           CallQueueInit, FlowProofs!CallQueueInit, UpdateCapacity,
           FlowProofs!UpdateCapacity, GetProperty, FlowProofs!GetProperty, Missing,
           FlowProofs!Missing, Unborn, FlowProofs!Unborn, NoTime,
           FlowProofs!NoTime, NoPhone, FlowProofs!NoPhone, NoStatus,
           FlowProofs!NoStatus, Configurations, FlowProofs!Configurations
  <2> QED BY <2>1, <2>2 DEF Init, FlowProofs!FlowInit
<1>4. ThreadsFit
  <2>1. Idle \in ThreadStates
    BY EmptyHanded DEF Idle
  <2> QED BY <1>1, <2>1 DEF ThreadsFit, ThreadMaps, TaskSets
<1>5. Places
  BY <1>1, RecordAssumption
     DEF Places, Placed, OneHolder, HeldAreOutside, Held, NewAreInSystem, FinishedAreFinished,
         Idle, ArrivedLabels, FinishedLabels
<1>6. FlowProofs!FlowBase
  BY <1>3, FlowConstants, FlowProofs!FlowInitInv
<1> QED BY <1>3, <1>4, <1>5, <1>6 DEF FlowPart

\* The two instances of CallFlow are one.
LEMMA SameFlow ==
    /\ FlowProofs!FlowInit <=> Flow!FlowInit
    /\ FlowProofs!FlowNext <=> Flow!FlowNext
    /\ UNCHANGED FlowProofs!flow_vars <=> UNCHANGED Flow!flow_vars
BY DEF Flow!FlowInit, FlowProofs!FlowInit, Flow!FlowNext, FlowProofs!FlowNext,
       Flow!flow_vars, FlowProofs!flow_vars, Flow!ConfigInit,
       FlowProofs!ConfigInit, Flow!RecordsInit, FlowProofs!RecordsInit,
       Flow!CallQueueInit, FlowProofs!CallQueueInit, Flow!Arrive,
       FlowProofs!Arrive, Flow!SetArrivalTime, FlowProofs!SetArrivalTime,
       Flow!NewRecord, FlowProofs!NewRecord, Flow!ReadMaxWait,
       FlowProofs!ReadMaxWait, Flow!Push, FlowProofs!Push, Flow!Refuse,
       FlowProofs!Refuse, Flow!RejectTimeout, FlowProofs!RejectTimeout, Flow!Pop,
       FlowProofs!Pop, Flow!Answer, FlowProofs!Answer, Flow!Leave,
       FlowProofs!Leave, Flow!Bypass, FlowProofs!Bypass, Flow!StartPopped,
       FlowProofs!StartPopped, Flow!InvalidBegin, FlowProofs!InvalidBegin,
       Flow!PassTime, FlowProofs!PassTime, Flow!ChangeConfiguration,
       FlowProofs!ChangeConfiguration, Flow!Rest, FlowProofs!Rest, Flow!Start,
       FlowProofs!Start, Flow!Complete, FlowProofs!Complete, Flow!Asserting,
       FlowProofs!Asserting, Flow!PushToQueue, FlowProofs!PushToQueue,
       Flow!PopFromQueue, FlowProofs!PopFromQueue, Flow!EraseTimeoutCallFromQueue,
       FlowProofs!EraseTimeoutCallFromQueue, Flow!EraseFromQueue,
       FlowProofs!EraseFromQueue, Flow!EraseCallFromMultiset,
       FlowProofs!EraseCallFromMultiset, Flow!EraseFromProcessing,
       FlowProofs!EraseFromProcessing, Flow!InsertToProcessing,
       FlowProofs!InsertToProcessing, Flow!InsertToQueue, FlowProofs!InsertToQueue,
       Flow!Contains, FlowProofs!Contains, Flow!MultisetContainsCall,
       FlowProofs!MultisetContainsCall, Flow!Matching, FlowProofs!Matching,
       Flow!First, FlowProofs!First, Flow!BeginIsValid, FlowProofs!BeginIsValid,
       Flow!GetMinTimeoutCallInQueue, FlowProofs!GetMinTimeoutCallInQueue,
       Flow!UpdateCapacity, FlowProofs!UpdateCapacity, Flow!GetProperty,
       FlowProofs!GetProperty, Flow!Missing, FlowProofs!Missing, Flow!At,
       FlowProofs!At, Flow!call_queue_vars, FlowProofs!call_queue_vars,
       Flow!indexes, FlowProofs!indexes, Flow!QueueIsEmpty,
       FlowProofs!QueueIsEmpty, Flow!ReceiptOrder, FlowProofs!ReceiptOrder,
       Flow!TimeoutPointOrder, FlowProofs!TimeoutPointOrder, Flow!CallEquals,
       FlowProofs!CallEquals, Flow!IsTimeout, FlowProofs!IsTimeout,
       Flow!WasArrived, FlowProofs!WasArrived, Flow!WasFinished,
       FlowProofs!WasFinished, Flow!InSystem, FlowProofs!InSystem,
       Flow!StartService, FlowProofs!StartService, Flow!CompleteService,
       FlowProofs!CompleteService, Flow!Tick, FlowProofs!Tick,
       Flow!UpdateConfiguration, FlowProofs!UpdateConfiguration,
       Flow!Configurations, FlowProofs!Configurations, Flow!NoTime,
       FlowProofs!NoTime, Flow!NoStatus, FlowProofs!NoStatus, Flow!NoPhone,
       FlowProofs!NoPhone, Flow!Unborn, FlowProofs!Unborn, Flow!Max,
       FlowProofs!Max, Flow!Cardinality, FlowProofs!Cardinality

LEMMA FlowPartStays == FlowPart /\ [Next]_vars =>
    FlowPart' /\ [FlowProofs!FlowNext]_(FlowProofs!flow_vars)
<1> SUFFICES ASSUME FlowPart, [Next]_vars
             PROVE  FlowPart' /\ [FlowProofs!FlowNext]_(FlowProofs!flow_vars)
  OBVIOUS
<1>1. ThreadsFit' /\ Places' /\ [FlowProofs!FlowNext]_(FlowProofs!flow_vars)
  BY NextIsFlowStep DEF FlowStep
<1>2. FlowProofs!FlowBase
  BY DEF FlowPart
<1>3. FlowProofs!FlowBase'
  BY <1>1, <1>2, FlowConstants, FlowProofs!FlowNextBase
<1> QED BY <1>1, <1>3 DEF FlowPart

\* Every call is in one place: with one thread, with one finish task, in the
\* queue, not yet there or gone.
THEOREM EveryCallHasItsPlace == Spec => []FlowPart
BY InitIsFlowInit, FlowPartStays, PTL DEF Spec

\* However the threads interleave and whatever the file says, what CallCenter
\* does to the queue and to the records is a behaviour of CallFlow.
THEOREM CallFlowRefinement == Spec => ImplementsCallFlow
<1>1. Init => Flow!FlowInit
  BY InitIsFlowInit, SameFlow
<1>2. FlowPart /\ [Next]_vars => [Flow!FlowNext]_(Flow!flow_vars)
  BY FlowPartStays, SameFlow
<1> QED BY <1>1, <1>2, EveryCallHasItsPlace, PTL DEF Spec, ImplementsCallFlow, Flow!FlowSpec

-----------------------------------------------------------------------------
(* What CallCenter has from CallFlow.                                      *)

\* What is proved of CallFlow, for the calls where CallCenter has them.
FlowGood ==
    /\ FlowPart
    /\ FlowProofs!Twins \/ (FlowProofs!FlowInv /\ FlowProofs!RecordsFit)

LEMMA FlowIsImplemented == Spec => FlowProofs!FlowSpec
<1>1. Init => FlowProofs!FlowInit
  BY InitIsFlowInit
<1>2. FlowPart /\ [Next]_vars => [FlowProofs!FlowNext]_(FlowProofs!flow_vars)
  BY FlowPartStays
<1> QED BY <1>1, <1>2, EveryCallHasItsPlace, PTL DEF Spec, FlowProofs!FlowSpec

LEMMA FlowGoodAlways == Spec => []FlowGood
<1>1. FlowProofs!FlowSpec => [](FlowProofs!FlowBase /\ (FlowProofs!Twins \/ FlowProofs!FlowInv))
  BY FlowConstants, FlowProofs!FlowInvariant
<1>2. FlowProofs!FlowSpec => [](FlowProofs!Twins \/ FlowProofs!RecordsFit)
  BY FlowConstants, FlowProofs!RecordsTheorem
<1>3. /\ FlowPart
      /\ FlowProofs!FlowBase /\ (FlowProofs!Twins \/ FlowProofs!FlowInv)
      /\ FlowProofs!Twins \/ FlowProofs!RecordsFit
      => FlowGood
  BY DEF FlowGood
<1> QED BY <1>1, <1>2, <1>3, FlowIsImplemented, EveryCallHasItsPlace, PTL

LEMMA SameTwins == Flow!Twins <=> FlowProofs!Twins
BY DEF Flow!Twins, FlowProofs!Twins, Flow!WasArrived, FlowProofs!WasArrived, Flow!CallEquals,
       FlowProofs!CallEquals, Flow!NoTime, FlowProofs!NoTime

\* What the stage of a call says of its record and of the queue.
LEMMA GoodFacts ==
    ASSUME FlowGood, ~Flow!Twins
    PROVE  /\ ~crashed
           /\ in_receipt_order_ = {c \in Calls : FlowOf(c) = "queued"}
           /\ in_timout_point_order_ = {c \in Calls : FlowOf(c) = "queued"}
           /\ \A c \in Calls :
                 /\ FlowOf(c) # "unborn" => WasArrived(cdr[c])
                 /\ FlowOf(c) \in {"unborn", "arrived", "queued", "popped", "inService"} =>
                       ~WasFinished(cdr[c])
                 /\ FlowOf(c) \in {"answered", "gone"} =>
                       /\ WasFinished(cdr[c])
                       /\ WasServiced(cdr[c]) <=> cdr[c].operator_id_ # NoOperator
<1>1. FlowProofs!FlowInv /\ FlowProofs!RecordsFit
  BY SameTwins DEF FlowGood
<1>2. /\ ~crashed
      /\ in_receipt_order_ = {c \in Calls : FlowOf(c) = "queued"}
      /\ in_timout_point_order_ = {c \in Calls : FlowOf(c) = "queued"}
  BY <1>1 DEF FlowProofs!FlowInv, FlowProofs!FlowNeverCrashes, FlowProofs!IndexesAgree,
              FlowProofs!At
<1>3. ASSUME NEW c \in Calls
      PROVE  /\ FlowOf(c) # "unborn" => WasArrived(cdr[c])
             /\ FlowOf(c) \in {"unborn", "arrived", "queued", "popped", "inService"} =>
                   ~WasFinished(cdr[c])
             /\ FlowOf(c) \in {"answered", "gone"} =>
                   /\ WasFinished(cdr[c])
                   /\ WasServiced(cdr[c]) <=> cdr[c].operator_id_ # NoOperator
  <2>1. FlowProofs!RecordFits(FlowOf(c), cdr[c])
    BY <1>1 DEF FlowProofs!RecordsFit
  <2> QED BY <2>1 DEF FlowProofs!RecordFits, FlowProofs!WasArrived, WasArrived,
                      FlowProofs!WasFinished, WasFinished, FlowProofs!WasServiced, WasServiced,
                      FlowProofs!NoTime, NoTime, FlowProofs!NoStatus, NoStatus
<1> QED BY <1>2, <1>3

LEMMA FlowIsAStage ==
    ASSUME NEW c \in Calls
    PROVE  FlowOf(c) \in {"unborn", "arrived", "queued", "popped", "inService", "answered", "gone"}
BY DEF FlowOf

\* No assertion about a call fails and no iterator is invalid, in any
\* interleaving of the threads, unless there were twins.
THEOREM NeverCrashesTheorem == Spec => [](Flow!Twins \/ NeverCrashes)
<1>1. FlowGood => Flow!Twins \/ NeverCrashes
  BY GoodFacts DEF NeverCrashes
<1> QED BY <1>1, FlowGoodAlways, PTL

\* A call that got an operator is served to the end and no other is, unless
\* there were twins.
THEOREM ServedOrRejectedTheorem == Spec => [](Flow!Twins \/ ServedOrRejected)
<1>1. FlowGood => Flow!Twins \/ ServedOrRejected
  BY GoodFacts, FlowIsAStage DEF ServedOrRejected
<1> QED BY <1>1, FlowGoodAlways, PTL

\* There are no twins as long as the file never changes "call_max_wait", so
\* that none of these theorems then has an exception.
THEOREM OneWaitTheorem ==
    ASSUME \A v, w \in MaxWaits : v = w
    PROVE  Spec => []~Flow!Twins
<1>1. FlowProofs!FlowSpec => []~FlowProofs!Twins
  BY FlowConstants, FlowProofs!NoTwinsTheorem
<1>2. ~FlowProofs!Twins => ~Flow!Twins
  BY SameTwins
<1> QED BY <1>1, <1>2, FlowIsImplemented, PTL

-----------------------------------------------------------------------------
(* The journal.                                                            *)

\* A finished call is in the journal unless its thread is still on the way
\* to AddRecord.
Pending(th, c) == \E t \in Threads : th[t].call = c /\ th[t].at \in FinishedLabels

JournalFits ==
    /\ journal \in [Calls -> Nat]
    /\ \A c \in Calls : journal[c] = IF WasFinished(cdr[c]) /\ ~Pending(thread, c) THEN 1 ELSE 0

\* A thread moves on with no call finished and none recorded ...
Unrecorded(t, x) ==
    /\ GoesTo(thread, thread', t, x)
    /\ UNCHANGED journal
    /\ \A d \in Calls : WasFinished(cdr'[d]) <=> WasFinished(cdr[d])
    /\ \/ thread[t].at \notin FinishedLabels /\ x.at \notin FinishedLabels
       \/ /\ thread[t].at \in FinishedLabels /\ x.at \in FinishedLabels
          /\ x.call = thread[t].call

LEMMA UnrecordedFits ==
    ASSUME ThreadsFit, JournalFits, NEW t \in Threads, NEW x, Unrecorded(t, x)
    PROVE  JournalFits'
<1>1. \A u \in Threads : thread'[u] = IF u = t THEN x ELSE thread[u]
  BY DEF Unrecorded, GoesTo, ThreadsFit, ThreadMaps
<1>2. \A c : Pending(thread', c) <=> Pending(thread, c)
  BY <1>1 DEF Pending, Unrecorded
<1> QED BY <1>2 DEF JournalFits, Unrecorded

\* ... or the one call c gets its record.
LEMMA RecordedFits ==
    ASSUME JournalFits, NEW c \in Calls, AddRecord(c),
           \A d \in Calls \ {c} :
              /\ WasFinished(cdr'[d]) <=> WasFinished(cdr[d])
              /\ Pending(thread', d) <=> Pending(thread, d),
           ~WasFinished(cdr[c]) \/ Pending(thread, c),
           WasFinished(cdr'[c]), ~Pending(thread', c)
    PROVE  JournalFits'
<1>1. /\ journal' \in [Calls -> Nat] /\ journal'[c] = journal[c] + 1
      /\ \A d \in Calls \ {c} : journal'[d] = journal[d]
  BY DEF AddRecord, JournalFits
<1>2. journal[c] = 0
  BY DEF JournalFits
<1>3. journal'[c] = 1
  BY <1>1, <1>2
<1> QED BY <1>1, <1>3 DEF JournalFits

\* The operations that finish and record no call.
LEMMA JournalUntouched ==
    ASSUME FlowPart, JournalFits, NEW t \in Threads, NEW x,
           thread' = [thread EXCEPT ![t] = x], UNCHANGED <<journal, cdr>>,
           \/ thread[t].at \notin FinishedLabels /\ x.at \notin FinishedLabels
           \/ /\ thread[t].at \in FinishedLabels /\ x.at \in FinishedLabels
              /\ x.call = thread[t].call
    PROVE  JournalFits'
<1>1. ThreadsFit
  BY DEF FlowPart
<1>2. Unrecorded(t, x)
  BY DEF Unrecorded, GoesTo
<1> QED BY <1>1, <1>2, UnrecordedFits

LEMMA ThreadOnlyJournal ==
    ASSUME FlowPart, JournalFits, NEW t \in Threads,
           \/ QueueIsEmptyForCall(t)
           \/ \E op \in OperatorIds \cup {NoOperator} :
                 EraseFreeForCall(t, op) \/ EraseFreeOperator(t, op)
           \/ InsertForCallRefused(t) \/ InsertFreeForCall(t) \/ PushCallToQueue(t)
           \/ CheckQueueIsEmpty(t) \/ NoTimeoutCall(t)
           \/ \E call \in Calls \cup {NoCall} : PopCall(t, call)
           \/ InsertUnusedOperator(t) \/ ScheduleCallProcessingIteration(t)
           \/ \E due \in 0 .. MaxTime : RunIteration(t, due)
           \/ EraseFinishedFromProcessing(t) \/ InsertFinishedOperator(t)
    PROVE  JournalFits'
<1> USE DEF Goto, FinishedLabels
<1>1. CASE QueueIsEmptyForCall(t)
  BY <1>1, JournalUntouched DEF QueueIsEmptyForCall
<1>2. ASSUME NEW op \in OperatorIds \cup {NoOperator},
             EraseFreeForCall(t, op) \/ EraseFreeOperator(t, op)
      PROVE  JournalFits'
  BY <1>2, JournalUntouched DEF EraseFreeForCall, EraseFreeOperator
<1>3. CASE InsertForCallRefused(t) \/ InsertFreeForCall(t) \/ PushCallToQueue(t)
  BY <1>3, JournalUntouched DEF InsertForCallRefused, InsertFreeForCall, PushCallToQueue
<1>4. CASE CheckQueueIsEmpty(t) \/ NoTimeoutCall(t)
  BY <1>4, JournalUntouched DEF CheckQueueIsEmpty, NoTimeoutCall
<1>5. ASSUME NEW call \in Calls \cup {NoCall}, PopCall(t, call) PROVE JournalFits'
  BY <1>5, JournalUntouched DEF PopCall
<1>6. CASE InsertUnusedOperator(t) \/ ScheduleCallProcessingIteration(t)
  BY <1>6, JournalUntouched DEF InsertUnusedOperator, ScheduleCallProcessingIteration
<1>7. ASSUME NEW due \in 0 .. MaxTime, RunIteration(t, due) PROVE JournalFits'
  <2> DEFINE x == [at |-> "QueueIsEmpty", call |-> NoCall, op |-> NoOperator]
  <2>1. thread[t].at \notin FinishedLabels /\ x.at \notin FinishedLabels
    BY <1>7 DEF RunIteration, Idle
  <2>2. thread' = [thread EXCEPT ![t] = x] /\ UNCHANGED <<journal, cdr>>
    BY <1>7 DEF RunIteration
  <2> QED BY <2>1, <2>2, JournalUntouched
<1>8. CASE EraseFinishedFromProcessing(t) \/ InsertFinishedOperator(t)
  BY <1>8, JournalUntouched DEF EraseFinishedFromProcessing, InsertFinishedOperator
<1> QED BY <1>1, <1>2, <1>3, <1>4, <1>5, <1>6, <1>7, <1>8

\* PushCall and StartCallProcessing change a record, not its status.
LEMMA StartJournal ==
    ASSUME FlowPart, JournalFits, NEW t \in Threads,
           \/ \E c \in Calls, phone \in Phones : PushCall(t, c, phone)
           \/ InsertForCall(t) \/ StartPoppedCall(t)
    PROVE  JournalFits'
<1>1. ThreadsFit /\ Places /\ cdr \in [Calls -> Records]
  BY BaseFacts DEF FlowPart
<1>2. ASSUME NEW c \in Calls, NEW phone \in Phones, PushCall(t, c, phone) PROVE JournalFits'
  <2> DEFINE r == SetArrivalTime(NewRecord(phone))
             x == [at |-> "QueueIsEmptyForCall", call |-> c, op |-> NoOperator]
  <2>1. /\ thread[t] = Idle /\ ~WasArrived(cdr[c]) /\ UNCHANGED journal
        /\ cdr' = [cdr EXCEPT ![c] = r] /\ GoesTo(thread, thread', t, x)
    BY <1>2 DEF PushCall, Goto, GoesTo
  <2>2. ~WasFinished(cdr[c])
    BY <2>1, BaseFacts DEF FlowPart, WasFinished, Unborn
  <2>3. ~WasFinished(r)
    BY DEF WasFinished, SetArrivalTime, NewRecord
  <2> HIDE DEF r
  <2>4. cdr'[c] = r /\ \A d \in Calls \ {c} : cdr'[d] = cdr[d]
    BY <1>1, <2>1, RecordChanges
  <2>5. Unrecorded(t, x)
    BY <2>1, <2>2, <2>3, <2>4 DEF Unrecorded, FinishedLabels, Idle
  <2> QED BY <1>1, <2>5, UnrecordedFits
<1>3. CASE InsertForCall(t) \/ StartPoppedCall(t)
  <2> DEFINE c == thread[t].call
             op == thread[t].op
             x == [at |-> "idle", call |-> NoCall, op |-> NoOperator]
  <2>1. /\ thread[t].at \in {"InsertForCall", "InsertPopped"} /\ UNCHANGED journal
        /\ cdr' = [cdr EXCEPT ![c] = StartService(cdr[c], op)] /\ GoesTo(thread, thread', t, x)
    BY <1>3 DEF InsertForCall, StartPoppedCall, StartCallProcessing, Goto, GoesTo
  <2>2. c \in Calls
    BY <1>1, <2>1, ThreadType DEF CallLabels, ArrivedLabels
  <2>3. cdr'[c] = StartService(cdr[c], op) /\ \A d \in Calls \ {c} : cdr'[d] = cdr[d]
    BY <1>1, <2>1, <2>2, RecordChanges
  <2>4. WasFinished(cdr'[c]) <=> WasFinished(cdr[c])
    BY <1>1, <2>2, <2>3, RecordFacts
  <2>5. Unrecorded(t, x)
    BY <2>1, <2>3, <2>4 DEF Unrecorded, FinishedLabels
  <2> QED BY <1>1, <2>5, UnrecordedFits
<1> QED BY <1>2, <1>3

\* RejectCall finishes the call and records it.
LEMMA RejectJournal ==
    ASSUME FlowPart, JournalFits, ~crashed', NEW t \in Threads,
           PushCallRejected(t) \/ \E c \in Calls : RejectTimeoutCall(t, c)
    PROVE  JournalFits'
<1>1. /\ ThreadsFit /\ Places /\ cdr \in [Calls -> Records]
      /\ thread \in [Threads -> ThreadStates]
  BY BaseFacts DEF FlowPart, ThreadsFit, ThreadMaps
<1>2. \A u \in Threads : thread[u].at \in FinishedLabels => WasFinished(cdr[thread[u].call])
  BY <1>1 DEF Places, Placed, FinishedAreFinished
<1>3. ASSUME NEW c \in Calls, NEW st \in CallStatus, RejectCall(c, st),
             \A d : Pending(thread', d) <=> Pending(thread, d)
      PROVE  JournalFits'
  <2>1. ~WasFinished(cdr[c]) /\ AddRecord(c)
        /\ cdr' = [cdr EXCEPT ![c] = CompleteService(cdr[c], st)]
    BY <1>3 DEF RejectCall, Asserting, InSystem
  <2>2. cdr'[c] = CompleteService(cdr[c], st) /\ \A d \in Calls \ {c} : cdr'[d] = cdr[d]
    BY <1>1, <2>1, RecordChanges
  <2>3. WasFinished(cdr'[c])
    BY <1>1, <2>2, RecordFacts
  <2>4. ~Pending(thread, c)
    BY <1>2, <2>1 DEF Pending
  <2> QED BY <1>3, <2>1, <2>2, <2>3, <2>4, RecordedFits
<1>4. ASSUME NEW c \in Calls, RejectTimeoutCall(t, c) PROVE JournalFits'
  <2>1. RejectCall(c, "kTimeout") /\ UNCHANGED thread
    BY <1>4 DEF RejectTimeoutCall
  <2> QED BY <1>3, <2>1 DEF CallStatus
<1>5. CASE PushCallRejected(t)
  <2>1. PICK st \in {"kAlreadyInQueue", "kOverload"} : RejectCall(thread[t].call, st)
    BY <1>5 DEF PushCallRejected
  <2>2. /\ thread[t].at = "PushToQueue"
        /\ thread' = [thread EXCEPT ![t] = [at |-> "idle", call |-> NoCall, op |-> NoOperator]]
    BY <1>5 DEF PushCallRejected, Goto
  <2>3. thread[t].call \in Calls
    BY <1>1, <2>2, ThreadType DEF CallLabels, ArrivedLabels
  <2>4. \A d : Pending(thread', d) <=> Pending(thread, d)
    BY <1>1, <2>2 DEF Pending, FinishedLabels
  <2> QED BY <1>3, <2>1, <2>3, <2>4 DEF CallStatus
<1> QED BY <1>4, <1>5

\* FinishCallProcessing finishes the call and records it later.
LEMMA FinishJournal ==
    ASSUME FlowPart, JournalFits, ~crashed', NEW t \in Threads,
           \/ \E task \in finish_tasks : FinishCallProcessing(t, task)
           \/ AddFinishedRecord(t)
    PROVE  JournalFits'
<1>1. /\ ThreadsFit /\ Places /\ cdr \in [Calls -> Records]
      /\ thread \in [Threads -> ThreadStates] /\ finish_tasks \in SUBSET Tasks
  BY BaseFacts DEF FlowPart, ThreadsFit, ThreadMaps, TaskSets
<1>2. ASSUME NEW task \in finish_tasks, FinishCallProcessing(t, task) PROVE JournalFits'
  <2> DEFINE c == task.call
             x == [at |-> "EraseFromProcessing", call |-> c, op |-> task.op]
  <2>1. /\ thread[t] = Idle /\ UNCHANGED journal /\ ~WasFinished(cdr[c])
        /\ cdr' = [cdr EXCEPT ![c] = CompleteService(cdr[c], "kOk")]
        /\ thread' = [thread EXCEPT ![t] = x]
    BY <1>2 DEF FinishCallProcessing, Asserting, InSystem, Goto
  <2>2. c \in Calls
    BY <1>1 DEF Tasks
  <2>3. \A d \in Calls \ {c} : cdr'[d] = cdr[d]
    BY <1>1, <2>1, <2>2, RecordChanges
  <2>4. /\ thread'[t] = x /\ \A u \in Threads \ {t} : thread'[u] = thread[u]
    BY <1>1, <2>1
  <2>5. x.call = c /\ x.at \in FinishedLabels /\ thread[t].at \notin FinishedLabels
    BY <2>1 DEF FinishedLabels, Idle
  <2> HIDE DEF x
  <2>6. Pending(thread', c) /\ \A d : d # c => (Pending(thread', d) <=> Pending(thread, d))
    BY <2>4, <2>5 DEF Pending
  <2> QED BY <2>1, <2>3, <2>6 DEF JournalFits
<1>3. CASE AddFinishedRecord(t)
  <2> DEFINE c == thread[t].call
  <2>1. PICK l \in {"idle", "QueueIsEmpty"} :
           thread' = [thread EXCEPT ![t] = [at |-> l, call |-> NoCall, op |-> NoOperator]]
    BY <1>3 DEF AddFinishedRecord, Goto
  <2>2. thread[t].at = "AddRecord" /\ thread[t].at \in FinishedLabels /\ AddRecord(c)
        /\ UNCHANGED cdr
    BY <1>3 DEF AddFinishedRecord, FinishedLabels
  <2>3. c \in Calls /\ WasFinished(cdr[c])
    BY <1>1, <2>2, ThreadType DEF CallLabels, Places, Placed, FinishedAreFinished
  <2>4. \A u \in Threads \ {t} : thread[u].call # c
    BY <1>1, <2>3 DEF Places, Placed, OneHolder
  <2>5. /\ thread'[t].call # c /\ thread'[t].at \notin FinishedLabels
        /\ \A u \in Threads \ {t} : thread'[u] = thread[u]
    BY <1>1, <2>1, <2>3, RecordAssumption DEF FinishedLabels
  <2>6. /\ Pending(thread, c) /\ ~Pending(thread', c)
        /\ \A d : d # c => (Pending(thread', d) <=> Pending(thread, d))
    BY <2>2, <2>4, <2>5 DEF Pending
  <2> QED BY <2>2, <2>3, <2>6, RecordedFits
<1> QED BY <1>2, <1>3

LEMMA JournalStep ==
    FlowPart /\ (crashed \/ JournalFits) /\ [Next]_vars => crashed' \/ JournalFits'
<1> SUFFICES ASSUME FlowPart, crashed \/ JournalFits, [Next]_vars, ~crashed' PROVE JournalFits'
  OBVIOUS
<1>1. CASE UNCHANGED vars
  BY <1>1 DEF vars, center_vars, ended, JournalFits
<1>2. CASE Next /\ ~ UNCHANGED vars
  <2>1. Running /\ JournalFits
    BY <1>2 DEF Next, Continue, RunTask, PushCall, QueueIsEmptyForCall, EraseFreeForCall,
        EraseFreeOperator, InsertForCall, InsertForCallRefused, InsertFreeForCall,
        PushCallToQueue, PushCallRejected, CheckQueueIsEmpty, RejectTimeoutCall, NoTimeoutCall,
        InvalidBegin, PopCall, InsertUnusedOperator, StartPoppedCall,
        ScheduleCallProcessingIteration, EraseFinishedFromProcessing, InsertFinishedOperator,
        AddFinishedRecord, RunIteration, FinishCallProcessing, PassTime, ChangeConfig, Rest,
        Running
  <2>2. ASSUME NEW t \in Threads, Continue(t) PROVE JournalFits'
    <3>1. CASE InvalidBegin(t)
      BY <3>1 DEF InvalidBegin
    <3> QED BY <2>1, <2>2, <3>1, ThreadOnlyJournal, StartJournal, RejectJournal, FinishJournal
            DEF Continue
  <2>3. ASSUME NEW t \in UserThreads, RunTask(t) PROVE JournalFits'
    BY <2>1, <2>3, ThreadOnlyJournal, FinishJournal DEF RunTask, Threads
  <2>4. ASSUME NEW t \in IoThreads, NEW call \in Calls, NEW phone \in Phones,
               PushCall(t, call, phone)
        PROVE  JournalFits'
    BY <2>1, <2>4, StartJournal DEF Threads
  <2>5. CASE PassTime \/ ChangeConfig
    BY <2>1, <2>5 DEF PassTime, ChangeConfig, JournalFits
  <2> QED BY <1>2, <2>2, <2>3, <2>4, <2>5 DEF Next, Rest
<1> QED BY <1>1, <1>2

\* The journal has one record of each finished call and none of another when
\* no operation is in progress, as long as the process runs.
THEOREM JournalIsExactTheorem == Spec => [](NeverCrashes => JournalIsExact)
<1>1. Init => JournalFits
  BY DEF Init, JournalFits, RecordsInit, Unborn, WasFinished
<1>2. crashed \/ JournalFits => (NeverCrashes => JournalIsExact)
  BY DEF NeverCrashes, JournalFits, JournalIsExact, Quiescent, Pending, Idle, FinishedLabels
<1> QED BY <1>1, <1>2, JournalStep, EveryCallHasItsPlace, PTL DEF Spec

-----------------------------------------------------------------------------
(* The counters of the metrics.                                            *)

Waiting == {"arrived", "queued", "popped"}
Present == Waiting \cup {"inService"}

InStages(S) == {c \in Calls : FlowOf(c) \in S}

\* The calls that the two current counts stand for, in the middle of an
\* operation too: a call counts as queued from its arrival to the start of
\* its service or its rejection.
CountersFit ==
    /\ current_queue_size_ = Cardinality(InStages(Waiting))
    /\ current_in_system_count_ = Cardinality(InStages(Present))

One(b) == IF b THEN 1 ELSE 0

\* What a call that goes from one stage to another does to a count.
LEMMA MoveCounts ==
    ASSUME NEW c \in Calls, NEW s, MovesTo(c, s), NEW S
    PROVE  /\ Cardinality(InStages(S)) \in Int
           /\ Cardinality(InStages(S)') =
                 Cardinality(InStages(S)) + One(s \in S) - One(FlowOf(c) \in S)
<1>1. \A d \in Calls : FlowOf(d)' = IF d = c THEN s ELSE FlowOf(d)
  <2>1. ASSUME NEW d \in Calls PROVE FlowOf(d)' = IF d = c THEN s ELSE FlowOf(d)
    BY <2>1, FlowIsStage DEF MovesTo, StageStaysFor
  <2> QED BY <2>1
<1> DEFINE A == {d \in Calls \ {c} : FlowOf(d) \in S}
<1>2. IsFiniteSet(A) /\ Cardinality(A) \in Nat /\ c \notin A
  BY CallCenterAssumption, FS_Subset, FS_CardinalityType
<1>3. /\ IsFiniteSet(A \cup {c}) /\ Cardinality(A \cup {c}) = Cardinality(A) + 1
  BY <1>2, FS_AddElement
<1>4. InStages(S) = IF FlowOf(c) \in S THEN A \cup {c} ELSE A
  BY DEF InStages
<1>5. InStages(S)' = IF s \in S THEN A \cup {c} ELSE A
  BY <1>1 DEF InStages
<1>6. Cardinality(InStages(S)) = Cardinality(A) + One(FlowOf(c) \in S)
  BY <1>2, <1>3, <1>4 DEF One
<1>7. Cardinality(InStages(S)') = Cardinality(A) + One(s \in S)
  BY <1>2, <1>3, <1>5 DEF One
<1>8. One(s \in S) \in Int /\ One(FlowOf(c) \in S) \in Int
  BY DEF One
<1> HIDE DEF A
<1> QED BY <1>2, <1>6, <1>7, <1>8

\* The metrics are told of the move.
Told(s0, s) ==
    /\ current_queue_size_' =
          current_queue_size_ + One(s \in Waiting) - One(s0 \in Waiting)
    /\ current_in_system_count_' =
          current_in_system_count_ + One(s \in Present) - One(s0 \in Present)

LEMMA ToldCounts ==
    ASSUME CountersFit, NEW c \in Calls, NEW s, MovesTo(c, s), Told(FlowOf(c), s)
    PROVE  CountersFit'
<1>1. ASSUME NEW S
      PROVE  Cardinality(InStages(S)') =
                 Cardinality(InStages(S)) + One(s \in S) - One(FlowOf(c) \in S)
  BY MoveCounts
<1>2. /\ current_queue_size_' = Cardinality(InStages(Waiting)')
      /\ current_in_system_count_' = Cardinality(InStages(Present)')
  BY <1>1 DEF CountersFit, Told
<1>3. Cardinality(InStages(Waiting))' = Cardinality(InStages(Waiting)')
      /\ Cardinality(InStages(Present))' = Cardinality(InStages(Present)')
  OBVIOUS
<1> QED BY <1>2, <1>3 DEF CountersFit

\* No call moves, and the metrics are not told of one.
LEMMA HiddenCounts ==
    ASSUME CountersFit, HiddenStep, UNCHANGED <<current_queue_size_, current_in_system_count_>>
    PROVE  CountersFit'
<1>1. ASSUME NEW d \in Calls PROVE FlowOf(d)' = FlowOf(d)
  BY FlowIsStage DEF HiddenStep, StageStaysFor
<1>2. ASSUME NEW S PROVE InStages(S)' = InStages(S)
  BY <1>1 DEF InStages
<1> QED BY <1>2 DEF CountersFit

LEMMA CountsAreNumbers ==
    ASSUME CountersFit
    PROVE  current_queue_size_ \in Nat /\ current_in_system_count_ \in Nat
<1>1. ASSUME NEW S PROVE Cardinality(InStages(S)) \in Nat
  <2>1. IsFiniteSet(InStages(S))
    BY CallCenterAssumption, FS_Subset DEF InStages
  <2> QED BY <2>1, FS_CardinalityType
<1> QED BY <1>1 DEF CountersFit

\* The operations that the metrics are told of.
LEMMA ToldStep ==
    ASSUME FlowPart, CountersFit, NEW t \in Threads,
           \/ \E c \in Calls, phone \in Phones : PushCall(t, c, phone)
           \/ InsertForCall(t) \/ StartPoppedCall(t) \/ PushCallRejected(t)
           \/ \E task \in finish_tasks : FinishCallProcessing(t, task)
    PROVE  CountersFit'
<1> USE DEF Told, Waiting, Present, One
<1>1. current_queue_size_ \in Int /\ current_in_system_count_ \in Int
  BY CountsAreNumbers
<1>2. ASSUME NEW c \in Calls, NEW phone \in Phones, PushCall(t, c, phone) PROVE CountersFit'
  <2>1. MovesTo(c, "arrived") /\ FlowOf(c) = "unborn"
    BY <1>2, PushCallMoves, FlowIsStage
  <2>2. Told("unborn", "arrived")
    BY <1>1, <1>2 DEF PushCall, RecordRequestArrival
  <2> HIDE DEF Told
  <2> QED BY <2>1, <2>2, ToldCounts
<1>3. CASE InsertForCall(t) \/ StartPoppedCall(t)
  <2> DEFINE c == thread[t].call
  <2>1. /\ thread[t].at \in {"InsertForCall", "InsertPopped"}
        /\ StartCallProcessing(t, c, thread[t].op)
        /\ UNCHANGED <<in_receipt_order_, in_timout_point_order_>>
    BY <1>3 DEF InsertForCall, StartPoppedCall, InsertToProcessing, indexes
  <2>2. MovesTo(c, "inService")
    BY <2>1, StartMoves
  <2>3. c \in Calls /\ FlowOf(c) \in {"arrived", "popped"}
    <3>1. ThreadsFit /\ Places /\ thread[t].at \in CallLabels
          /\ (thread[t].at = "InsertForCall" => thread[t].at \in ArrivedLabels)
      BY <2>1 DEF FlowPart, CallLabels, ArrivedLabels
    <3> QED BY <2>1, <3>1, CarriedFacts, FlowIsStage
  <2>4. Told(FlowOf(c), "inService")
    BY <1>1, <2>1, <2>3 DEF StartCallProcessing, RecordServiceStart
  <2> HIDE DEF Told
  <2> QED BY <2>2, <2>3, <2>4, ToldCounts
<1>4. CASE PushCallRejected(t)
  <2> DEFINE c == thread[t].call
  <2>1. MovesTo(c, "gone")
    BY <1>4, PushMoves
  <2>2. c \in Calls /\ FlowOf(c) = "arrived"
    <3>1. ThreadsFit /\ Places /\ thread[t].at \in CallLabels /\ thread[t].at \in ArrivedLabels
      BY <1>4 DEF FlowPart, PushCallRejected, CallLabels, ArrivedLabels
    <3> QED BY <3>1, CarriedFacts, FlowIsStage
  <2>3. Told("arrived", "gone")
    BY <1>1, <1>4 DEF PushCallRejected, RejectCall, RecordRequestDropout
  <2> HIDE DEF Told
  <2> QED BY <2>1, <2>2, <2>3, ToldCounts
<1>5. ASSUME NEW task \in finish_tasks, FinishCallProcessing(t, task) PROVE CountersFit'
  <2>1. task.call \in Calls /\ FlowOf(task.call) = "inService" /\ MovesTo(task.call, "answered")
    BY <1>5, FinishMoves, FlowIsStage
  <2>2. Told("inService", "answered")
    BY <1>1, <1>5 DEF FinishCallProcessing, RecordServiceComplete
  <2> HIDE DEF Told
  <2> QED BY <2>1, <2>2, ToldCounts
<1> QED BY <1>2, <1>3, <1>4, <1>5

\* The operations of the queue: a call that waits is moved to, or taken from,
\* a place that counts as waiting, or is rejected and told of.  Here it matters
\* that the call taken out was in the queue, which twins would break.
LEMMA QueueCounts ==
    ASSUME FlowGood, ~Flow!Twins, CountersFit, NEW t \in Threads,
           \/ PushCallToQueue(t) \/ EraseFinishedFromProcessing(t)
           \/ \E c \in Calls : PopCall(t, c) \/ RejectTimeoutCall(t, c)
    PROVE  CountersFit'
<1> USE DEF Told, Waiting, Present, One
<1>1. current_queue_size_ \in Int /\ current_in_system_count_ \in Int
  BY CountsAreNumbers
<1>2. FlowPart
  BY DEF FlowGood
<1>3. CASE PushCallToQueue(t)
  <2> DEFINE c == thread[t].call
  <2>1. MovesTo(c, "queued")
    BY <1>2, <1>3, PushMoves
  <2>2. c \in Calls /\ FlowOf(c) = "arrived"
    <3>1. ThreadsFit /\ Places /\ thread[t].at \in CallLabels /\ thread[t].at \in ArrivedLabels
      BY <1>2, <1>3 DEF FlowPart, PushCallToQueue, CallLabels, ArrivedLabels
    <3> QED BY <3>1, CarriedFacts, FlowIsStage
  <2>3. Told("arrived", "queued")
    BY <1>1, <1>3 DEF PushCallToQueue, metrics_vars, counters
  <2> HIDE DEF Told
  <2> QED BY <2>1, <2>2, <2>3, ToldCounts
<1>4. CASE EraseFinishedFromProcessing(t)
  <2> DEFINE c == thread[t].call
  <2>1. c \in Calls /\ FlowOf(c) = "answered" /\ MovesTo(c, "gone")
    BY <1>2, <1>4, LeaveMoves, FlowIsStage
  <2>2. Told("answered", "gone")
    BY <1>1, <1>4 DEF EraseFinishedFromProcessing, metrics_vars, counters
  <2> HIDE DEF Told
  <2> QED BY <2>1, <2>2, ToldCounts
<1>5. ASSUME NEW c \in Calls, PopCall(t, c) PROVE CountersFit'
  <2>1. MovesTo(c, "popped")
    BY <1>2, <1>5, PopMoves
  <2>2. c \in in_receipt_order_
    BY <1>5, RecordAssumption DEF PopCall, PopFromQueue, First
  <2>3. FlowOf(c) = "queued"
    BY <2>2, GoodFacts
  <2>4. Told("queued", "popped")
    BY <1>1, <1>5 DEF PopCall, metrics_vars, counters
  <2> HIDE DEF Told
  <2> QED BY <2>1, <2>3, <2>4, ToldCounts
<1>6. ASSUME NEW c \in Calls, RejectTimeoutCall(t, c) PROVE CountersFit'
  <2>1. c \in in_timout_point_order_
    <3>1. c # NoCall /\ EraseTimeoutCallFromQueue(c)
      BY <1>6, RecordAssumption DEF RejectTimeoutCall
    <3>2. GetMinTimeoutCallInQueue(c)
      BY <3>1 DEF EraseTimeoutCallFromQueue
    <3> QED BY <3>1, <3>2 DEF GetMinTimeoutCallInQueue, First
  <2>2. FlowOf(c) = "queued"
    BY <2>1, GoodFacts
  <2>3. MovesTo(c, "gone")
    BY <1>2, <1>6, <2>2, RejectMoves, FlowIsStage
  <2>4. Told("queued", "gone")
    BY <1>1, <1>6 DEF RejectTimeoutCall, RejectCall, RecordRequestDropout
  <2> HIDE DEF Told
  <2> QED BY <2>2, <2>3, <2>4, ToldCounts
<1> QED BY <1>3, <1>4, <1>5, <1>6

\* What the hidden operations leave alone, besides the stages.
LEMMA HiddenFacts ==
    ASSUME FlowPart, NEW t \in Threads, HiddenOperation(t)
    PROVE  /\ HiddenStep
           /\ UNCHANGED <<cdr, in_receipt_order_, counters, crashed>>
<1>1. ThreadsFit /\ Places /\ in_receipt_order_ \in SUBSET Calls
  BY BaseFacts DEF FlowPart
<1>2. HiddenStep
  BY <1>1, NewCallHidden, IterationHidden, FinishedHidden DEF HiddenOperation
<1>3. UNCHANGED <<cdr, in_receipt_order_, counters, crashed>>
  <2> USE DEF metrics_vars, ended, call_queue_vars
  <2>1. CASE \/ QueueIsEmptyForCall(t)
             \/ \E op \in OperatorIds \cup {NoOperator} : EraseFreeForCall(t, op)
             \/ InsertForCallRefused(t) \/ InsertFreeForCall(t)
    BY <2>1 DEF QueueIsEmptyForCall, EraseFreeForCall, InsertForCallRefused, InsertFreeForCall,
                InsertToProcessing, indexes
  <2>2. CASE NoTimeoutCall(t)
    <3>1. EraseTimeoutCallFromQueue(NoCall)
      BY <2>2 DEF NoTimeoutCall
    <3>2. UNCHANGED indexes
      BY <3>1 DEF EraseTimeoutCallFromQueue
    <3> QED BY <2>2, <3>2 DEF NoTimeoutCall, indexes
  <2>3. CASE PopCall(t, NoCall)
    <3>1. NoCall \notin First(in_receipt_order_, ReceiptOrder)
      BY <1>1, RecordAssumption DEF First
    <3> QED BY <2>3, <3>1 DEF PopCall, PopFromQueue, indexes
  <2>4. CASE \/ CheckQueueIsEmpty(t) \/ InsertUnusedOperator(t)
             \/ \E op \in OperatorIds \cup {NoOperator} : EraseFreeOperator(t, op)
             \/ ScheduleCallProcessingIteration(t)
             \/ \E due \in 0 .. MaxTime : RunIteration(t, due)
             \/ InsertFinishedOperator(t) \/ AddFinishedRecord(t)
    BY <2>4 DEF CheckQueueIsEmpty, InsertUnusedOperator, EraseFreeOperator,
                ScheduleCallProcessingIteration, RunIteration, InsertFinishedOperator,
                AddFinishedRecord
  <2> QED BY <2>1, <2>2, <2>3, <2>4 DEF HiddenOperation
<1> QED BY <1>2, <1>3

\* The steps of no thread, and the invalid iterator.
Elsewhere == PassTime \/ ChangeConfig \/ (\E t \in Threads : InvalidBegin(t)) \/ UNCHANGED vars

LEMMA ElsewhereFacts ==
    ASSUME FlowPart, Elsewhere
    PROVE  /\ HiddenStep
           /\ UNCHANGED <<cdr, in_receipt_order_, counters, thread, finish_tasks>>
<1>1. UNCHANGED <<thread, finish_tasks, cdr, in_receipt_order_, in_timout_point_order_, counters>>
  BY DEF Elsewhere, PassTime, ChangeConfig, InvalidBegin, vars, center_vars, call_queue_vars,
         metrics_vars
<1> QED BY <1>1, EnvironmentHidden DEF FlowPart

\* The operations that move a call on.
Moving(t) ==
    \/ \E c \in Calls, phone \in Phones : PushCall(t, c, phone)
    \/ InsertForCall(t) \/ StartPoppedCall(t)
    \/ PushCallToQueue(t) \/ PushCallRejected(t)
    \/ \E c \in Calls : PopCall(t, c) \/ RejectTimeoutCall(t, c)
    \/ \E task \in finish_tasks : FinishCallProcessing(t, task)
    \/ EraseFinishedFromProcessing(t)

LEMMA KindsOfSteps ==
    ASSUME [Next]_vars
    PROVE  Elsewhere \/ \E t \in Threads : HiddenOperation(t) \/ Moving(t)
<1>1. ASSUME NEW t \in Threads, Continue(t)
      PROVE  Elsewhere \/ HiddenOperation(t) \/ Moving(t)
  BY <1>1 DEF Continue, HiddenOperation, Moving, Elsewhere
<1>2. ASSUME NEW t \in UserThreads, RunTask(t) PROVE HiddenOperation(t) \/ Moving(t)
  BY <1>2 DEF RunTask, HiddenOperation, Moving
<1>3. ASSUME NEW t \in IoThreads, NEW call \in Calls, NEW phone \in Phones,
             PushCall(t, call, phone)
      PROVE  Moving(t)
  BY <1>3 DEF Moving
<1>4. CASE PassTime \/ ChangeConfig \/ Rest \/ UNCHANGED vars
  BY <1>4 DEF Elsewhere, Rest
<1> QED BY <1>1, <1>2, <1>3, <1>4 DEF Next, Threads

LEMMA CountersStep ==
    FlowGood /\ ~Flow!Twins /\ CountersFit /\ [Next]_vars => CountersFit'
<1> SUFFICES ASSUME FlowGood, ~Flow!Twins, CountersFit, [Next]_vars PROVE CountersFit'
  OBVIOUS
<1>1. FlowPart
  BY DEF FlowGood
<1>2. CASE Elsewhere
  BY <1>1, <1>2, ElsewhereFacts, HiddenCounts DEF counters
<1>3. ASSUME NEW t \in Threads, HiddenOperation(t) PROVE CountersFit'
  BY <1>1, <1>3, HiddenFacts, HiddenCounts DEF counters
<1>4. ASSUME NEW t \in Threads, Moving(t) PROVE CountersFit'
  BY <1>1, <1>4, ToldStep, QueueCounts DEF Moving
<1> QED BY <1>2, <1>3, <1>4, KindsOfSteps

\* Once there are twins there always are.
LEMMA TwinsStay == FlowPart /\ [Next]_vars => (Flow!Twins => Flow!Twins')
<1> SUFFICES ASSUME FlowPart, [Next]_vars, Flow!Twins PROVE Flow!Twins'
  OBVIOUS
<1>1. [FlowProofs!FlowNext]_(FlowProofs!flow_vars) /\ FlowProofs!FlowBase
  BY FlowPartStays DEF FlowPart
<1>2. FlowProofs!Twins'
  BY <1>1, FlowConstants, SameTwins, FlowProofs!FlowNextBase
<1> QED BY <1>2 DEF Flow!Twins, FlowProofs!Twins, Flow!WasArrived, FlowProofs!WasArrived,
        Flow!CallEquals, FlowProofs!CallEquals, Flow!NoTime, FlowProofs!NoTime

LEMMA CountersAlways == Spec => [](Flow!Twins \/ CountersFit)
<1>1. Init => CountersFit
  <2> SUFFICES ASSUME Init PROVE CountersFit
    OBVIOUS
  <2>1. \A c \in Calls : FlowOf(c) = "unborn"
    BY DEF Init, RecordsInit, FlowOf, WasArrived, Unborn
  <2>2. InStages(Waiting) = {} /\ InStages(Present) = {}
    BY <2>1 DEF InStages, Waiting, Present
  <2> QED BY <2>2, FS_EmptySet DEF CountersFit, Init, CountersInit
<1>2. FlowGood => FlowPart
  BY DEF FlowGood
<1> QED BY <1>1, <1>2, CountersStep, TwinsStay, FlowGoodAlways, PTL DEF Spec

\* Each call in service has its finish task.
LEMMA TasksAreCalls ==
    ASSUME FlowPart, Quiescent
    PROVE  /\ IsFiniteSet(finish_tasks)
           /\ Cardinality(finish_tasks) = Cardinality(InStages({"inService"}))
<1> DEFINE S == InStages({"inService"})
           f == [k \in finish_tasks |-> k.call]
<1>1. /\ ThreadsFit /\ Places /\ finish_tasks \in SUBSET Tasks
      /\ \A t \in Threads : thread[t].call = NoCall
  BY DEF FlowPart, ThreadsFit, TaskSets, Quiescent, Idle
<1>2. ASSUME NEW c \in Calls PROVE FlowOf(c) = "inService" <=> \E k \in finish_tasks : k.call = c
  <2>1. WithNoThread(thread, c)
    BY <1>1, RecordAssumption DEF WithNoThread
  <2>2. CASE \E k \in finish_tasks : k.call = c
    <3>1. WasArrived(cdr[c])
      BY <1>1, <2>2 DEF Places, Placed, HeldAreOutside, Held
    <3> QED BY <2>1, <2>2, <3>1, StageOfOthers, FlowIsStage
  <2>3. CASE \A k \in finish_tasks : k.call # c
    BY <2>3 DEF FlowOf
  <2> QED BY <2>2, <2>3
<1>3. f \in [finish_tasks -> S]
  <2>1. ASSUME NEW k \in finish_tasks PROVE k.call \in S
    BY <1>1, <1>2 DEF InStages, Tasks
  <2> QED BY <2>1
<1>4. f \in Injection(finish_tasks, S)
  <2>1. \A k, l \in finish_tasks : k.call = l.call => k = l
    BY <1>1 DEF Places, Placed, OneHolder
  <2> QED BY <1>3, <2>1 DEF Injection, IsInjective
<1>5. f \in Surjection(finish_tasks, S)
  <2>1. \A c \in S : \E k \in finish_tasks : f[k] = c
    BY <1>2 DEF InStages
  <2> QED BY <1>3, <2>1 DEF Surjection
<1>6. IsFiniteSet(S)
  BY CallCenterAssumption, FS_Subset DEF InStages
<1> HIDE DEF f, S
<1>7. IsFiniteSet(finish_tasks) /\ Cardinality(finish_tasks) = Cardinality(S)
  BY <1>4, <1>5, <1>6, FS_Injection
<1> QED BY <1>7 DEF S

\* What the metrics report is true whenever no operation is in progress,
\* unless there were twins.
THEOREM MetricsAreExactTheorem == Spec => [](Flow!Twins \/ MetricsAreExact)
<1>1. ASSUME FlowGood, ~Flow!Twins, CountersFit, Quiescent
      PROVE  /\ current_queue_size_ = GetQueueSize
             /\ current_in_system_count_ = GetQueueSize + Cardinality(finish_tasks)
  <2>1. FlowPart /\ in_receipt_order_ = InStages({"queued"})
    BY <1>1, GoodFacts DEF FlowGood, InStages
  <2>2. ASSUME NEW c \in Calls PROVE FlowOf(c) \notin {"arrived", "popped"}
    <3>1. \A t \in Threads : thread[t].at = "idle"
      BY <1>1 DEF Quiescent, Idle
    <3> QED BY <3>1 DEF FlowOf, Carries
  <2>3. InStages(Waiting) = in_receipt_order_
    BY <2>1, <2>2 DEF InStages, Waiting
  <2>4. /\ InStages(Present) = in_receipt_order_ \cup InStages({"inService"})
        /\ in_receipt_order_ \cap InStages({"inService"}) = {}
    BY <2>1, <2>2 DEF InStages, Waiting, Present
  <2>5. ASSUME NEW S PROVE IsFiniteSet(InStages(S))
    BY CallCenterAssumption, FS_Subset DEF InStages
  <2>6. IsFiniteSet(in_receipt_order_) /\ IsFiniteSet(InStages({"inService"}))
    BY <2>1, <2>5
  <2>7. Cardinality(InStages(Present)) =
           Cardinality(in_receipt_order_) + Cardinality(InStages({"inService"}))
    <3>1. Cardinality(InStages(Present)) =
             Cardinality(in_receipt_order_) + Cardinality(InStages({"inService"}))
                - Cardinality(in_receipt_order_ \cap InStages({"inService"}))
      BY <2>4, <2>6, FS_Union
    <3>2. Cardinality(in_receipt_order_ \cap InStages({"inService"})) = 0
      BY <2>4, FS_EmptySet
    <3>3. Cardinality(in_receipt_order_) \in Nat /\ Cardinality(InStages({"inService"})) \in Nat
      BY <2>6, FS_CardinalityType
    <3> QED BY <3>1, <3>2, <3>3
  <2> QED BY <1>1, <2>1, <2>3, <2>7, TasksAreCalls DEF CountersFit, GetQueueSize
<1>2. FlowGood /\ (Flow!Twins \/ CountersFit) => Flow!Twins \/ MetricsAreExact
  BY <1>1 DEF MetricsAreExact
<1> QED BY <1>2, CountersAlways, FlowGoodAlways, PTL

-----------------------------------------------------------------------------
(* One owner for every operator.                                           *)

OneOwner(th, tasks) ==
    /\ \A t, u \in Threads : th[t].op \in OperatorIds /\ th[t].op = th[u].op => t = u
    /\ \A t \in Threads, k \in tasks : th[t].op # k.op
    /\ \A k, l \in tasks : k.op = l.op => k = l

\* What a step of thread t does that concerns operator o alone, or none
\* (o = NoOperator).
OwnStep(t, x, o, th, T, T2) ==
    /\ th[t].op \in {o, NoOperator} /\ x.op \in {o, NoOperator}
    /\ o \in OperatorIds => \A u \in Threads \ {t} : th[u].op # o
    /\ \A k \in Tasks : k.op # o => (k \in T <=> k \in T2)
    /\ \A k, l \in T2 : k.op = o /\ l.op = o => k = l
    /\ x.op = o => \A k \in T2 : k.op # o

\* The phase that such a step leaves operator o in.
PhaseAfter(x, o, T2) ==
    IF \E k \in T2 : k.op = o THEN "handling"
    ELSE IF x.op # o THEN "unowned"
    ELSE IF x.at \in TakenLabels THEN "taken" ELSE "finished"

\* Such a step keeps every operator with one owner and changes no other phase.
LEMMA StepKeepsOwners ==
    ASSUME NEW th \in ThreadMaps, NEW th2, NEW t \in Threads,
           NEW x \in ThreadStates, GoesTo(th, th2, t, x),
           NEW o \in OperatorIds \cup {NoOperator}, NEW T \in TaskSets, NEW T2 \in TaskSets,
           OneOwner(th, T), OwnStep(t, x, o, th, T, T2)
    PROVE  /\ OneOwner(th2, T2)
           /\ \A p \in OperatorIds : p # o => PhaseIn(th2, T2, p) = PhaseIn(th, T, p)
           /\ o \in OperatorIds => PhaseIn(th2, T2, o) = PhaseAfter(x, o, T2)
<1>1. \A u \in Threads : th2[u] = IF u = t THEN x ELSE th[u]
  BY DEF GoesTo, ThreadMaps
<1>2. /\ \A u \in Threads : th[u].op \in OperatorIds \cup {NoOperator}
      /\ x.op \in OperatorIds <=> x.at \in OperatorLabels
  BY DEF ThreadStates, ThreadMaps
<1>3. \A k \in T \cup T2 : k \in Tasks /\ k.op \in OperatorIds
  BY DEF Tasks, TaskSets
<1>4. NoOperator \notin OperatorIds
  BY ServerAssumption
<1>5. OneOwner(th2, T2)
  <2>1. ASSUME NEW u \in Threads, NEW v \in Threads, th2[u].op \in OperatorIds,
               th2[u].op = th2[v].op
        PROVE  u = v
    BY <2>1, <1>1, <1>2, <1>4 DEF OneOwner, OwnStep
  <2>2. ASSUME NEW u \in Threads, NEW k \in T2 PROVE th2[u].op # k.op
    <3>1. CASE k.op = o
      BY <3>1, <1>1, <1>2, <1>3, <1>4 DEF OwnStep
    <3>2. CASE k.op # o
      <4>1. k \in T
        BY <3>2, <1>3 DEF OwnStep
      <4>2. th[u].op # k.op
        BY <4>1 DEF OneOwner
      <4> QED BY <3>2, <4>2, <1>1, <1>2, <1>3, <1>4 DEF OwnStep
    <3> QED BY <3>1, <3>2
  <2>3. ASSUME NEW k \in T2, NEW l \in T2, k.op = l.op PROVE k = l
    BY <2>3, <1>3 DEF OneOwner, OwnStep
  <2> QED BY <2>1, <2>2, <2>3 DEF OneOwner
<1>6. ASSUME NEW p \in OperatorIds, p # o PROVE PhaseIn(th2, T2, p) = PhaseIn(th, T, p)
  <2>1. th[t].op # p /\ x.op # p
    BY <1>6, <1>4 DEF OwnStep
  <2>2. (\E k \in T2 : k.op = p) <=> (\E k \in T : k.op = p)
    BY <1>6, <1>3 DEF OwnStep
  <2>3. ASSUME NEW L
        PROVE  (\E u \in Threads : th2[u].op = p /\ th2[u].at \in L)
                  <=> (\E u \in Threads : th[u].op = p /\ th[u].at \in L)
    BY <1>1, <2>1
  <2> QED BY <2>2, <2>3 DEF PhaseIn
<1>7. ASSUME o \in OperatorIds PROVE PhaseIn(th2, T2, o) = PhaseAfter(x, o, T2)
  <2>1. ASSUME NEW L
        PROVE  (\E u \in Threads : th2[u].op = o /\ th2[u].at \in L) <=> x.op = o /\ x.at \in L
    BY <1>1, <1>7 DEF OwnStep
  <2>2. x.op = o => x.at \in TakenLabels \/ x.at \in ServedLabels
    BY <1>2, <1>7 DEF OperatorLabels
  <2> QED BY <2>1, <2>2 DEF PhaseIn, PhaseAfter
<1> QED BY <1>5, <1>6, <1>7

PhaseStaysFor(p) ==
    PhaseIn(thread', finish_tasks', p) = PhaseIn(thread, finish_tasks, p)

\* A step that takes operator o, and no other, to phase f.
PutsIn(o, f) ==
    /\ OneOwner(thread', finish_tasks')
    /\ \A p \in OperatorIds \ {o} : PhaseStaysFor(p)
    /\ o \in OperatorIds => PhaseIn(thread', finish_tasks', o) = f

\* The phases that OperatorPool sees.
LEMMA PhaseIsSeen ==
    /\ \A p \in OperatorIds : [q \in OperatorIds |-> PhaseOf(q)][p] = PhaseIn(thread, finish_tasks, p)
    /\ \A o \in OperatorIds : \A f : PutsIn(o, f) =>
          [q \in OperatorIds |-> PhaseOf(q)]' = [[q \in OperatorIds |-> PhaseOf(q)] EXCEPT ![o] = f]
    /\ \A o \in OperatorIds \cup {NoOperator} : \A f : PutsIn(o, f) =>
          [q \in OperatorIds |-> PhaseOf(q)]' =
             [q \in OperatorIds |-> IF q = o THEN f ELSE [p \in OperatorIds |-> PhaseOf(p)][q]]
<1>1. ASSUME NEW p \in OperatorIds
      PROVE  /\ PhaseOf(p) = PhaseIn(thread, finish_tasks, p)
             /\ PhaseOf(p)' = PhaseIn(thread', finish_tasks', p)
  BY PhaseIsPhase
<1> QED BY <1>1 DEF PutsIn, PhaseStaysFor

\* StepKeepsOwners for the variables.
LEMMA OwnerStep ==
    ASSUME ThreadsFit, OneOwner(thread, finish_tasks), finish_tasks' \in TaskSets,
           NEW t \in Threads, NEW x \in ThreadStates, NEW o \in OperatorIds \cup {NoOperator},
           GoesTo(thread, thread', t, x),
           OwnStep(t, x, o, thread, finish_tasks, finish_tasks')
    PROVE  PutsIn(o, PhaseAfter(x, o, finish_tasks'))
<1>1. /\ thread \in ThreadMaps /\ finish_tasks \in TaskSets /\ finish_tasks' \in TaskSets
      /\ t \in Threads /\ x \in ThreadStates /\ o \in OperatorIds \cup {NoOperator}
      /\ OneOwner(thread, finish_tasks) /\ GoesTo(thread, thread', t, x)
      /\ OwnStep(t, x, o, thread, finish_tasks, finish_tasks')
  BY DEF ThreadsFit
<1>2. /\ OneOwner(thread', finish_tasks')
      /\ \A p \in OperatorIds : p # o =>
            PhaseIn(thread', finish_tasks', p) = PhaseIn(thread, finish_tasks, p)
      /\ o \in OperatorIds =>
            PhaseIn(thread', finish_tasks', o) = PhaseAfter(x, o, finish_tasks')
  BY ONLY <1>1, StepKeepsOwners
<1> QED BY <1>2 DEF PutsIn, PhaseStaysFor

-----------------------------------------------------------------------------
(* Every step is one of OperatorPool.                                      *)

\* The operations of OperatorSet and Operator are the same ones there.
LEMMA SamePoolOperations ==
    /\ \A op : PoolProofs!EraseFree(op) <=> EraseFree(op)
    /\ \A op : PoolProofs!InsertFree(op) <=> InsertFree(op)
    /\ PoolProofs!UpdateConfiguration <=> UpdateConfiguration
    /\ \A op : PoolProofs!IsFree(op) <=> IsFree(op)
    /\ \A op : PoolProofs!ServerIsKnown(op) <=> ServerIsKnown(op)
    /\ \A op : PoolProofs!HandleCall(op) <=> HandleCall(op)
    /\ \A op : PoolProofs!FinishHandle(op) <=> FinishHandle(op)
    /\ \A op : PoolProofs!AddCompletedService(op) <=> AddCompletedService(op)
<1>1. \A ops, free : PoolProofs!UpdateOperatorCount(ops, free) = UpdateOperatorCount(ops, free)
  BY DEF PoolProofs!UpdateOperatorCount, UpdateOperatorCount, PoolProofs!AddOperators,
         AddOperators, PoolProofs!RemoveOperators, RemoveOperators,
         PoolProofs!ReadOperatorCount, ReadOperatorCount, PoolProofs!GetNumber, GetNumber,
         PoolProofs!GetProperty, GetProperty, PoolProofs!Missing, Missing,
         PoolProofs!SetServers, SetServers, PoolProofs!Cardinality, Cardinality
<1>2. /\ \A op : PoolProofs!EraseFree(op) <=> EraseFree(op)
      /\ \A op : PoolProofs!InsertFree(op) <=> InsertFree(op)
  BY <1>1 DEF PoolProofs!EraseFree, EraseFree, PoolProofs!InsertFree, InsertFree
<1>3. PoolProofs!UpdateConfiguration <=> UpdateConfiguration
  BY DEF PoolProofs!UpdateConfiguration, UpdateConfiguration, PoolProofs!Configurations,
         Configurations
<1>4. /\ \A op : PoolProofs!IsFree(op) <=> IsFree(op)
      /\ \A op : PoolProofs!ServerIsKnown(op) <=> ServerIsKnown(op)
      /\ \A op : PoolProofs!HandleCall(op) <=> HandleCall(op)
      /\ \A op : PoolProofs!FinishHandle(op) <=> FinishHandle(op)
      /\ \A op : PoolProofs!AddCompletedService(op) <=> AddCompletedService(op)
  BY DEF PoolProofs!IsFree, IsFree, PoolProofs!ServerIsKnown, ServerIsKnown,
         PoolProofs!HandleCall, HandleCall, PoolProofs!FinishHandle, FinishHandle,
         PoolProofs!AddCompletedService, AddCompletedService
<1> QED BY <1>2, <1>3, <1>4

\* What OperatorPool assumes of its constants.
LEMMA PoolConstants ==
    /\ PoolProofs!ConfigurationAssumption
    /\ PoolProofs!ServerAssumption
    /\ PoolProofs!OperatorAssumption
    /\ PoolProofs!EnoughIds
    /\ PoolProofs!PoolAssumption
<1>1. PoolProofs!ConfigurationAssumption
  BY ConfigurationAssumption DEF PoolProofs!Missing, Missing
<1>2. PoolProofs!EnoughIds
  BY EnoughIds DEF PoolProofs!IsFiniteSet, IsFiniteSet, PoolProofs!Cardinality, Cardinality
<1>3. PoolProofs!PoolAssumption
  BY CallCenterAssumption, FS_CardinalityType DEF PoolProofs!Cardinality, Cardinality
<1> QED BY <1>1, <1>2, <1>3, ServerAssumption, OperatorAssumption

\* What else OperatorPool sees.
RestOfPool == <<config_json_, status_, servers_metrics_, operator_set_vars, aborted>>

PoolStep ==
    /\ OneOwner(thread', finish_tasks')
    /\ PoolProofs!Next \/ UNCHANGED PoolProofs!vars

\* A thread that keeps the operator it has, or still has none.
LEMMA KeepsOperator ==
    ASSUME ThreadsFit, ThreadsFit', OneOwner(thread, finish_tasks),
           NEW t \in Threads, NEW x, GoesTo(thread, thread', t, x),
           UNCHANGED finish_tasks, x.op = thread[t].op,
           x.at \in TakenLabels <=> thread[t].at \in TakenLabels,
           UNCHANGED RestOfPool
    PROVE  PoolStep
<1> DEFINE o == thread[t].op
<1>1. /\ thread \in [Threads -> ThreadStates] /\ thread' \in [Threads -> ThreadStates]
      /\ finish_tasks \in SUBSET Tasks /\ finish_tasks' \in TaskSets
  BY DEF ThreadsFit, ThreadMaps, TaskSets
<1>2. thread'[t] = x /\ x \in ThreadStates /\ thread[t] \in ThreadStates
  BY <1>1 DEF GoesTo
<1>3. /\ o \in OperatorIds \cup {NoOperator}
      /\ o \in OperatorIds <=> thread[t].at \in OperatorLabels
  BY <1>2 DEF ThreadStates
<1>4. OwnStep(t, x, o, thread, finish_tasks, finish_tasks')
  BY <1>1 DEF OwnStep, OneOwner
<1>5. PutsIn(o, PhaseAfter(x, o, finish_tasks'))
  BY <1>1, <1>2, <1>3, <1>4, OwnerStep
<1>6. ASSUME o \in OperatorIds
      PROVE  PhaseIn(thread, finish_tasks, o) = PhaseAfter(x, o, finish_tasks')
  <2>1. \A k \in finish_tasks : k.op # o
    BY DEF OneOwner
  <2>2. \A u \in Threads : thread[u].op = o <=> u = t
    BY <1>6 DEF OneOwner
  <2> QED BY <1>3, <1>6, <2>1, <2>2 DEF PhaseIn, PhaseAfter, OperatorLabels
<1>7. OneOwner(thread', finish_tasks') /\ \A p \in OperatorIds : PhaseStaysFor(p)
  BY <1>5, <1>6 DEF PutsIn, PhaseStaysFor
<1>8. [q \in OperatorIds |-> PhaseOf(q)]' = [q \in OperatorIds |-> PhaseOf(q)]
  <2>1. ASSUME NEW p \in OperatorIds PROVE PhaseOf(p)' = PhaseOf(p)
    BY <1>7, PhaseIsPhase DEF PhaseStaysFor
  <2> QED BY <2>1
<1>9. UNCHANGED PoolProofs!vars
  BY <1>8 DEF PoolProofs!vars, RestOfPool, PoolProofs!operator_set_vars, operator_set_vars
<1> QED BY <1>7, <1>9 DEF PoolStep

\* The operations that take no operator and give none back.
LEMMA OtherOperations ==
    ASSUME ThreadsFit, ThreadsFit', OneOwner(thread, finish_tasks), PoolProofs!PoolInv,
           NEW t \in Threads,
           \/ \E c \in Calls, phone \in Phones : PushCall(t, c, phone)
           \/ QueueIsEmptyForCall(t) \/ InsertForCallRefused(t)
           \/ PushCallToQueue(t) \/ PushCallRejected(t)
           \/ CheckQueueIsEmpty(t) \/ NoTimeoutCall(t)
           \/ \E call \in Calls \cup {NoCall} : PopCall(t, call)
           \/ ScheduleCallProcessingIteration(t)
           \/ \E due \in 0 .. MaxTime : RunIteration(t, due)
           \/ EraseFinishedFromProcessing(t) \/ AddFinishedRecord(t)
    PROVE  PoolStep
<1>1. PICK l, c, o : thread' = [thread EXCEPT ![t] = [at |-> l, call |-> c, op |-> o]]
  BY DEF PushCall, QueueIsEmptyForCall, InsertForCallRefused, PushCallToQueue,
         PushCallRejected, CheckQueueIsEmpty, NoTimeoutCall, PopCall,
         ScheduleCallProcessingIteration, RunIteration, EraseFinishedFromProcessing,
         AddFinishedRecord, Goto
<1> DEFINE x == [at |-> l, call |-> c, op |-> o]
<1>2. thread'[t] = x /\ GoesTo(thread, thread', t, x)
  BY <1>1 DEF ThreadsFit, ThreadMaps, GoesTo
<1>3. UNCHANGED finish_tasks /\ UNCHANGED RestOfPool
  <2> USE DEF RestOfPool, metrics_vars, ended
  <2>1. CASE \E d \in Calls, phone \in Phones : PushCall(t, d, phone)
    BY <2>1 DEF PushCall, RecordRequestArrival
  <2>2. CASE QueueIsEmptyForCall(t) \/ InsertForCallRefused(t) \/ PushCallToQueue(t)
    BY <2>2 DEF QueueIsEmptyForCall, InsertForCallRefused, PushCallToQueue
  <2>3. CASE PushCallRejected(t)
    <3>1. ~aborted /\ aborted' = ~TRUE
      BY <2>3 DEF PushCallRejected, RejectCall, Asserting, Running
    <3>2. aborted' = aborted
      <4>1. aborted \in BOOLEAN
        BY DEF PoolProofs!PoolInv, PoolProofs!TypeOK
      <4> QED BY <3>1, <4>1
    <3> QED BY <2>3, <3>2 DEF PushCallRejected, RejectCall, RecordRequestDropout
  <2>4. CASE CheckQueueIsEmpty(t) \/ NoTimeoutCall(t)
             \/ \E call \in Calls \cup {NoCall} : PopCall(t, call)
    BY <2>4 DEF CheckQueueIsEmpty, NoTimeoutCall, PopCall
  <2>5. CASE ScheduleCallProcessingIteration(t)
             \/ \E due \in 0 .. MaxTime : RunIteration(t, due)
    BY <2>5 DEF ScheduleCallProcessingIteration, RunIteration
  <2>6. CASE EraseFinishedFromProcessing(t) \/ AddFinishedRecord(t)
    BY <2>6 DEF EraseFinishedFromProcessing, AddFinishedRecord
  <2> QED BY <2>1, <2>2, <2>3, <2>4, <2>5, <2>6
<1>4. thread[t].at \notin OperatorLabels => thread[t].op = NoOperator
  BY ThreadType
<1>5. CASE InsertForCallRefused(t) \/ EraseFinishedFromProcessing(t)
           \/ \E call \in Calls \cup {NoCall} : PopCall(t, call)
  <2>1. x.op = thread[t].op /\ (x.at \in TakenLabels <=> thread[t].at \in TakenLabels)
    <3> USE DEF TakenLabels, Goto
    <3>1. CASE InsertForCallRefused(t)
      BY <3>1, <1>2 DEF InsertForCallRefused, ThreadsFit, ThreadMaps
    <3>2. CASE EraseFinishedFromProcessing(t)
      BY <3>2, <1>2 DEF EraseFinishedFromProcessing, ThreadsFit, ThreadMaps
    <3>3. ASSUME NEW call \in Calls \cup {NoCall}, PopCall(t, call)
          PROVE  x.op = thread[t].op /\ (x.at \in TakenLabels <=> thread[t].at \in TakenLabels)
      BY <3>3, <1>2 DEF PopCall, ThreadsFit, ThreadMaps
    <3> QED BY <1>5, <3>1, <3>2, <3>3
  <2> HIDE DEF x
  <2> QED BY <1>2, <1>3, <2>1, KeepsOperator
<1>6. CASE ~ (InsertForCallRefused(t) \/ EraseFinishedFromProcessing(t)
              \/ \E call \in Calls \cup {NoCall} : PopCall(t, call))
  <2>1. thread[t].at \notin OperatorLabels
    BY <1>6 DEF PushCall, QueueIsEmptyForCall, PushCallToQueue,
         PushCallRejected, CheckQueueIsEmpty, NoTimeoutCall,
         ScheduleCallProcessingIteration, RunIteration,
         AddFinishedRecord, Idle, OperatorLabels, TakenLabels, ServedLabels
  <2>2. PICK m \in {"QueueIsEmptyForCall", "EraseFreeForCall", "PushToQueue", "QueueIsEmpty",
                    "idle", "EraseTimeout", "EraseFree"} : \E d :
           thread' = [thread EXCEPT ![t] = [at |-> m, call |-> d, op |-> NoOperator]]
    BY <1>6 DEF PushCall, QueueIsEmptyForCall, PushCallToQueue,
         PushCallRejected, CheckQueueIsEmpty, NoTimeoutCall,
         ScheduleCallProcessingIteration, RunIteration, AddFinishedRecord, Goto
  <2>3. PICK d : thread' = [thread EXCEPT ![t] = [at |-> m, call |-> d, op |-> NoOperator]]
    BY <2>2
  <2> DEFINE y == [at |-> m, call |-> d, op |-> NoOperator]
  <2>4. /\ GoesTo(thread, thread', t, y)
        /\ y.op = thread[t].op
        /\ y.at \in TakenLabels <=> thread[t].at \in TakenLabels
    BY <1>4, <2>1, <2>2, <2>3 DEF GoesTo, TakenLabels, OperatorLabels
  <2> HIDE DEF y
  <2> QED BY <1>3, <2>4, KeepsOperator
<1> QED BY <1>5, <1>6

\* An operator that EraseFree returns belongs to nobody.
LEMMA TakenIsUnowned ==
    ASSUME PoolProofs!PoolInv, NEW op \in OperatorIds, EraseFree(op)
    PROVE  PhaseIn(thread, finish_tasks, op) = "unowned"
<1> DEFINE Held0 == {p \in OperatorIds : [q \in OperatorIds |-> PhaseOf(q)][p] # "unowned"}
<1>1. /\ operators_ \in SUBSET OperatorIds
      /\ servers_metrics_ \in [DOMAIN servers_metrics_ -> Nat]
      /\ free_operators_ \cap Held0 = {} /\ free_operators_ \cup Held0 = operators_
  BY DEF PoolProofs!PoolInv, PoolProofs!TypeOK, PoolProofs!OwnershipIsExclusive,
         PoolProofs!Held
<1>2. PoolProofs!EraseFree(op) /\ op # NoOperator
  BY SamePoolOperations, ServerAssumption
<1>3. PICK u \in PoolProofs!UpdateOperatorCount(operators_, free_operators_) : op \in u.free
  BY <1>2 DEF PoolProofs!EraseFree
<1>4. free_operators_ \in SUBSET operators_
  BY <1>1
<1>5. u.operators \ u.free = operators_ \ free_operators_
  BY <1>1, <1>3, <1>4, PoolConstants, PoolProofs!UpdateKeepsOwned
<1>6. op \notin Held0
  BY <1>1, <1>3, <1>5
<1> QED BY <1>6, PhaseIsSeen

LEMMA UnownedIsNowhere ==
    ASSUME ThreadsFit, NEW op \in OperatorIds, PhaseIn(thread, finish_tasks, op) = "unowned"
    PROVE  (\A u \in Threads : thread[u].op # op) /\ (\A k \in finish_tasks : k.op # op)
<1>1. \A k \in finish_tasks : k.op # op
  BY DEF PhaseIn
<1>2. ASSUME NEW u \in Threads, thread[u].op = op PROVE FALSE
  <2>1. thread[u].at \in TakenLabels \cup ServedLabels
    BY <1>2, ThreadType, ServerAssumption DEF OperatorLabels
  <2> QED BY <1>2, <2>1 DEF PhaseIn
<1> QED BY <1>1, <1>2

\* EraseFree by a thread is Take.
LEMMA TakeIsSeen ==
    ASSUME ThreadsFit, ThreadsFit', OneOwner(thread, finish_tasks), PoolProofs!PoolInv,
           NEW t \in Threads, NEW op \in OperatorIds \cup {NoOperator},
           EraseFreeForCall(t, op) \/ EraseFreeOperator(t, op)
    PROVE  PoolStep
<1>1. /\ thread[t].at \notin OperatorLabels /\ EraseFree(op) /\ ~aborted
      /\ UNCHANGED <<finish_tasks, config_json_, status_, aborted>>
  BY DEF EraseFreeForCall, EraseFreeOperator, OperatorLabels, TakenLabels, ServedLabels,
         Running, ended
<1>2. PICK l, c : /\ thread' = [thread EXCEPT ![t] = [at |-> l, call |-> c, op |-> op]]
                  /\ op # NoOperator => l \in TakenLabels
  BY DEF EraseFreeForCall, EraseFreeOperator, Goto, TakenLabels
<1> DEFINE x == [at |-> l, call |-> c, op |-> op]
<1>3. GoesTo(thread, thread', t, x) /\ x.op = op /\ x.at = l
  BY <1>2 DEF GoesTo
<1> HIDE DEF x
<1>4. x \in ThreadStates /\ finish_tasks' \in TaskSets /\ finish_tasks \in SUBSET Tasks
  BY <1>3 DEF GoesTo, ThreadsFit, ThreadMaps, TaskSets
<1>5. thread[t].op = NoOperator /\ NoOperator \notin OperatorIds
  BY <1>1, ThreadType, ServerAssumption
<1>6. op \in OperatorIds =>
         (\A u \in Threads : thread[u].op # op) /\ (\A k \in finish_tasks : k.op # op)
  BY <1>1, TakenIsUnowned, UnownedIsNowhere
<1>7. \A k \in finish_tasks : k.op # op
  BY <1>4, <1>5, <1>6 DEF Tasks
<1>8. OwnStep(t, x, op, thread, finish_tasks, finish_tasks')
  BY <1>1, <1>3, <1>5, <1>6, <1>7 DEF OwnStep
<1>9. PutsIn(op, PhaseAfter(x, op, finish_tasks'))
  BY <1>3, <1>4, <1>8, OwnerStep
<1>10. PutsIn(op, "taken")
  <2>1. op \in OperatorIds => PhaseAfter(x, op, finish_tasks') = "taken"
    BY <1>1, <1>2, <1>3, <1>5, <1>7 DEF PhaseAfter
  <2> QED BY <1>9, <2>1 DEF PutsIn
<1>11. PoolProofs!Take(op)
  BY <1>1, <1>10, PhaseIsSeen, SamePoolOperations DEF PoolProofs!Take
<1> QED BY <1>10, <1>11 DEF PutsIn, PoolStep, PoolProofs!Next

\* InsertFree by a thread is Return.
LEMMA ReturnIsSeen ==
    ASSUME ThreadsFit, ThreadsFit', OneOwner(thread, finish_tasks),
           NEW t \in Threads,
           InsertFreeForCall(t) \/ InsertUnusedOperator(t) \/ InsertFinishedOperator(t)
    PROVE  PoolStep
<1> DEFINE o == thread[t].op
<1>1. /\ thread[t].at \in {"InsertFreeForCall", "InsertFree", "InsertFreeFinished"}
      /\ InsertFree(o) /\ ~aborted
      /\ UNCHANGED <<finish_tasks, config_json_, status_, aborted>>
  BY DEF InsertFreeForCall, InsertUnusedOperator, InsertFinishedOperator, Running, ended
<1>2. PICK l, c : thread' = [thread EXCEPT ![t] = [at |-> l, call |-> c, op |-> NoOperator]]
  BY DEF InsertFreeForCall, InsertUnusedOperator, InsertFinishedOperator, Goto
<1> DEFINE x == [at |-> l, call |-> c, op |-> NoOperator]
<1>3. GoesTo(thread, thread', t, x) /\ x.op = NoOperator
  BY <1>2 DEF GoesTo
<1> HIDE DEF x
<1>4. x \in ThreadStates /\ finish_tasks' \in TaskSets
  BY <1>3 DEF GoesTo, ThreadsFit, ThreadMaps, TaskSets
<1>5. o \in OperatorIds /\ NoOperator \notin OperatorIds
  BY <1>1, ThreadType, ServerAssumption DEF OperatorLabels, TakenLabels, ServedLabels
<1>6. /\ \A k \in finish_tasks : k.op # o
      /\ \A u \in Threads : thread[u].op = o <=> u = t
  BY <1>5 DEF OneOwner
<1>7. OwnStep(t, x, o, thread, finish_tasks, finish_tasks')
  BY <1>1, <1>3, <1>5, <1>6 DEF OwnStep
<1>8. PutsIn(o, PhaseAfter(x, o, finish_tasks'))
  BY <1>3, <1>4, <1>5, <1>7, OwnerStep
<1>9. PutsIn(o, "unowned")
  <2>1. PhaseAfter(x, o, finish_tasks') = "unowned"
    BY <1>1, <1>3, <1>5, <1>6 DEF PhaseAfter
  <2> QED BY <1>8, <2>1
<1>10. PhaseIn(thread, finish_tasks, o) \in {"taken", "finished"}
  BY <1>1, <1>6 DEF PhaseIn, TakenLabels, ServedLabels
<1>11. PoolProofs!Return(o)
  BY <1>1, <1>5, <1>9, <1>10, PhaseIsSeen, SamePoolOperations DEF PoolProofs!Return
<1> QED BY <1>5, <1>9, <1>11 DEF PutsIn, PoolStep, PoolProofs!Next

\* HandleCall, at the end of StartCallProcessing, is Handle as long as the
\* operator has handled fewer calls than there are.
LEMMA HandleIsSeen ==
    ASSUME ThreadsFit, ThreadsFit', OneOwner(thread, finish_tasks),
           NEW t \in Threads, InsertForCall(t) \/ StartPoppedCall(t),
           ServerIsKnown(thread[t].op) => servers_metrics_[thread[t].op] < Cardinality(Calls)
    PROVE  PoolStep
<1> DEFINE o == thread[t].op
           c == thread[t].call
           x == [at |-> "idle", call |-> NoCall, op |-> NoOperator]
<1>1. /\ thread[t].at \in {"InsertForCall", "InsertPopped"} /\ ~aborted
      /\ StartCallProcessing(t, c, o)
  BY DEF InsertForCall, StartPoppedCall, Running
<1>2. PICK delay \in CallDelays :
         finish_tasks' = finish_tasks \cup
            {[call |-> c, op |-> o, due |-> Min({now + delay, MaxTime})]}
  BY <1>1 DEF StartCallProcessing
<1> DEFINE task == [call |-> c, op |-> o, due |-> Min({now + delay, MaxTime})]
<1>3. finish_tasks' = finish_tasks \cup {task} /\ task.op = o
  BY <1>2
<1> HIDE DEF task
<1>4. GoesTo(thread, thread', t, x) /\ x.op = NoOperator
  BY <1>1 DEF StartCallProcessing, Goto, GoesTo
<1> HIDE DEF x
<1>5. x \in ThreadStates /\ finish_tasks' \in TaskSets
  BY <1>4 DEF GoesTo, ThreadsFit, ThreadMaps, TaskSets
<1>6. o \in OperatorIds /\ NoOperator \notin OperatorIds
  BY <1>1, ThreadType, ServerAssumption DEF OperatorLabels, TakenLabels, ServedLabels
<1>7. /\ \A k \in finish_tasks : k.op # o
      /\ \A u \in Threads : thread[u].op = o <=> u = t
  BY <1>6 DEF OneOwner
<1>8. OwnStep(t, x, o, thread, finish_tasks, finish_tasks')
  BY <1>3, <1>4, <1>6, <1>7 DEF OwnStep
<1>9. PutsIn(o, PhaseAfter(x, o, finish_tasks'))
  BY <1>4, <1>5, <1>6, <1>8, OwnerStep
<1>10. PutsIn(o, "handling")
  <2>1. PhaseAfter(x, o, finish_tasks') = "handling"
    BY <1>3 DEF PhaseAfter
  <2> QED BY <1>9, <2>1
<1>11. PhaseIn(thread, finish_tasks, o) = "taken"
  BY <1>1, <1>7 DEF PhaseIn, TakenLabels
<1>12. PoolProofs!Handle(o)
  BY <1>1, <1>6, <1>10, <1>11, PhaseIsSeen, SamePoolOperations
     DEF PoolProofs!Handle, StartCallProcessing, Asserting, PoolProofs!Asserting,
         RecordServiceStart, operator_set_vars, PoolProofs!operator_set_vars
<1> QED BY <1>6, <1>10, <1>12 DEF PutsIn, PoolStep, PoolProofs!Next

\* FinishCallProcessing begins with Finish.
LEMMA FinishIsSeen ==
    ASSUME ThreadsFit, ThreadsFit', OneOwner(thread, finish_tasks),
           NEW t \in Threads, NEW task \in finish_tasks, FinishCallProcessing(t, task)
    PROVE  PoolStep
<1> DEFINE o == task.op
           x == [at |-> "EraseFromProcessing", call |-> task.call, op |-> o]
<1>1. /\ thread[t] = Idle /\ ~aborted /\ finish_tasks' = finish_tasks \ {task}
      /\ GoesTo(thread, thread', t, x)
  BY DEF FinishCallProcessing, Running, Goto, GoesTo
<1>2. x.op = o /\ x.at = "EraseFromProcessing"
  OBVIOUS
<1> HIDE DEF x
<1>3. x \in ThreadStates /\ finish_tasks' \in TaskSets /\ o \in OperatorIds
  BY <1>1 DEF GoesTo, ThreadsFit, ThreadMaps, TaskSets, Tasks
<1>4. thread[t].op = NoOperator /\ NoOperator \notin OperatorIds
  BY <1>1, ServerAssumption DEF Idle
<1>5. /\ \A u \in Threads : thread[u].op # o
      /\ \A k \in finish_tasks' : k.op # o
  BY <1>1 DEF OneOwner
<1>6. OwnStep(t, x, o, thread, finish_tasks, finish_tasks')
  BY <1>1, <1>2, <1>4, <1>5 DEF OwnStep
<1>7. PutsIn(o, PhaseAfter(x, o, finish_tasks'))
  BY <1>1, <1>3, <1>6, OwnerStep
<1>8. PutsIn(o, "finished")
  <2>1. PhaseAfter(x, o, finish_tasks') = "finished"
    BY <1>2, <1>5 DEF PhaseAfter, TakenLabels
  <2> QED BY <1>7, <2>1
<1>9. PhaseIn(thread, finish_tasks, o) = "handling"
  BY DEF PhaseIn
<1>10. PoolProofs!Finish(o)
  BY <1>1, <1>3, <1>8, <1>9, PhaseIsSeen, SamePoolOperations
     DEF PoolProofs!Finish, FinishCallProcessing, Asserting, PoolProofs!Asserting,
         RecordServiceComplete, operator_set_vars, PoolProofs!operator_set_vars
<1> QED BY <1>3, <1>8, <1>10 DEF PutsIn, PoolStep, PoolProofs!Next

-----------------------------------------------------------------------------
(* The calls that the operators have served.                               *)

ServicedCalls == {c \in Calls : WasServiced(cdr[c])}

\* A call that was served does not come back: with this no operator serves
\* more calls than there are.
ServicedAreDone ==
    \A c \in ServicedCalls :
        c \notin in_receipt_order_ /\ FlowOf(c) \in {"answered", "gone"}

ServicedBound ==
    \A s \in DOMAIN servers_metrics_ : servers_metrics_[s] <= Cardinality(ServicedCalls)

LEMMA DoneMove ==
    ASSUME ServicedAreDone, NEW c \in Calls, NEW s, MovesTo(c, s),
           \A d \in Calls \ {c} :
              /\ WasServiced(cdr'[d]) => WasServiced(cdr[d])
              /\ d \in in_receipt_order_' => d \in in_receipt_order_,
           WasServiced(cdr'[c]) => s \in {"answered", "gone"} /\ c \notin in_receipt_order_'
    PROVE  ServicedAreDone'
<1>1. ASSUME NEW d \in Calls PROVE FlowOf(d)' = IF d = c THEN s ELSE FlowOf(d)
  BY <1>1, FlowIsStage DEF MovesTo, StageStaysFor
<1> QED BY <1>1 DEF ServicedAreDone, ServicedCalls, WasServiced

LEMMA DoneHidden ==
    ASSUME ServicedAreDone, HiddenStep, UNCHANGED <<cdr, in_receipt_order_>>
    PROVE  ServicedAreDone'
<1>1. ASSUME NEW d \in Calls PROVE FlowOf(d)' = FlowOf(d)
  BY FlowIsStage DEF HiddenStep, StageStaysFor
<1> QED BY <1>1 DEF ServicedAreDone, ServicedCalls, WasServiced

\* The call that a thread is about to start has not been served.
LEMMA StartedIsNew ==
    ASSUME FlowPart, ServicedAreDone, NEW t \in Threads,
           thread[t].at \in {"InsertForCall", "InsertPopped", "PushToQueue"}
    PROVE  thread[t].call \in Calls \ ServicedCalls
<1>1. /\ ThreadsFit /\ Places /\ thread[t].at \in CallLabels
      /\ thread[t].at # "InsertPopped" => thread[t].at \in ArrivedLabels
  BY DEF FlowPart, CallLabels, ArrivedLabels
<1>2. thread[t].call \in Calls /\ FlowOf(thread[t].call) \in {"arrived", "popped"}
  BY <1>1, CarriedFacts, FlowIsStage
<1> QED BY <1>2 DEF ServicedAreDone

\* What the operations that move a call do to the served calls.
LEMMA ServicedMoves ==
    ASSUME FlowPart, ServicedAreDone, NEW t \in Threads, Moving(t)
    PROVE  /\ ServicedAreDone'
           /\ ~crashed' /\ (\A task \in finish_tasks : ~FinishCallProcessing(t, task)) =>
                 ServicedCalls' = ServicedCalls
<1>1. /\ ThreadsFit /\ Places /\ cdr \in [Calls -> Records]
      /\ in_receipt_order_ \in SUBSET Calls
  BY BaseFacts DEF FlowPart
<1> USE DEF ServicedCalls
<1>2. ASSUME NEW c \in Calls, NEW phone \in Phones, PushCall(t, c, phone)
      PROVE  ServicedAreDone' /\ ServicedCalls' = ServicedCalls
  <2> DEFINE r == SetArrivalTime(NewRecord(phone))
  <2>1. /\ ~WasArrived(cdr[c]) /\ cdr' = [cdr EXCEPT ![c] = r] /\ UNCHANGED in_receipt_order_
    BY <1>2 DEF PushCall, call_queue_vars
  <2>2. ~WasServiced(cdr[c])
    BY <2>1, BaseFacts DEF FlowPart, WasServiced, Unborn, NoStatus
  <2>3. ~WasServiced(r)
    BY DEF WasServiced, SetArrivalTime, NewRecord, NoStatus
  <2> HIDE DEF r
  <2>4. cdr'[c] = r /\ \A d \in Calls \ {c} : cdr'[d] = cdr[d]
    BY <1>1, <2>1, RecordChanges
  <2>5. MovesTo(c, "arrived")
    BY <1>2, PushCallMoves
  <2> QED BY <2>1, <2>2, <2>3, <2>4, <2>5, DoneMove
<1>3. CASE InsertForCall(t) \/ StartPoppedCall(t)
  <2> DEFINE c == thread[t].call
             op == thread[t].op
  <2>1. /\ thread[t].at \in {"InsertForCall", "InsertPopped"}
        /\ StartCallProcessing(t, c, op)
        /\ UNCHANGED <<in_receipt_order_, in_timout_point_order_>>
    BY <1>3 DEF InsertForCall, StartPoppedCall, InsertToProcessing, indexes
  <2>2. c \in Calls \ ServicedCalls
    BY <2>1, StartedIsNew
  <2>3. cdr'[c] = StartService(cdr[c], op) /\ \A d \in Calls \ {c} : cdr'[d] = cdr[d]
    <3>1. cdr' = [cdr EXCEPT ![c] = StartService(cdr[c], op)]
      BY <2>1 DEF StartCallProcessing
    <3> QED BY <1>1, <2>2, <3>1, RecordChanges
  <2>4. WasServiced(cdr'[c]) <=> WasServiced(cdr[c])
    BY <1>1, <2>2, <2>3 DEF WasServiced, StartService, Records
  <2>5. MovesTo(c, "inService")
    BY <2>1, StartMoves
  <2> QED BY <2>1, <2>2, <2>3, <2>4, <2>5, DoneMove
<1>4. CASE PushCallToQueue(t)
  <2> DEFINE c == thread[t].call
  <2>1. thread[t].at = "PushToQueue" /\ PushToQueue(c, "kOk") /\ UNCHANGED cdr
    BY <1>4 DEF PushCallToQueue
  <2>2. c \in Calls \ ServicedCalls
    BY <2>1, StartedIsNew
  <2>3. MovesTo(c, "queued")
    BY <1>4, PushMoves
  <2>4. in_receipt_order_' = in_receipt_order_ \cup {c}
    BY <2>1 DEF PushToQueue, InsertToQueue
  <2> QED BY <2>1, <2>2, <2>3, <2>4, DoneMove
<1>5. ASSUME NEW c \in Calls, NEW st \in CallStatus \ {"kOk"}, RejectCall(c, st), NEW s,
             MovesTo(c, s), in_receipt_order_' \subseteq in_receipt_order_
      PROVE  ServicedAreDone' /\ (~crashed' => ServicedCalls' = ServicedCalls)
  <2>1. cdr' = [cdr EXCEPT ![c] = CompleteService(cdr[c], st)]
        /\ (~crashed' => ~WasFinished(cdr[c]))
    BY <1>5 DEF RejectCall, Asserting, InSystem
  <2>2. cdr'[c] = CompleteService(cdr[c], st) /\ \A d \in Calls \ {c} : cdr'[d] = cdr[d]
    BY <1>1, <2>1, RecordChanges
  <2>3. ~WasServiced(cdr'[c])
    BY <1>1, <2>2 DEF WasServiced, CompleteService, Records
  <2>4. ~crashed' => ~WasServiced(cdr[c])
    BY <2>1 DEF WasServiced, WasFinished, NoStatus
  <2> QED BY <1>5, <2>2, <2>3, <2>4, DoneMove
<1>6. CASE PushCallRejected(t)
  <2> DEFINE c == thread[t].call
  <2>1. PICK st \in {"kAlreadyInQueue", "kOverload"} : PushToQueue(c, st) /\ RejectCall(c, st)
    BY <1>6 DEF PushCallRejected
  <2>2. thread[t].at = "PushToQueue"
    BY <1>6 DEF PushCallRejected
  <2>3. c \in Calls
    BY <2>2, StartedIsNew
  <2>4. MovesTo(c, "gone")
    BY <1>6, PushMoves
  <2>5. in_receipt_order_' = in_receipt_order_
    BY <2>1 DEF PushToQueue, indexes
  <2> QED BY <1>5, <2>1, <2>3, <2>4, <2>5 DEF CallStatus
<1>7. ASSUME NEW c \in Calls, RejectTimeoutCall(t, c)
      PROVE  ServicedAreDone' /\ (~crashed' => ServicedCalls' = ServicedCalls)
  <2>1. RejectCall(c, "kTimeout") /\ EraseTimeoutCallFromQueue(c) /\ c # NoCall
    BY <1>7, RecordAssumption DEF RejectTimeoutCall
  <2>2. EraseFromQueue(c)
    BY <2>1 DEF EraseTimeoutCallFromQueue
  <2>3. in_receipt_order_' \subseteq in_receipt_order_
    BY <2>2 DEF EraseFromQueue, EraseCallFromMultiset
  <2>4. \E s : MovesTo(c, s)
    BY <1>7, RejectMoves
  <2> QED BY <1>5, <2>1, <2>3, <2>4 DEF CallStatus
<1>8. ASSUME NEW c \in Calls, PopCall(t, c)
      PROVE  ServicedAreDone' /\ ServicedCalls' = ServicedCalls
  <2>1. PopFromQueue(c) /\ UNCHANGED cdr /\ c # NoCall
    BY <1>8, RecordAssumption DEF PopCall
  <2>2. c \in in_receipt_order_ /\ EraseFromQueue(c)
    BY <2>1 DEF PopFromQueue, First
  <2>3. in_receipt_order_' \subseteq in_receipt_order_
    BY <2>2 DEF EraseFromQueue, EraseCallFromMultiset
  <2>4. ~WasServiced(cdr[c])
    BY <2>2 DEF ServicedAreDone
  <2>5. MovesTo(c, "popped")
    BY <1>8, PopMoves
  <2> QED BY <2>1, <2>3, <2>4, <2>5, DoneMove
<1>9. ASSUME NEW task \in finish_tasks, FinishCallProcessing(t, task) PROVE ServicedAreDone'
  <2> DEFINE c == task.call
  <2>1. c \in Calls /\ MovesTo(c, "answered")
    BY <1>9, FinishMoves
  <2>2. cdr' = [cdr EXCEPT ![c] = CompleteService(cdr[c], "kOk")] /\ UNCHANGED in_receipt_order_
    BY <1>9 DEF FinishCallProcessing, call_queue_vars
  <2>3. \A d \in Calls \ {c} : cdr'[d] = cdr[d]
    BY <1>1, <2>1, <2>2, RecordChanges
  <2>4. c \notin in_receipt_order_
    BY <1>1, <2>1 DEF Places, Placed, HeldAreOutside, Held
  <2> QED BY <2>1, <2>2, <2>3, <2>4, DoneMove
<1>10. CASE EraseFinishedFromProcessing(t)
  <2> DEFINE c == thread[t].call
  <2>1. c \in Calls /\ MovesTo(c, "gone")
    BY <1>10, LeaveMoves
  <2>2. UNCHANGED <<cdr, in_receipt_order_>>
    BY <1>10 DEF EraseFinishedFromProcessing, EraseFromProcessing, indexes
  <2> QED BY <2>1, <2>2, DoneMove DEF ServicedAreDone
<1> QED BY <1>2, <1>3, <1>4, <1>6, <1>7, <1>8, <1>9, <1>10 DEF Moving

\* UpdateOperatorCount keeps a count or starts it anew.
LEMMA UpdateBounds ==
    ASSUME NEW ops, NEW free, NEW u \in UpdateOperatorCount(ops, free), NEW s \in DOMAIN u.servers
    PROVE  u.servers[s] = 0 \/ (s \in DOMAIN servers_metrics_ /\ u.servers[s] = servers_metrics_[s])
<1>1. CASE u = [operators |-> ops, free |-> free, servers |-> servers_metrics_]
  BY <1>1
<1>2. CASE \E f : u.servers = SetServers(f)
  BY <1>2 DEF SetServers
<1>3. \/ u = [operators |-> ops, free |-> free, servers |-> servers_metrics_]
      \/ \E f : u.servers = SetServers(f)
  <2> DEFINE cur == Cardinality(ops)
             new == ReadOperatorCount(cur)
             R == IF new > cur THEN AddOperators(ops, free, new - cur)
                  ELSE RemoveOperators(ops, free, cur - new)
  <2>1. CASE new = cur
    BY <2>1 DEF UpdateOperatorCount
  <2>2. CASE new # cur
    <3>1. PICK r \in R : u = [operators |-> r.operators, free |-> r.free,
                              servers |-> SetServers(r.free)]
      BY <2>2 DEF UpdateOperatorCount
    <3> QED BY <3>1
  <2> QED BY <2>1, <2>2
<1> QED BY <1>1, <1>2, <1>3

LEMMA ServicedIsFinite == IsFiniteSet(ServicedCalls) /\ Cardinality(ServicedCalls) \in Nat
<1>1. IsFiniteSet(ServicedCalls)
  BY CallCenterAssumption, FS_Subset DEF ServicedCalls
<1> QED BY <1>1, FS_CardinalityType

\* The operations of OperatorSet leave the bound alone.
LEMMA SetBounds ==
    ASSUME ServicedBound, UNCHANGED cdr, NEW op, EraseFree(op) \/ InsertFree(op)
    PROVE  ServicedBound'
<1>1. ServicedCalls' = ServicedCalls
  BY DEF ServicedCalls
<1>2. ASSUME NEW s \in DOMAIN servers_metrics_'
      PROVE  \/ servers_metrics_'[s] = 0
             \/ s \in DOMAIN servers_metrics_ /\ servers_metrics_'[s] = servers_metrics_[s]
  <2>1. CASE UNCHANGED servers_metrics_
    BY <2>1
  <2>2. CASE \E ops, free : \E u \in UpdateOperatorCount(ops, free) : servers_metrics_' = u.servers
    BY <2>2, UpdateBounds
  <2> QED BY <2>1, <2>2 DEF EraseFree, InsertFree
<1>3. Cardinality(ServicedCalls) \in Nat
  BY ServicedIsFinite
<1>4. ASSUME NEW s \in DOMAIN servers_metrics_'
      PROVE  servers_metrics_'[s] <= Cardinality(ServicedCalls)
  BY <1>2, <1>3 DEF ServicedBound
<1> QED BY <1>1, <1>4 DEF ServicedBound

LEMMA BoundStays ==
    ASSUME ServicedBound, UNCHANGED servers_metrics_, ServicedCalls' = ServicedCalls
    PROVE  ServicedBound'
BY DEF ServicedBound

\* Each call served is one more call served.
LEMMA FinishBounds ==
    ASSUME FlowPart, PoolProofs!PoolInv, ServicedBound, ~crashed',
           NEW t \in Threads, NEW task \in finish_tasks, FinishCallProcessing(t, task)
    PROVE  ServicedBound'
<1> DEFINE c == task.call
           n == Cardinality(ServicedCalls)
<1>1. /\ cdr' = [cdr EXCEPT ![c] = CompleteService(cdr[c], "kOk")] /\ ~WasFinished(cdr[c])
      /\ AddCompletedService(task.op)
  BY DEF FinishCallProcessing, Asserting, InSystem, RecordServiceComplete
<1>2. c \in Calls /\ cdr \in [Calls -> Records]
  BY FinishMoves, BaseFacts DEF FlowPart
<1>3. cdr'[c] = CompleteService(cdr[c], "kOk") /\ \A d \in Calls \ {c} : cdr'[d] = cdr[d]
  BY <1>1, <1>2, RecordChanges
<1>4. c \notin ServicedCalls
  BY <1>1 DEF ServicedCalls, WasServiced, WasFinished, NoStatus
<1>5. WasServiced(cdr'[c])
  BY <1>2, <1>3 DEF WasServiced, CompleteService, Records
<1>6. ServicedCalls' = ServicedCalls \cup {c}
  BY <1>2, <1>3, <1>5 DEF ServicedCalls
<1>7. Cardinality(ServicedCalls') = n + 1 /\ n \in Nat
  BY <1>4, <1>6, ServicedIsFinite, FS_AddElement
<1>8. servers_metrics_ \in [DOMAIN servers_metrics_ -> Nat]
  BY DEF PoolProofs!PoolInv, PoolProofs!TypeOK
<1> HIDE DEF n
<1>9. ASSUME NEW s \in DOMAIN servers_metrics_' PROVE servers_metrics_'[s] <= n + 1
  <2>1. /\ s \in DOMAIN servers_metrics_
        /\ servers_metrics_'[s] = servers_metrics_[s] + (IF s = task.op THEN 1 ELSE 0)
    BY <1>1 DEF AddCompletedService
  <2>2. servers_metrics_[s] <= n /\ servers_metrics_[s] \in Nat
    BY <1>8, <2>1 DEF ServicedBound, n
  <2> QED BY <1>7, <2>1, <2>2
<1> QED BY <1>7, <1>9 DEF ServicedBound

\* The hidden operations that change the table of servers are those of
\* OperatorSet.
\* The table of servers changes in a hidden operation only as EraseFree and
\* InsertFree say.
LEMMA HiddenServers ==
    ASSUME NEW t \in Threads, HiddenOperation(t)
    PROVE  UNCHANGED servers_metrics_ \/ \E op : EraseFree(op) \/ InsertFree(op)
<1> USE DEF metrics_vars
<1>1. CASE \/ \E op \in OperatorIds \cup {NoOperator} :
                 EraseFreeForCall(t, op) \/ EraseFreeOperator(t, op)
           \/ InsertFreeForCall(t) \/ InsertUnusedOperator(t) \/ InsertFinishedOperator(t)
  BY <1>1 DEF EraseFreeForCall, EraseFreeOperator, InsertFreeForCall, InsertUnusedOperator,
              InsertFinishedOperator
<1>2. CASE \/ QueueIsEmptyForCall(t) \/ InsertForCallRefused(t) \/ CheckQueueIsEmpty(t)
           \/ NoTimeoutCall(t) \/ PopCall(t, NoCall) \/ ScheduleCallProcessingIteration(t)
           \/ (\E due \in 0 .. MaxTime : RunIteration(t, due)) \/ AddFinishedRecord(t)
  BY <1>2 DEF QueueIsEmptyForCall, InsertForCallRefused, CheckQueueIsEmpty, NoTimeoutCall,
              PopCall, ScheduleCallProcessingIteration, RunIteration, AddFinishedRecord
<1> QED BY <1>1, <1>2 DEF HiddenOperation

LEMMA HiddenBounds ==
    ASSUME FlowPart, ServicedBound, NEW t \in Threads, HiddenOperation(t)
    PROVE  ServicedBound'
<1>1. UNCHANGED cdr
  BY HiddenFacts
<1>2. UNCHANGED servers_metrics_ \/ \E op : EraseFree(op) \/ InsertFree(op)
  BY HiddenServers
<1>3. ServicedCalls' = ServicedCalls
  BY <1>1 DEF ServicedCalls
<1> QED BY <1>1, <1>2, <1>3, SetBounds, BoundStays

LEMMA MovingServers ==
    ASSUME NEW t \in Threads, Moving(t),
           \A task \in finish_tasks : ~FinishCallProcessing(t, task)
    PROVE  UNCHANGED servers_metrics_
<1> USE DEF metrics_vars
<1>1. CASE \E c \in Calls, phone \in Phones : PushCall(t, c, phone)
  BY <1>1 DEF PushCall, RecordRequestArrival
<1>2. CASE InsertForCall(t) \/ StartPoppedCall(t)
  BY <1>2 DEF InsertForCall, StartPoppedCall, StartCallProcessing, RecordServiceStart
<1>3. CASE PushCallToQueue(t) \/ EraseFinishedFromProcessing(t)
           \/ \E c \in Calls : PopCall(t, c)
  BY <1>3 DEF PushCallToQueue, EraseFinishedFromProcessing, PopCall
<1>4. CASE PushCallRejected(t) \/ \E c \in Calls : RejectTimeoutCall(t, c)
  BY <1>4 DEF PushCallRejected, RejectTimeoutCall, RejectCall, RecordRequestDropout
<1> QED BY <1>1, <1>2, <1>3, <1>4 DEF Moving

LEMMA MovingBounds ==
    ASSUME FlowPart, PoolProofs!PoolInv, ServicedAreDone, ServicedBound, ~crashed',
           NEW t \in Threads, Moving(t)
    PROVE  ServicedBound'
<1>1. CASE \E task \in finish_tasks : FinishCallProcessing(t, task)
  BY <1>1, FinishBounds
<1>2. CASE \A task \in finish_tasks : ~FinishCallProcessing(t, task)
  <2>1. ServicedCalls' = ServicedCalls
    BY <1>2, ServicedMoves
  <2>2. UNCHANGED servers_metrics_
    BY <1>2, MovingServers
  <2> QED BY <2>1, <2>2, BoundStays
<1> QED BY <1>1, <1>2

-----------------------------------------------------------------------------
(* CallCenter implements OperatorPool.                                     *)

\* What is inductive together with FlowPart: the invariant of OperatorPool,
\* one owner for every operator, and that the served calls are done.
PoolPart ==
    /\ PoolProofs!PoolInv
    /\ OneOwner(thread, finish_tasks)
    /\ ServicedAreDone
    /\ crashed \/ ServicedBound

\* A thread that is about to call HandleCall has a call that was not served.
LEMMA HandleIsWithinBound ==
    ASSUME FlowPart, ServicedAreDone, ServicedBound, PoolProofs!PoolInv, NEW t \in Threads,
           InsertForCall(t) \/ StartPoppedCall(t), ServerIsKnown(thread[t].op)
    PROVE  servers_metrics_[thread[t].op] < Cardinality(Calls)
<1>1. thread[t].call \in Calls \ ServicedCalls
  BY StartedIsNew DEF InsertForCall, StartPoppedCall
<1>2. ServicedCalls \in SUBSET Calls /\ ServicedCalls # Calls
  BY <1>1 DEF ServicedCalls
<1>3. /\ Cardinality(ServicedCalls) <= Cardinality(Calls)
      /\ Cardinality(ServicedCalls) # Cardinality(Calls)
  BY <1>2, CallCenterAssumption, FS_Subset
<1>4. Cardinality(ServicedCalls) \in Nat /\ Cardinality(Calls) \in Nat
  BY ServicedIsFinite, CallCenterAssumption, FS_CardinalityType
<1>5. /\ servers_metrics_[thread[t].op] <= Cardinality(ServicedCalls)
      /\ servers_metrics_[thread[t].op] \in Nat
  BY DEF ServicedBound, ServerIsKnown, PoolProofs!PoolInv, PoolProofs!TypeOK
<1> QED BY <1>3, <1>4, <1>5

\* The steps of no thread.
LEMMA ElsewhereIsSeen ==
    ASSUME FlowPart, PoolPart, Elsewhere
    PROVE  PoolStep
<1>1. UNCHANGED <<thread, finish_tasks>>
  BY ElsewhereFacts
<1>2. OneOwner(thread', finish_tasks')
  BY <1>1 DEF PoolPart
<1>3. [q \in OperatorIds |-> PhaseOf(q)]' = [q \in OperatorIds |-> PhaseOf(q)]
  BY <1>1 DEF PhaseOf, HoldsOperator
<1>4. CASE ChangeConfig
  <2>1. PoolProofs!ChangeConfig
    BY <1>3, <1>4, SamePoolOperations
       DEF ChangeConfig, Running, PoolProofs!ChangeConfig, ended, metrics_vars,
           operator_set_vars, PoolProofs!operator_set_vars
  <2> QED BY <1>2, <2>1 DEF PoolStep, PoolProofs!Next
<1>5. CASE UNCHANGED RestOfPool
  BY <1>2, <1>3, <1>5 DEF PoolStep, RestOfPool, PoolProofs!vars, operator_set_vars,
                          PoolProofs!operator_set_vars
<1>6. ChangeConfig \/ UNCHANGED RestOfPool
  BY DEF Elsewhere, PassTime, InvalidBegin, vars, center_vars, RestOfPool, ended, metrics_vars
<1> QED BY <1>4, <1>5, <1>6

LEMMA RejectTimeoutIsHidden ==
    ASSUME PoolPart, NEW t \in Threads, NEW c \in Calls, RejectTimeoutCall(t, c)
    PROVE  PoolStep
<1>1. UNCHANGED <<thread, finish_tasks, config_json_, status_, servers_metrics_, operator_set_vars>>
      /\ ~aborted /\ ~aborted'
  BY DEF RejectTimeoutCall, RejectCall, Asserting, RecordRequestDropout, Running
<1>2. aborted' = aborted
  <2>1. aborted \in BOOLEAN
    BY DEF PoolPart, PoolProofs!PoolInv, PoolProofs!TypeOK
  <2>2. aborted' \in BOOLEAN
    BY DEF RejectTimeoutCall, RejectCall, Asserting
  <2> QED BY <1>1, <2>1, <2>2
<1>3. OneOwner(thread', finish_tasks')
  BY <1>1 DEF PoolPart
<1>4. [q \in OperatorIds |-> PhaseOf(q)]' = [q \in OperatorIds |-> PhaseOf(q)]
  BY <1>1 DEF PhaseOf, HoldsOperator
<1> QED BY <1>1, <1>2, <1>3, <1>4 DEF PoolStep, PoolProofs!vars, operator_set_vars,
                                      PoolProofs!operator_set_vars

LEMMA NextIsPoolStep == FlowPart /\ PoolPart /\ [Next]_vars => PoolStep
<1> SUFFICES ASSUME FlowPart, PoolPart, [Next]_vars PROVE PoolStep
  OBVIOUS
<1>1. /\ ThreadsFit /\ ThreadsFit' /\ OneOwner(thread, finish_tasks) /\ PoolProofs!PoolInv
      /\ ServicedAreDone /\ (crashed \/ ServicedBound)
  BY FlowPartStays DEF FlowPart, PoolPart
<1>2. CASE Elsewhere
  BY <1>2, ElsewhereIsSeen
<1>3. ASSUME NEW t \in Threads, HiddenOperation(t) PROVE PoolStep
  BY <1>1, <1>3, OtherOperations, TakeIsSeen, ReturnIsSeen DEF HiddenOperation
<1>4. ASSUME NEW t \in Threads, Moving(t) PROVE PoolStep
  <2>1. CASE InsertForCall(t) \/ StartPoppedCall(t)
    <3>1. ServicedBound
      BY <1>1, <2>1 DEF InsertForCall, StartPoppedCall, Running
    <3> QED BY <1>1, <2>1, <3>1, HandleIsSeen, HandleIsWithinBound
  <2>2. ASSUME NEW c \in Calls, PopCall(t, c) \/ RejectTimeoutCall(t, c) PROVE PoolStep
    BY <1>1, <2>2, OtherOperations, RejectTimeoutIsHidden
  <2> QED BY <1>1, <1>4, <2>1, <2>2, OtherOperations, FinishIsSeen DEF Moving
<1> QED BY <1>2, <1>3, <1>4, KindsOfSteps

LEMMA PoolPartStays == FlowPart /\ PoolPart /\ [Next]_vars => PoolPart'
<1> SUFFICES ASSUME FlowPart, PoolPart, [Next]_vars PROVE PoolPart'
  OBVIOUS
<1>1. OneOwner(thread', finish_tasks') /\ [PoolProofs!Next]_(PoolProofs!vars)
  BY NextIsPoolStep DEF PoolStep
<1>2. /\ PoolProofs!PoolInv /\ ServicedAreDone /\ (crashed \/ ServicedBound)
  BY DEF PoolPart
<1>3. PoolProofs!PoolInv'
  BY <1>1, <1>2, PoolConstants, PoolProofs!PoolNextInv
<1>4. ServicedAreDone' /\ (crashed' \/ ServicedBound')
  <2>1. CASE Elsewhere
    <3>1. HiddenStep /\ UNCHANGED <<cdr, in_receipt_order_>>
      BY <2>1, ElsewhereFacts
    <3>2. UNCHANGED servers_metrics_ /\ (crashed => crashed')
      BY <2>1 DEF Elsewhere, PassTime, ChangeConfig, InvalidBegin, vars, center_vars,
                  metrics_vars, ended, Running
    <3>3. ServicedCalls' = ServicedCalls
      BY <3>1 DEF ServicedCalls
    <3> QED BY <1>2, <3>1, <3>2, <3>3, DoneHidden, BoundStays
  <2>2. ASSUME NEW t \in Threads, HiddenOperation(t)
        PROVE  ServicedAreDone' /\ (crashed' \/ ServicedBound')
    <3>1. HiddenStep /\ UNCHANGED <<cdr, in_receipt_order_, crashed>>
      BY <2>2, HiddenFacts
    <3> QED BY <1>2, <2>2, <3>1, DoneHidden, HiddenBounds
  <2>3. ASSUME NEW t \in Threads, Moving(t)
        PROVE  ServicedAreDone' /\ (crashed' \/ ServicedBound')
    <3>1. ~crashed
      BY <2>3 DEF Moving, PushCall, InsertForCall, StartPoppedCall, PushCallToQueue,
                  PushCallRejected, PopCall, RejectTimeoutCall, FinishCallProcessing,
                  EraseFinishedFromProcessing, Running
    <3> QED BY <1>2, <2>3, <3>1, ServicedMoves, MovingBounds
  <2> QED BY <2>1, <2>2, <2>3, KindsOfSteps
<1> QED BY <1>1, <1>3, <1>4 DEF PoolPart

\* Nobody owns an operator when the process starts.
LEMMA InitIsPoolInit == Init => PoolProofs!Init /\ PoolPart
<1> SUFFICES ASSUME Init PROVE PoolProofs!Init /\ PoolPart
  OBVIOUS
<1>1. /\ thread = [t \in Threads |-> Idle] /\ finish_tasks = {} /\ in_receipt_order_ = {}
      /\ cdr = [c \in Calls |-> Unborn] /\ servers_metrics_ = [s \in operators_ |-> 0]
  BY DEF Init, CallQueueInit, RecordsInit, OperatorSetInit, ServersMetricsInit
<1>2. \A op \in OperatorIds : PhaseOf(op) = "unowned"
  BY <1>1 DEF PhaseOf, HoldsOperator, Idle
<1>3. PoolProofs!Init
  <2>1. [op \in OperatorIds |-> PhaseOf(op)] = [op \in OperatorIds |-> "unowned"]
    BY <1>2
  <2>2. PoolProofs!ConfigInit /\ PoolProofs!OperatorInit
        /\ PoolProofs!OperatorSetInit(DefaultOperatorCount)
    BY DEF Init, ConfigInit, PoolProofs!ConfigInit, Configurations, PoolProofs!Configurations,
           OperatorInit, PoolProofs!OperatorInit, OperatorSetInit, PoolProofs!OperatorSetInit,
           ServersMetricsInit, PoolProofs!ServersMetricsInit, ReadOperatorCount,
           PoolProofs!ReadOperatorCount, GetNumber, PoolProofs!GetNumber, GetProperty,
           PoolProofs!GetProperty, Missing, PoolProofs!Missing, Cardinality,
           PoolProofs!Cardinality
  <2> QED BY <2>1, <2>2 DEF Init, PoolProofs!Init
<1>4. PoolProofs!PoolInv
  BY <1>3, PoolConstants, PoolProofs!PoolInitInv
<1>5. OneOwner(thread, finish_tasks)
  BY <1>1, ServerAssumption DEF OneOwner, Idle
<1>6. ServicedCalls = {}
  BY <1>1 DEF ServicedCalls, WasServiced, Unborn, NoStatus
<1>7. ServicedAreDone /\ ServicedBound
  BY <1>1, <1>6, FS_EmptySet DEF ServicedAreDone, ServicedBound
<1> QED BY <1>3, <1>4, <1>5, <1>7 DEF PoolPart

\* Every operator is free, or with one thread, or with one finish task.
THEOREM EveryOperatorHasItsOwner == Spec => []PoolPart
BY InitIsPoolInit, PoolPartStays, EveryCallHasItsPlace, PTL DEF Spec

\* The two instances of OperatorPool are one.
LEMMA SamePool ==
    /\ PoolProofs!Init <=> Pool!Init
    /\ PoolProofs!Next <=> Pool!Next
    /\ UNCHANGED PoolProofs!vars <=> UNCHANGED Pool!vars
<1>1. /\ PoolProofs!Init <=> Pool!Init
      /\ UNCHANGED PoolProofs!vars <=> UNCHANGED Pool!vars
  BY DEF PoolProofs!Init, Pool!Init, PoolProofs!vars, Pool!vars, PoolProofs!operator_set_vars,
         Pool!operator_set_vars, PoolProofs!ConfigInit, Pool!ConfigInit,
         PoolProofs!Configurations, Pool!Configurations, PoolProofs!OperatorInit,
         Pool!OperatorInit, PoolProofs!OperatorSetInit, Pool!OperatorSetInit,
         PoolProofs!ServersMetricsInit, Pool!ServersMetricsInit, PoolProofs!ReadOperatorCount,
         Pool!ReadOperatorCount, PoolProofs!GetNumber, Pool!GetNumber, PoolProofs!GetProperty,
         Pool!GetProperty, PoolProofs!Missing, Pool!Missing, PoolProofs!Cardinality,
         Pool!Cardinality
<1>2. \A ops, free : PoolProofs!UpdateOperatorCount(ops, free) = Pool!UpdateOperatorCount(ops, free)
  BY DEF PoolProofs!UpdateOperatorCount, Pool!UpdateOperatorCount, PoolProofs!AddOperators,
         Pool!AddOperators, PoolProofs!RemoveOperators, Pool!RemoveOperators,
         PoolProofs!ReadOperatorCount, Pool!ReadOperatorCount, PoolProofs!GetNumber,
         Pool!GetNumber, PoolProofs!GetProperty, Pool!GetProperty, PoolProofs!Missing,
         Pool!Missing, PoolProofs!SetServers, Pool!SetServers, PoolProofs!Cardinality,
         Pool!Cardinality
<1>3. \A op : PoolProofs!Take(op) <=> Pool!Take(op)
  BY <1>2 DEF PoolProofs!Take, Pool!Take, PoolProofs!EraseFree, Pool!EraseFree
<1>4. \A op : PoolProofs!Return(op) <=> Pool!Return(op)
  BY <1>2 DEF PoolProofs!Return, Pool!Return, PoolProofs!InsertFree, Pool!InsertFree
<1>5. \A op : (PoolProofs!Handle(op) <=> Pool!Handle(op))
              /\ (PoolProofs!Finish(op) <=> Pool!Finish(op))
  BY DEF PoolProofs!Handle, Pool!Handle, PoolProofs!Finish, Pool!Finish,
         PoolProofs!Asserting, Pool!Asserting, PoolProofs!IsFree, Pool!IsFree,
         PoolProofs!ServerIsKnown, Pool!ServerIsKnown, PoolProofs!HandleCall, Pool!HandleCall,
         PoolProofs!FinishHandle, Pool!FinishHandle, PoolProofs!AddCompletedService,
         Pool!AddCompletedService, PoolProofs!operator_set_vars, Pool!operator_set_vars
<1>6. (PoolProofs!ChangeConfig <=> Pool!ChangeConfig) /\ (PoolProofs!Rest <=> Pool!Rest)
  BY <1>1 DEF PoolProofs!ChangeConfig, Pool!ChangeConfig, PoolProofs!UpdateConfiguration,
         Pool!UpdateConfiguration, PoolProofs!Configurations, Pool!Configurations,
         PoolProofs!operator_set_vars, Pool!operator_set_vars, PoolProofs!Rest, Pool!Rest
<1> QED BY <1>1, <1>3, <1>4, <1>5, <1>6 DEF PoolProofs!Next, Pool!Next

\* However the threads interleave and whatever the file says, what CallCenter
\* does to the operators is a behaviour of OperatorPool.
THEOREM OperatorPoolRefinement == Spec => ImplementsOperatorPool
<1>1. Init => Pool!Init
  BY InitIsPoolInit, SamePool
<1>2. FlowPart /\ PoolPart /\ [Next]_vars => [Pool!Next]_(Pool!vars)
  BY NextIsPoolStep, SamePool DEF PoolStep
<1> QED BY <1>1, <1>2, EveryCallHasItsPlace, EveryOperatorHasItsOwner, PTL
        DEF Spec, ImplementsOperatorPool, Pool!Spec

-----------------------------------------------------------------------------
(* Types.                                                                  *)

\* The rest of the state: what is only added to, and the timers, of which
\* RunIteration takes one that is there.
Tallies ==
    /\ arrival_count_ \in Nat /\ dropout_count_ \in Nat
    /\ current_in_system_count_ \in Int
    /\ iteration_timers \in [0 .. MaxTime -> Nat]
    /\ journal \in [Calls -> Nat]

tally_vars == <<arrival_count_, dropout_count_, current_in_system_count_, iteration_timers,
                journal>>

\* One more of something, whether or not it is in the table.
LEMMA OneMore ==
    ASSUME NEW S, NEW f \in [S -> Nat], NEW i
    PROVE  [f EXCEPT ![i] = @ + 1] \in [S -> Nat]
<1> DEFINE g == [f EXCEPT ![i] = @ + 1]
<1>1. g = [s \in S |-> IF s = i THEN f[i] + 1 ELSE f[s]]
  OBVIOUS
<1>2. \A s \in S : f[s] \in Nat /\ f[s] + 1 \in Nat
  OBVIOUS
<1> QED BY <1>1, <1>2

LEMMA HiddenTallies ==
    ASSUME FlowPart, Tallies, NEW t \in Threads, HiddenOperation(t) PROVE Tallies'
<1>1. UNCHANGED counters
  BY HiddenFacts
<1>2. ASSUME NEW i PROVE [iteration_timers EXCEPT ![i] = @ + 1] \in [0 .. MaxTime -> Nat]
  BY OneMore DEF Tallies
<1>3. ASSUME NEW c PROVE [journal EXCEPT ![c] = @ + 1] \in [Calls -> Nat]
  BY OneMore DEF Tallies
<1>4. CASE ScheduleCallProcessingIteration(t)
  <2>1. UNCHANGED journal
    BY <1>4 DEF ScheduleCallProcessingIteration
  <2>2. iteration_timers' = iteration_timers
        \/ \E i : iteration_timers' = [iteration_timers EXCEPT ![i] = @ + 1]
    BY <1>4 DEF ScheduleCallProcessingIteration
  <2>3. iteration_timers' \in [0 .. MaxTime -> Nat]
    BY <1>2, <2>2 DEF Tallies
  <2> QED BY <1>1, <2>1, <2>3 DEF Tallies, counters
<1>5. ASSUME NEW due \in 0 .. MaxTime, RunIteration(t, due) PROVE Tallies'
  <2>1. /\ iteration_timers[due] > 0 /\ UNCHANGED journal
        /\ iteration_timers' = [iteration_timers EXCEPT ![due] = @ - 1]
    BY <1>5 DEF RunIteration
  <2>2. iteration_timers' \in [0 .. MaxTime -> Nat]
    BY <2>1 DEF Tallies
  <2> QED BY <1>1, <2>1, <2>2 DEF Tallies, counters
<1>6. CASE AddFinishedRecord(t)
  <2>1. UNCHANGED iteration_timers /\ journal' = [journal EXCEPT ![thread[t].call] = @ + 1]
    BY <1>6 DEF AddFinishedRecord, AddRecord
  <2> QED BY <1>1, <1>3, <2>1 DEF Tallies, counters
<1>7. CASE \/ QueueIsEmptyForCall(t) \/ InsertForCallRefused(t) \/ InsertFreeForCall(t)
           \/ (\E op \in OperatorIds \cup {NoOperator} : EraseFreeForCall(t, op))
           \/ CheckQueueIsEmpty(t) \/ NoTimeoutCall(t) \/ PopCall(t, NoCall)
           \/ (\E op \in OperatorIds \cup {NoOperator} : EraseFreeOperator(t, op))
           \/ InsertUnusedOperator(t) \/ InsertFinishedOperator(t)
  <2>1. UNCHANGED <<iteration_timers, journal>>
    BY <1>7 DEF QueueIsEmptyForCall, InsertForCallRefused, InsertFreeForCall, EraseFreeForCall,
                CheckQueueIsEmpty, NoTimeoutCall, PopCall, EraseFreeOperator,
                InsertUnusedOperator, InsertFinishedOperator
  <2> QED BY <1>1, <2>1 DEF Tallies, counters
<1> QED BY <1>4, <1>5, <1>6, <1>7 DEF HiddenOperation

LEMMA MovingTallies ==
    ASSUME Tallies, NEW t \in Threads, Moving(t) PROVE Tallies'
<1>1. ASSUME NEW c PROVE [journal EXCEPT ![c] = @ + 1] \in [Calls -> Nat]
  BY OneMore DEF Tallies
<1>2. CASE \E c \in Calls, phone \in Phones : PushCall(t, c, phone)
  BY <1>2 DEF PushCall, RecordRequestArrival, Tallies
<1>3. CASE InsertForCall(t) \/ StartPoppedCall(t)
  <2>1. RecordServiceStart /\ UNCHANGED <<iteration_timers, journal>>
    BY <1>3 DEF InsertForCall, StartPoppedCall, StartCallProcessing
  <2> QED BY <2>1 DEF RecordServiceStart, Tallies
<1>4. CASE PushCallToQueue(t) \/ EraseFinishedFromProcessing(t)
           \/ \E c \in Calls : PopCall(t, c)
  <2>1. UNCHANGED tally_vars
    BY <1>4 DEF PushCallToQueue, EraseFinishedFromProcessing, PopCall, metrics_vars, counters,
                tally_vars
  <2> QED BY <2>1 DEF tally_vars, Tallies
<1>5. CASE PushCallRejected(t) \/ \E c \in Calls : RejectTimeoutCall(t, c)
  <2>1. /\ RecordRequestDropout /\ UNCHANGED iteration_timers
        /\ \E c : journal' = [journal EXCEPT ![c] = @ + 1]
    BY <1>5 DEF PushCallRejected, RejectTimeoutCall, RejectCall, AddRecord
  <2>2. journal' \in [Calls -> Nat]
    BY <1>1, <2>1
  <2> QED BY <2>1, <2>2 DEF RecordRequestDropout, Tallies
<1>6. CASE \E task \in finish_tasks : FinishCallProcessing(t, task)
  <2>1. PICK task \in finish_tasks : FinishCallProcessing(t, task)
    BY <1>6
  <2>2. RecordServiceComplete(task.op) /\ UNCHANGED <<iteration_timers, journal>>
    BY <2>1 DEF FinishCallProcessing
  <2> QED BY <2>2 DEF RecordServiceComplete, Tallies
<1> QED BY <1>2, <1>3, <1>4, <1>5, <1>6 DEF Moving

LEMMA TalliesAlways == Spec => []Tallies
<1>1. Init => Tallies
  BY DEF Init, CountersInit, Tallies
<1>2. FlowPart /\ Tallies /\ [Next]_vars => Tallies'
  <2> SUFFICES ASSUME FlowPart, Tallies, [Next]_vars PROVE Tallies'
    OBVIOUS
  <2>1. CASE Elsewhere
    <3>1. UNCHANGED tally_vars
      BY <2>1 DEF Elsewhere, PassTime, ChangeConfig, InvalidBegin, vars, center_vars,
                  metrics_vars, counters, tally_vars
    <3> QED BY <3>1 DEF tally_vars, Tallies
  <2>2. ASSUME NEW t \in Threads, HiddenOperation(t) \/ Moving(t) PROVE Tallies'
    BY <2>2, HiddenTallies, MovingTallies
  <2> QED BY <2>1, <2>2, KindsOfSteps
<1> QED BY <1>1, <1>2, EveryCallHasItsPlace, PTL DEF Spec

\* The types of all of CallCenter; neither current count ever passes below
\* zero, where the size_t of the code would wrap.
THEOREM TypeTheorem == Spec => [](Flow!Twins \/ TypeOK)
<1>1. FlowPart /\ PoolPart /\ CountersFit /\ Tallies => TypeOK
  <2> SUFFICES ASSUME FlowPart, PoolPart, CountersFit, Tallies PROVE TypeOK
    OBVIOUS
  <2>1. /\ now \in 0 .. MaxTime /\ cdr \in [Calls -> Records]
        /\ in_processing_ \in SUBSET Calls /\ in_timout_point_order_ \in SUBSET Calls
        /\ in_receipt_order_ \in SUBSET Calls /\ capacity_ \in Nat /\ crashed \in BOOLEAN
    BY BaseFacts DEF FlowPart, FlowProofs!FlowBase, FlowProofs!FlowTypeOK
  <2>2. /\ config_json_ \in Configurations /\ status_ \in [OperatorIds -> Status] /\ operators_ \in SUBSET OperatorIds
        /\ free_operators_ \in SUBSET OperatorIds
        /\ servers_metrics_ \in [DOMAIN servers_metrics_ -> Nat] /\ aborted \in BOOLEAN
    BY DEF PoolPart, PoolProofs!PoolInv, PoolProofs!TypeOK, PoolProofs!Status, Status,
           PoolProofs!Configurations, Configurations
  <2>3. current_queue_size_ \in Nat /\ current_in_system_count_ \in Nat
    BY CountsAreNumbers DEF CountersFit
  <2>4. /\ thread \in [Threads -> [at : Labels, call : Calls \cup {NoCall},
                                   op : OperatorIds \cup {NoOperator}]]
        /\ finish_tasks \in SUBSET [call : Calls, op : OperatorIds, due : 0 .. MaxTime]
    BY DEF FlowPart, ThreadsFit, ThreadMaps, ThreadStates, TaskSets, Tasks
  <2> QED BY <2>1, <2>2, <2>3, <2>4 DEF Tallies, TypeOK
<1> QED BY <1>1, EveryCallHasItsPlace, EveryOperatorHasItsOwner, CountersAlways, TalliesAlways, PTL

-----------------------------------------------------------------------------
(* A file that never changes "operator_count".                             *)

LEMMA PoolIsImplemented == Spec => PoolProofs!Spec
<1>1. Init => PoolProofs!Init
  BY InitIsPoolInit
<1>2. FlowPart /\ PoolPart /\ [Next]_vars => [PoolProofs!Next]_(PoolProofs!vars)
  BY NextIsPoolStep DEF PoolStep
<1> QED BY <1>1, <1>2, EveryCallHasItsPlace, EveryOperatorHasItsOwner, PTL
        DEF Spec, PoolProofs!Spec

\* No assertion about an operator fails either, in the middle of any
\* interleaving, ...
THEOREM NeverAbortsTheorem ==
    ASSUME \A m, n \in OperatorCounts : m = n
    PROVE  Spec => []~aborted
<1>1. PoolProofs!OneCount
  BY DEF PoolProofs!OneCount
<1>2. PoolProofs!Spec => []PoolProofs!NoAssertionFails
  BY <1>1, PoolConstants, PoolProofs!OneCountTheorem
<1>3. PoolProofs!NoAssertionFails => ~aborted
  BY DEF PoolProofs!NoAssertionFails
<1> QED BY <1>2, <1>3, PoolIsImplemented, PTL

\* ... and the counts add up, in the middle of an operation too.
ArrivalsFit ==
    arrival_count_ = GetServicedCount + dropout_count_ + current_in_system_count_

\* The table of servers that counts is finite.
LEMMA ServersAreFinite ==
    ASSUME PoolPart, PoolProofs!Steady
    PROVE  /\ DOMAIN servers_metrics_ = operators_
           /\ IsFiniteSet(operators_)
           /\ servers_metrics_ \in [operators_ -> Int]
           /\ GetServicedCount \in Int
<1>1. DOMAIN servers_metrics_ = operators_
  BY DEF PoolProofs!Steady
<1>2. /\ servers_metrics_ \in [DOMAIN servers_metrics_ -> Nat]
      /\ operators_ \in SUBSET OperatorIds
  BY DEF PoolPart, PoolProofs!PoolInv, PoolProofs!TypeOK
<1>3. IsFiniteSet(operators_)
  BY <1>2, EnoughIds, FS_Subset
<1>4. servers_metrics_ \in [operators_ -> Int]
  BY <1>1, <1>2
<1> QED BY <1>1, <1>3, <1>4, SumFunctionType DEF GetServicedCount

\* RecordServiceComplete counts one call more as serviced and one less as in
\* the system: the operator of the task is in the table.
LEMMA FinishArrivals ==
    ASSUME FlowPart, PoolPart, PoolProofs!Steady, Tallies, ArrivalsFit,
           NEW t \in Threads, NEW task \in finish_tasks, FinishCallProcessing(t, task)
    PROVE  ArrivalsFit'
<1> DEFINE f == servers_metrics_
           S == operators_
           h == [s \in S |-> f[s] + IF s = task.op THEN 1 ELSE 0]
<1>1. /\ servers_metrics_' = [s \in DOMAIN f |-> f[s] + (IF s = task.op THEN 1 ELSE 0)]
      /\ current_in_system_count_' = current_in_system_count_ - 1
      /\ UNCHANGED <<arrival_count_, dropout_count_>>
  BY DEF FinishCallProcessing, RecordServiceComplete, AddCompletedService
<1>2. DOMAIN f = S /\ IsFiniteSet(S) /\ f \in [S -> Int] /\ GetServicedCount \in Int
  BY ServersAreFinite
<1>3. task.op \in OperatorIds
  BY DEF FlowPart, ThreadsFit, TaskSets, Tasks
<1>4. task.op \in S
  <2>1. PhaseOf(task.op) = "handling"
    BY DEF PhaseOf
  <2> QED BY <1>3, <2>1 DEF PoolPart, PoolProofs!PoolInv, PoolProofs!OwnershipIsExclusive,
                            PoolProofs!Held
<1>5. h \in [S -> Int] /\ h[task.op] = f[task.op] + 1 /\ \A s \in S \ {task.op} : h[s] = f[s]
  BY <1>2, <1>4
<1>6. SumFunction(h) = SumFunction(f) + 1
  <2> HIDE DEF f, S, h
  <2> QED BY <1>2, <1>4, <1>5, SumFunctionChange
<1>7. servers_metrics_' = h
  BY <1>1, <1>2
<1>8. GetServicedCount' = GetServicedCount + 1
  BY <1>6, <1>7 DEF GetServicedCount
<1> HIDE DEF f, S, h
<1> QED BY <1>1, <1>2, <1>8 DEF ArrivalsFit, Tallies

LEMMA MovingArrivals ==
    ASSUME FlowPart, PoolPart, PoolProofs!Steady, Tallies, ArrivalsFit,
           NEW t \in Threads, Moving(t)
    PROVE  ArrivalsFit'
<1>1. CASE \E task \in finish_tasks : FinishCallProcessing(t, task)
  BY <1>1, FinishArrivals
<1>2. CASE \A task \in finish_tasks : ~FinishCallProcessing(t, task)
  <2>1. GetServicedCount' = GetServicedCount
    BY <1>2, MovingServers DEF GetServicedCount
  <2>2. GetServicedCount \in Int
    BY ServersAreFinite
  <2>3. CASE \E c \in Calls, phone \in Phones : PushCall(t, c, phone)
    <3>1. RecordRequestArrival
      BY <2>3 DEF PushCall
    <3> QED BY <2>1, <2>2, <3>1 DEF RecordRequestArrival, ArrivalsFit, Tallies
  <2>4. CASE InsertForCall(t) \/ StartPoppedCall(t)
    <3>1. RecordServiceStart
      BY <2>4 DEF InsertForCall, StartPoppedCall, StartCallProcessing
    <3> QED BY <2>1, <3>1 DEF RecordServiceStart, ArrivalsFit
  <2>5. CASE PushCallToQueue(t) \/ EraseFinishedFromProcessing(t)
             \/ \E c \in Calls : PopCall(t, c)
    <3>1. UNCHANGED counters
      BY <2>5 DEF PushCallToQueue, EraseFinishedFromProcessing, PopCall, metrics_vars
    <3> QED BY <2>1, <3>1 DEF counters, ArrivalsFit
  <2>6. CASE PushCallRejected(t) \/ \E c \in Calls : RejectTimeoutCall(t, c)
    <3>1. RecordRequestDropout
      BY <2>6 DEF PushCallRejected, RejectTimeoutCall, RejectCall
    <3> QED BY <2>1, <2>2, <3>1 DEF RecordRequestDropout, ArrivalsFit, Tallies
  <2> QED BY <1>2, <2>3, <2>4, <2>5, <2>6 DEF Moving
<1> QED BY <1>1, <1>2

LEMMA ArrivalsStep ==
    FlowPart /\ PoolPart /\ PoolProofs!Steady /\ Tallies /\ ArrivalsFit /\ [Next]_vars
    => ArrivalsFit'
<1> SUFFICES ASSUME FlowPart, PoolPart, PoolProofs!Steady, Tallies, ArrivalsFit, [Next]_vars
             PROVE  ArrivalsFit'
  OBVIOUS
<1>1. ASSUME UNCHANGED <<counters, servers_metrics_>> PROVE ArrivalsFit'
  <2>1. GetServicedCount' = GetServicedCount
    BY <1>1 DEF GetServicedCount
  <2> QED BY <1>1, <2>1 DEF counters, ArrivalsFit
<1>2. CASE Elsewhere
  <2>1. UNCHANGED <<counters, servers_metrics_>>
    BY <1>2 DEF Elsewhere, PassTime, ChangeConfig, InvalidBegin, vars, center_vars, metrics_vars
  <2> QED BY <1>1, <2>1
<1>3. ASSUME NEW t \in Threads, HiddenOperation(t) PROVE ArrivalsFit'
  <2>1. UNCHANGED counters
    BY <1>3, HiddenFacts
  <2>2. UNCHANGED servers_metrics_ \/ \E op : EraseFree(op) \/ InsertFree(op)
    BY <1>3, HiddenServers
  <2>3. ASSUME NEW op, EraseFree(op) \/ InsertFree(op) PROVE UNCHANGED servers_metrics_
    <3>1. PoolProofs!EraseFree(op) \/ PoolProofs!InsertFree(op)
      BY <2>3, SamePoolOperations
    <3> QED BY <3>1, PoolConstants, PoolProofs!SteadyOperations
  <2> QED BY <1>1, <2>1, <2>2, <2>3
<1>4. ASSUME NEW t \in Threads, Moving(t) PROVE ArrivalsFit'
  BY <1>4, MovingArrivals
<1> QED BY <1>2, <1>3, <1>4, KindsOfSteps

\* Every call that has arrived is serviced, dropped or in the system.
THEOREM ArrivalsTheorem ==
    ASSUME \A m, n \in OperatorCounts : m = n
    PROVE  Spec => []ArrivalsAreAccountedFor
<1>1. PoolProofs!OneCount
  BY DEF PoolProofs!OneCount
<1>2. PoolProofs!Spec => []PoolProofs!Steady
  BY <1>1, PoolConstants, PoolProofs!SteadyAlways
<1>3. Init => ArrivalsFit
  <2> SUFFICES ASSUME Init PROVE ArrivalsFit
    OBVIOUS
  <2>1. /\ servers_metrics_ = [s \in operators_ |-> 0] /\ operators_ \in SUBSET OperatorIds
        /\ CountersInit
    BY DEF Init, OperatorSetInit, ServersMetricsInit
  <2>2. IsFiniteSet(operators_)
    BY <2>1, EnoughIds, FS_Subset
  <2>3. servers_metrics_ \in [operators_ -> Nat] /\ servers_metrics_ \in [operators_ -> Int]
    BY <2>1
  <2>4. GetServicedCount \in Nat
    BY <2>2, <2>3, SumFunctionType DEF GetServicedCount
  <2>5. GetServicedCount <= Cardinality(operators_) * 0
    <3>1. \A s \in operators_ : servers_metrics_[s] <= 0
      BY <2>1
    <3> QED BY <2>2, <2>3, <3>1, SumFunctionBound DEF GetServicedCount
  <2>6. Cardinality(operators_) \in Nat
    BY <2>2, FS_CardinalityType
  <2>7. GetServicedCount = 0
    BY <2>4, <2>5, <2>6
  <2> QED BY <2>1, <2>7 DEF CountersInit, ArrivalsFit
<1>4. ArrivalsFit => ArrivalsAreAccountedFor
  BY DEF ArrivalsFit, ArrivalsAreAccountedFor
<1> QED BY <1>2, <1>3, <1>4, ArrivalsStep, PoolIsImplemented, EveryCallHasItsPlace,
           EveryOperatorHasItsOwner, TalliesAlways, PTL DEF Spec

-----------------------------------------------------------------------------
(* Nobody waits without a timer.                                           *)

\* The calls whose wait is over at T, the threads that are going to look at
\* the queue, and the number of timers that expire by T.
EndingBy(recs, receipt, T) == {c \in receipt : recs[c].timeout_point_ <= T}

Iterating(th) == {t \in Threads : th[t].at \in IterationLabels}

TimersBy(timers, T) ==
    SumFunction([i \in 0 .. MaxTime |-> IF i <= T THEN timers[i] ELSE 0])

\* An iteration may end without setting a timer, when it has found an operator
\* for the first call; the others then need iterations or timers of their own.
\* So it is their number that counts: by each instant there are as many
\* iterations, under way or due, as there are calls whose wait ends by then.
Planned(recs, receipt, th, timers) ==
    \A T \in 0 .. MaxTime :
        Cardinality(EndingBy(recs, receipt, T)) <= Cardinality(Iterating(th)) + TimersBy(timers, T)

Timers == [0 .. MaxTime -> Nat]

LEMMA PlanIsFinite ==
    ASSUME NEW recs, NEW R \in SUBSET Calls, NEW th, NEW timers \in Timers, NEW T \in Int
    PROVE  /\ IsFiniteSet(EndingBy(recs, R, T)) /\ Cardinality(EndingBy(recs, R, T)) \in Nat
           /\ IsFiniteSet(Iterating(th)) /\ Cardinality(Iterating(th)) \in Nat
           /\ TimersBy(timers, T) \in Nat
<1>1. IsFiniteSet(EndingBy(recs, R, T)) /\ IsFiniteSet(Iterating(th))
  <2>1. IsFiniteSet(Threads)
    BY CallCenterAssumption, FS_Union DEF Threads
  <2>2. EndingBy(recs, R, T) \in SUBSET Calls /\ Iterating(th) \in SUBSET Threads
    BY DEF EndingBy, Iterating
  <2> QED BY <2>1, <2>2, CallCenterAssumption, FS_Subset
<1>2. TimersBy(timers, T) \in Nat
  <2> DEFINE f == [i \in 0 .. MaxTime |-> IF i <= T THEN timers[i] ELSE 0]
  <2>1. f \in [0 .. MaxTime -> Nat]
    BY DEF Timers
  <2>2. IsFiniteSet(0 .. MaxTime)
    BY RecordAssumption, FS_Interval
  <2> HIDE DEF f
  <2>3. SumFunction(f) \in Nat
    BY <2>1, <2>2, SumFunctionType
  <2> QED BY <2>3 DEF TimersBy, f
<1> QED BY <1>1, <1>2, FS_CardinalityType

\* A timer counts from its instant on.
LEMMA OneTimerMore ==
    ASSUME NEW timers \in Timers, NEW timers2 \in Timers, NEW i, i \in 0 .. MaxTime,
           timers2[i] = timers[i] + 1,
           \A j \in 0 .. MaxTime : j # i => timers2[j] = timers[j],
           NEW T \in Int
    PROVE  TimersBy(timers2, T) = TimersBy(timers, T) + One(i <= T)
<1>1. PICK S : S = 0 .. MaxTime
  OBVIOUS
<1>2. PICK f, h : /\ f = [j \in S |-> IF j <= T THEN timers[j] ELSE 0]
                  /\ h = [j \in S |-> IF j <= T THEN timers2[j] ELSE 0]
  OBVIOUS
<1>3. TimersBy(timers, T) = SumFunction(f) /\ TimersBy(timers2, T) = SumFunction(h)
  BY <1>1, <1>2 DEF TimersBy
<1>4. IsFiniteSet(S) /\ i \in S
  BY <1>1, RecordAssumption, FS_Interval
<1>5. f \in [S -> Int] /\ h \in [S -> Int]
  BY <1>1, <1>2 DEF Timers
<1>6. CASE i <= T
  <2>1. h[i] = f[i] + 1 /\ \A s \in S \ {i} : h[s] = f[s]
    BY <1>1, <1>2, <1>6 DEF Timers
  <2>2. SumFunction(h) = SumFunction(f) + 1
    BY ONLY <1>4, <1>5, <2>1, SumFunctionChange
  <2> QED BY <1>3, <1>6, <2>2 DEF One
<1>7. CASE ~(i <= T)
  <2>1. h = f
    BY <1>1, <1>2, <1>7
  <2>2. TimersBy(timers, T) \in Nat
    BY PlanIsFinite
  <2> QED BY <1>3, <1>7, <2>1, <2>2 DEF One
<1> QED BY <1>6, <1>7

\* Steps that need no new plan: no call more, no iteration less.
LEMMA PlanStays ==
    ASSUME NEW recs, NEW recs2, NEW R \in SUBSET Calls, NEW R2 \in SUBSET R,
           \A c \in R2 : recs2[c].timeout_point_ = recs[c].timeout_point_,
           NEW th, NEW th2, Iterating(th) \subseteq Iterating(th2),
           NEW timers \in Timers, Planned(recs, R, th, timers)
    PROVE  Planned(recs2, R2, th2, timers)
<1> SUFFICES ASSUME NEW T \in 0 .. MaxTime
             PROVE  Cardinality(EndingBy(recs2, R2, T)) <=
                        Cardinality(Iterating(th2)) + TimersBy(timers, T)
  BY DEF Planned
<1>1. EndingBy(recs2, R2, T) \subseteq EndingBy(recs, R, T)
  BY DEF EndingBy
<1>2. /\ IsFiniteSet(EndingBy(recs, R, T)) /\ Cardinality(EndingBy(recs, R, T)) \in Nat
      /\ IsFiniteSet(Iterating(th2)) /\ Cardinality(Iterating(th2)) \in Nat
      /\ Cardinality(Iterating(th)) \in Nat /\ TimersBy(timers, T) \in Nat
  BY PlanIsFinite
<1>3. Cardinality(EndingBy(recs2, R2, T)) \in Nat
  BY <1>1, <1>2, FS_Subset, FS_CardinalityType
<1>4. Cardinality(EndingBy(recs2, R2, T)) <= Cardinality(EndingBy(recs, R, T))
  BY <1>1, <1>2, FS_Subset
<1>5. Cardinality(Iterating(th)) <= Cardinality(Iterating(th2))
  BY <1>2, FS_Subset
<1>6. Cardinality(EndingBy(recs, R, T)) <= Cardinality(Iterating(th)) + TimersBy(timers, T)
  BY DEF Planned
<1> QED BY ONLY <1>2, <1>3, <1>4, <1>5, <1>6

\* Nobody waits.
LEMMA NobodyWaits ==
    ASSUME NEW recs, NEW th, NEW timers \in Timers PROVE Planned(recs, {}, th, timers)
<1> SUFFICES ASSUME NEW T \in 0 .. MaxTime
             PROVE  Cardinality(EndingBy(recs, {}, T)) <=
                        Cardinality(Iterating(th)) + TimersBy(timers, T)
  BY DEF Planned
<1>1. EndingBy(recs, {}, T) = {}
  BY DEF EndingBy
<1>2. Cardinality(EndingBy(recs, {}, T)) = 0
  BY <1>1, FS_EmptySet
<1>3. {} \in SUBSET Calls
  OBVIOUS
<1>4. Cardinality(Iterating(th)) \in Nat /\ TimersBy(timers, T) \in Nat
  BY <1>3, PlanIsFinite
<1> QED BY <1>2, <1>4

\* A call that is pushed brings an iteration of its own.
LEMMA PlanForNew ==
    ASSUME NEW recs, NEW R \in SUBSET Calls, NEW c \in Calls, NEW th, NEW th2, NEW t,
           t \notin Iterating(th), Iterating(th2) = Iterating(th) \cup {t},
           NEW timers \in Timers, Planned(recs, R, th, timers)
    PROVE  Planned(recs, R \cup {c}, th2, timers)
<1> SUFFICES ASSUME NEW T \in 0 .. MaxTime
             PROVE  Cardinality(EndingBy(recs, R \cup {c}, T)) <=
                        Cardinality(Iterating(th2)) + TimersBy(timers, T)
  BY DEF Planned
<1> DEFINE E == EndingBy(recs, R, T)
           E2 == EndingBy(recs, R \cup {c}, T)
           I == Iterating(th)
<1>1. /\ IsFiniteSet(E) /\ Cardinality(E) \in Nat /\ IsFiniteSet(I) /\ Cardinality(I) \in Nat
      /\ TimersBy(timers, T) \in Nat
  BY PlanIsFinite
<1>2. E2 = E \/ E2 = E \cup {c}
  BY DEF EndingBy
<1>3. Cardinality(E) <= Cardinality(I) + TimersBy(timers, T)
  BY DEF Planned
<1> HIDE DEF E, E2, I
<1>4. /\ Cardinality(E \cup {c}) = IF c \in E THEN Cardinality(E) ELSE Cardinality(E) + 1
      /\ Cardinality(I \cup {t}) = IF t \in I THEN Cardinality(I) ELSE Cardinality(I) + 1
  BY <1>1, FS_AddElement
<1>5. Cardinality(I \cup {t}) = Cardinality(I) + 1
  BY <1>4 DEF I
<1>6. Cardinality(E2) = Cardinality(E) \/ Cardinality(E2) = Cardinality(E) + 1
  BY <1>2, <1>4
<1>7. Cardinality(E2) <= Cardinality(I \cup {t}) + TimersBy(timers, T)
  BY <1>1, <1>3, <1>5, <1>6
<1> QED BY <1>7 DEF E2, I

\* The first call, whose wait ends first, leaves with the iteration.
LEMMA PlanWithoutFirst ==
    ASSUME NEW recs, NEW R \in SUBSET Calls, NEW c \in R, NEW R2 \in SUBSET (R \ {c}),
           \A d \in R : recs[d].timeout_point_ \in Int
                        /\ recs[c].timeout_point_ <= recs[d].timeout_point_,
           NEW th, NEW th2, NEW t, Iterating(th) \ {t} = Iterating(th2),
           NEW timers \in Timers, Planned(recs, R, th, timers)
    PROVE  Planned(recs, R2, th2, timers)
<1> SUFFICES ASSUME NEW T \in 0 .. MaxTime
             PROVE  Cardinality(EndingBy(recs, R2, T)) <=
                        Cardinality(Iterating(th2)) + TimersBy(timers, T)
  BY DEF Planned
<1> DEFINE E == EndingBy(recs, R, T)
           E2 == EndingBy(recs, R2, T)
           I == Iterating(th)
<1>1. /\ IsFiniteSet(E) /\ Cardinality(E) \in Nat /\ IsFiniteSet(I) /\ Cardinality(I) \in Nat
      /\ TimersBy(timers, T) \in Nat
  BY PlanIsFinite
<1>2. Cardinality(E) <= Cardinality(I) + TimersBy(timers, T)
  BY DEF Planned
<1>3. E2 \subseteq E \ {c} /\ (c \in E \/ E = {})
  BY DEF EndingBy
<1> HIDE DEF E, E2, I
<1>4. /\ Cardinality(E \ {c}) = IF c \in E THEN Cardinality(E) - 1 ELSE Cardinality(E)
      /\ IsFiniteSet(E \ {c})
      /\ Cardinality(I \ {t}) = IF t \in I THEN Cardinality(I) - 1 ELSE Cardinality(I)
      /\ IsFiniteSet(I \ {t})
  BY <1>1, FS_RemoveElement
<1>5. /\ IsFiniteSet(E2) /\ Cardinality(E2) <= Cardinality(E \ {c})
      /\ Cardinality(E2) \in Nat /\ Cardinality(I \ {t}) \in Nat
  BY <1>3, <1>4, FS_Subset, FS_CardinalityType
<1>6. Cardinality(E2) <= Cardinality(I \ {t}) + TimersBy(timers, T)
  <2>1. CASE E = {}
    <3>1. E2 = {}
      BY <1>3, <2>1
    <3> QED BY <1>1, <1>5, <3>1, FS_EmptySet
  <2>2. CASE c \in E
    BY <1>1, <1>2, <1>4, <1>5, <2>2
  <2> QED BY <1>3, <2>1, <2>2
<1> QED BY <1>6 DEF E2, I

\* An iteration that finds no operator sets a timer for the call whose wait
\* ends first.
LEMMA PlanByTimer ==
    ASSUME NEW recs, NEW R \in SUBSET Calls, NEW c \in R,
           \A d \in R : recs[d].timeout_point_ \in 0 .. MaxTime
                        /\ recs[c].timeout_point_ <= recs[d].timeout_point_,
           NEW th, NEW th2, NEW t, Iterating(th) \ {t} = Iterating(th2),
           NEW timers \in Timers, Planned(recs, R, th, timers)
    PROVE  Planned(recs, R, th2, [timers EXCEPT ![recs[c].timeout_point_] = @ + 1])
<1> DEFINE i == recs[c].timeout_point_
           timers2 == [timers EXCEPT ![i] = @ + 1]
<1>1. /\ i \in 0 .. MaxTime /\ timers2 \in Timers /\ timers2[i] = timers[i] + 1
      /\ \A j \in 0 .. MaxTime : j # i => timers2[j] = timers[j]
  BY DEF Timers
<1> HIDE DEF timers2
<1> SUFFICES ASSUME NEW T \in 0 .. MaxTime
             PROVE  Cardinality(EndingBy(recs, R, T)) <=
                        Cardinality(Iterating(th2)) + TimersBy(timers2, T)
  BY DEF Planned, timers2
<1> DEFINE E == EndingBy(recs, R, T)
           I == Iterating(th)
<1>2. /\ IsFiniteSet(E) /\ Cardinality(E) \in Nat /\ IsFiniteSet(I) /\ Cardinality(I) \in Nat
      /\ TimersBy(timers, T) \in Nat
  <2>1. R \in SUBSET Calls /\ timers \in Timers /\ T \in Int
    OBVIOUS
  <2> QED BY ONLY <2>1, PlanIsFinite
<1>3. Cardinality(E) <= Cardinality(I) + TimersBy(timers, T)
  BY DEF Planned
<1>4. i <= T \/ E = {}
  BY RecordAssumption DEF EndingBy
<1>5. TimersBy(timers2, T) = TimersBy(timers, T) + One(i <= T)
  BY <1>1, OneTimerMore
<1> HIDE DEF E, I, i
<1>6. /\ Cardinality(I \ {t}) = IF t \in I THEN Cardinality(I) - 1 ELSE Cardinality(I)
      /\ Cardinality(I \ {t}) \in Nat
  BY <1>2, FS_RemoveElement, FS_CardinalityType
<1>7. Cardinality(E) <= Cardinality(I \ {t}) + TimersBy(timers2, T)
  <2>1. CASE E = {}
    <3>1. Cardinality(E) = 0
      BY <2>1, FS_EmptySet
    <3> QED BY <1>2, <1>5, <1>6, <3>1 DEF One
  <2>2. CASE i <= T
    BY <1>2, <1>3, <1>5, <1>6, <2>2 DEF One
  <2> QED BY <1>4, <2>1, <2>2
<1> QED BY <1>7 DEF E, I

\* A timer that expires becomes an iteration.
LEMMA PlanByIteration ==
    ASSUME NEW recs, NEW R \in SUBSET Calls, NEW th, NEW th2, NEW t,
           t \notin Iterating(th), Iterating(th2) = Iterating(th) \cup {t},
           NEW timers \in Timers, NEW i, i \in 0 .. MaxTime, timers[i] > 0,
           Planned(recs, R, th, timers)
    PROVE  Planned(recs, R, th2, [timers EXCEPT ![i] = @ - 1])
<1> DEFINE timers2 == [timers EXCEPT ![i] = @ - 1]
<1>1. /\ timers2 \in Timers /\ timers[i] = timers2[i] + 1
      /\ \A j \in 0 .. MaxTime : j # i => timers[j] = timers2[j]
  BY DEF Timers
<1> HIDE DEF timers2
<1> SUFFICES ASSUME NEW T \in 0 .. MaxTime
             PROVE  Cardinality(EndingBy(recs, R, T)) <=
                        Cardinality(Iterating(th2)) + TimersBy(timers2, T)
  BY DEF Planned, timers2
<1> DEFINE E == EndingBy(recs, R, T)
           I == Iterating(th)
<1>2. /\ IsFiniteSet(E) /\ Cardinality(E) \in Nat /\ IsFiniteSet(I) /\ Cardinality(I) \in Nat
      /\ TimersBy(timers, T) \in Nat /\ TimersBy(timers2, T) \in Nat
  BY <1>1, PlanIsFinite
<1>3. Cardinality(E) <= Cardinality(I) + TimersBy(timers, T)
  BY DEF Planned
<1>4. TimersBy(timers, T) = TimersBy(timers2, T) + One(i <= T)
  BY <1>1, OneTimerMore
<1> HIDE DEF E, I
<1>5. Cardinality(I \cup {t}) = IF t \in I THEN Cardinality(I) ELSE Cardinality(I) + 1
  BY <1>2, FS_AddElement
<1>6. Cardinality(I \cup {t}) = Cardinality(I) + 1
  BY <1>5 DEF I
<1>7. Cardinality(E) <= Cardinality(I \cup {t}) + TimersBy(timers2, T)
  BY <1>2, <1>3, <1>4, <1>6 DEF One
<1> QED BY <1>7 DEF E, I

SameTimes(r, r2) ==
    r2.arrival_time_ = r.arrival_time_ /\ r2.timeout_point_ = r.timeout_point_

\* The operations but PushCall leave the times of all records alone.
LEMMA TimesStay ==
    ASSUME FlowPart, NEW t \in Threads, HiddenOperation(t) \/ Moving(t),
           ~\E c \in Calls, phone \in Phones : PushCall(t, c, phone)
    PROVE  \A c \in Calls : SameTimes(cdr[c], cdr'[c])
<1>1. cdr \in [Calls -> Records]
  BY BaseFacts DEF FlowPart
<1>2. ASSUME NEW x, NEW op, cdr' = [cdr EXCEPT ![x] = StartService(@, op)], NEW c \in Calls
      PROVE  SameTimes(cdr[c], cdr'[c])
  <2>1. cdr'[c] = cdr[c] \/ cdr'[c] = StartService(cdr[c], op)
    BY <1>1, <1>2
  <2>2. cdr[c] \in Records
    BY <1>1
  <2> QED BY <2>1, <2>2 DEF SameTimes, StartService, Records
<1>3. ASSUME NEW x, NEW st, cdr' = [cdr EXCEPT ![x] = CompleteService(@, st)], NEW c \in Calls
      PROVE  SameTimes(cdr[c], cdr'[c])
  <2>1. cdr'[c] = cdr[c] \/ cdr'[c] = CompleteService(cdr[c], st)
    BY <1>1, <1>3
  <2>2. cdr[c] \in Records
    BY <1>1
  <2> QED BY <2>1, <2>2 DEF SameTimes, CompleteService, Records
<1>4. CASE InsertForCall(t) \/ StartPoppedCall(t)
  <2>1. cdr' = [cdr EXCEPT ![thread[t].call] = StartService(@, thread[t].op)]
    BY <1>4 DEF InsertForCall, StartPoppedCall, StartCallProcessing
  <2> QED BY <1>2, <2>1
<1>5. CASE \/ PushCallRejected(t) \/ \E c \in Calls : RejectTimeoutCall(t, c)
           \/ \E task \in finish_tasks : FinishCallProcessing(t, task)
  <2>1. \E x, st : cdr' = [cdr EXCEPT ![x] = CompleteService(@, st)]
    BY <1>5 DEF PushCallRejected, RejectTimeoutCall, RejectCall, FinishCallProcessing
  <2> QED BY <1>3, <2>1
<1>6. CASE PushCallToQueue(t) \/ EraseFinishedFromProcessing(t)
           \/ (\E c \in Calls : PopCall(t, c)) \/ HiddenOperation(t)
  <2>1. UNCHANGED cdr
    BY <1>6, HiddenFacts DEF PushCallToQueue, EraseFinishedFromProcessing, PopCall
  <2> QED BY <2>1 DEF SameTimes
<1> QED BY <1>4, <1>5, <1>6 DEF Moving

\* Calls arrive until MaxArrivalTime.
ArrivedInTime ==
    \A c \in Calls : WasArrived(cdr[c]) => cdr[c].arrival_time_ <= MaxArrivalTime

LEMMA InTimeAlways == Spec => []ArrivedInTime
<1>1. Init => ArrivedInTime
  BY DEF Init, RecordsInit, ArrivedInTime, WasArrived, Unborn
<1>2. FlowPart /\ ArrivedInTime /\ [Next]_vars => ArrivedInTime'
  <2> SUFFICES ASSUME FlowPart, ArrivedInTime, [Next]_vars PROVE ArrivedInTime'
    OBVIOUS
  <2>1. CASE Elsewhere
    BY <2>1, ElsewhereFacts DEF ArrivedInTime, WasArrived
  <2>2. ASSUME NEW t \in Threads, NEW c \in Calls, NEW phone \in Phones, PushCall(t, c, phone)
        PROVE  ArrivedInTime'
    <3> DEFINE r == SetArrivalTime(NewRecord(phone))
    <3>1. cdr' = [cdr EXCEPT ![c] = r] /\ now <= MaxArrivalTime
      BY <2>2 DEF PushCall
    <3>2. r.arrival_time_ = now
      BY DEF SetArrivalTime, NewRecord
    <3> HIDE DEF r
    <3>3. cdr'[c] = r /\ \A d \in Calls \ {c} : cdr'[d] = cdr[d]
      BY <3>1, BaseFacts, RecordChanges DEF FlowPart
    <3> QED BY <3>1, <3>2, <3>3 DEF ArrivedInTime, WasArrived
  <2>3. ASSUME NEW t \in Threads, HiddenOperation(t) \/ Moving(t),
               ~\E c \in Calls, phone \in Phones : PushCall(t, c, phone)
        PROVE  ArrivedInTime'
    BY <2>3, TimesStay DEF ArrivedInTime, SameTimes, WasArrived
  <2> QED BY <2>1, <2>2, <2>3, KindsOfSteps
<1> QED BY <1>1, <1>2, EveryCallHasItsPlace, PTL DEF Spec

OneWait == \A v, w \in MaxWaits : v = w

\* Both indexes begin with a call whose wait ends first, and the timer for the
\* end of a wait is within the bound of the clock.
QueueInOrder ==
    /\ \A c \in in_receipt_order_ : cdr[c].timeout_point_ \in 0 .. MaxTime
    /\ \A c \in First(in_receipt_order_, ReceiptOrder)
               \cup First(in_timout_point_order_, TimeoutPointOrder) :
          c \in in_receipt_order_
          /\ \A d \in in_receipt_order_ : cdr[c].timeout_point_ <= cdr[d].timeout_point_

LEMMA QueueIsInOrder ==
    ASSUME OneWait, FlowGood, ~Flow!Twins, FlowProofs!WaitsFollowArrivals, ArrivedInTime
    PROVE  QueueInOrder
<1>1. /\ cdr \in [Calls -> Records] /\ in_receipt_order_ = in_timout_point_order_
      /\ in_receipt_order_ \in SUBSET Calls
      /\ \A c \in in_receipt_order_ : WasArrived(cdr[c])
  <2>1. cdr \in [Calls -> Records] /\ in_receipt_order_ \in SUBSET Calls
    BY BaseFacts DEF FlowGood, FlowPart
  <2> QED BY <2>1, GoodFacts
<1>2. PICK w : w \in MaxWaits
  BY ConfigurationAssumption
<1>3. w \in Nat /\ MaxArrivalTime \in Nat /\ MaxArrivalTime + w <= MaxTime /\ MaxTime \in Nat
  BY <1>2, ConfigurationAssumption, CallCenterAssumption, RecordAssumption
<1>4. ASSUME NEW c \in in_receipt_order_
      PROVE  /\ cdr[c].arrival_time_ \in Nat /\ cdr[c].arrival_time_ <= MaxArrivalTime
             /\ cdr[c].timeout_point_ = cdr[c].arrival_time_ + w
  <2>1. c \in Calls /\ WasArrived(cdr[c]) /\ cdr[c] \in Records
    BY <1>1
  <2>2. cdr[c].arrival_time_ \in Nat
    BY <2>1 DEF WasArrived, Records
  <2>3. PICK v \in MaxWaits : cdr[c].timeout_point_ = cdr[c].arrival_time_ + v
    BY <2>1 DEF FlowProofs!WaitsFollowArrivals, FlowProofs!WasArrived, WasArrived,
                FlowProofs!NoTime, NoTime
  <2>4. v = w
    BY <1>2, <2>3 DEF OneWait
  <2> QED BY <2>1, <2>2, <2>3, <2>4 DEF ArrivedInTime
<1>5. \A c \in in_receipt_order_ : cdr[c].timeout_point_ \in 0 .. MaxTime
  BY <1>3, <1>4
<1>6. ASSUME NEW c \in First(in_receipt_order_, ReceiptOrder)
      PROVE  c \in in_receipt_order_
             /\ \A d \in in_receipt_order_ : cdr[c].timeout_point_ <= cdr[d].timeout_point_
  <2>1. c \in in_receipt_order_
    BY DEF First
  <2>2. ASSUME NEW d \in in_receipt_order_ PROVE cdr[c].timeout_point_ <= cdr[d].timeout_point_
    <3>1. c = d \/ cdr[c].arrival_time_ < cdr[d].arrival_time_
                \/ cdr[c].arrival_time_ = cdr[d].arrival_time_
      BY <1>1, <2>1 DEF First, ReceiptOrder
    <3> QED BY <1>3, <1>4, <2>1, <3>1
  <2> QED BY <2>1, <2>2
<1>7. ASSUME NEW c \in First(in_timout_point_order_, TimeoutPointOrder)
      PROVE  c \in in_receipt_order_
             /\ \A d \in in_receipt_order_ : cdr[c].timeout_point_ <= cdr[d].timeout_point_
  <2>1. c \in in_receipt_order_
    BY <1>1 DEF First
  <2>2. ASSUME NEW d \in in_receipt_order_ PROVE cdr[c].timeout_point_ <= cdr[d].timeout_point_
    <3>1. c = d \/ cdr[c].timeout_point_ < cdr[d].timeout_point_
                \/ cdr[c].timeout_point_ = cdr[d].timeout_point_
      BY <1>1, <2>1 DEF First, TimeoutPointOrder
    <3> QED BY <1>5, <2>1, <3>1
  <2> QED BY <2>1, <2>2
<1> QED BY <1>5, <1>6, <1>7 DEF QueueInOrder

QueueIsPlanned == Planned(cdr, in_receipt_order_, thread, iteration_timers)

\* A thread begins, goes on with or ends an iteration.
LEMMA IteratingStep ==
    ASSUME thread \in ThreadMaps, NEW t \in Threads, NEW x, GoesTo(thread, thread', t, x)
    PROVE  /\ x.at \in IterationLabels => Iterating(thread') = Iterating(thread) \cup {t}
           /\ x.at \notin IterationLabels => Iterating(thread') = Iterating(thread) \ {t}
<1>1. \A u \in Threads : thread'[u] = IF u = t THEN x ELSE thread[u]
  BY DEF GoesTo, ThreadMaps
<1> QED BY <1>1 DEF Iterating

\* The thread was not iterating, or goes on: no iteration less.
LEMMA IteratingKept ==
    ASSUME thread \in ThreadMaps, NEW t \in Threads, NEW x, GoesTo(thread, thread', t, x),
           thread[t].at \notin IterationLabels \/ x.at \in IterationLabels
    PROVE  Iterating(thread) \subseteq Iterating(thread')
<1>1. t \in Iterating(thread) => thread[t].at \in IterationLabels
  BY DEF Iterating
<1> QED BY <1>1, IteratingStep

PlanFacts ==
    /\ thread \in ThreadMaps /\ in_receipt_order_ \in SUBSET Calls
    /\ iteration_timers \in Timers /\ QueueInOrder /\ QueueIsPlanned

LEMMA PlanKept ==
    ASSUME PlanFacts, in_receipt_order_' \subseteq in_receipt_order_,
           \A c \in in_receipt_order_' : SameTimes(cdr[c], cdr'[c]),
           Iterating(thread) \subseteq Iterating(thread'), UNCHANGED iteration_timers
    PROVE  QueueIsPlanned'
BY PlanStays DEF PlanFacts, QueueIsPlanned, SameTimes

\* The hidden operations: most end no iteration, ...
LEMMA HiddenPlan ==
    ASSUME FlowPart, PlanFacts, NEW t \in Threads, HiddenOperation(t)
    PROVE  QueueIsPlanned'
<1> USE DEF Goto, GoesTo, Idle
<1>1. /\ UNCHANGED <<cdr, in_receipt_order_>> /\ thread \in ThreadMaps
      /\ \A c \in in_receipt_order_' : SameTimes(cdr[c], cdr'[c])
  BY HiddenFacts DEF PlanFacts, SameTimes
<1>2. ASSUME NEW x, GoesTo(thread, thread', t, x), UNCHANGED iteration_timers,
             thread[t].at \notin IterationLabels \/ x.at \in IterationLabels
      PROVE  QueueIsPlanned'
  <2>1. Iterating(thread) \subseteq Iterating(thread')
    BY <1>1, <1>2, IteratingKept
  <2> QED BY <1>1, <1>2, <2>1, PlanKept
<1>3. ASSUME in_receipt_order_ = {}, UNCHANGED iteration_timers PROVE QueueIsPlanned'
  <2>1. in_receipt_order_' = {} /\ iteration_timers' \in Timers
    BY <1>1, <1>3 DEF PlanFacts
  <2> QED BY <2>1, NobodyWaits DEF QueueIsPlanned
<1>4. CASE \/ QueueIsEmptyForCall(t) \/ InsertForCallRefused(t) \/ InsertFreeForCall(t)
           \/ (\E op \in OperatorIds \cup {NoOperator} : EraseFreeForCall(t, op))
           \/ InsertUnusedOperator(t) \/ InsertFinishedOperator(t) \/ AddFinishedRecord(t)
  <2>1. /\ UNCHANGED iteration_timers /\ thread[t].at \notin IterationLabels
        /\ \E x : thread' = [thread EXCEPT ![t] = x]
    BY <1>4 DEF QueueIsEmptyForCall, InsertForCallRefused, InsertFreeForCall, EraseFreeForCall,
                InsertUnusedOperator, InsertFinishedOperator, AddFinishedRecord, IterationLabels
  <2> QED BY <1>2, <2>1
<1>5. CASE NoTimeoutCall(t) \/ \E op \in OperatorIds \cup {NoOperator} : EraseFreeOperator(t, op)
  <2>1. /\ UNCHANGED iteration_timers
        /\ \E x : thread' = [thread EXCEPT ![t] = x] /\ x.at \in IterationLabels
    BY <1>5 DEF NoTimeoutCall, EraseFreeOperator, IterationLabels
  <2> QED BY <1>2, <2>1
\* ... or find the queue empty, ...
<1>6. CASE CheckQueueIsEmpty(t)
  <2>1. UNCHANGED iteration_timers
    BY <1>6 DEF CheckQueueIsEmpty
  <2>2. CASE in_receipt_order_ # {}
    <3> DEFINE x == [at |-> "EraseTimeout", call |-> NoCall, op |-> NoOperator]
    <3>1. GoesTo(thread, thread', t, x)
      BY <1>6, <2>2 DEF CheckQueueIsEmpty, QueueIsEmpty
    <3>2. x.at \in IterationLabels
      BY DEF IterationLabels
    <3> HIDE DEF x
    <3> QED BY <1>2, <2>1, <3>1, <3>2
  <2> QED BY <1>3, <2>1, <2>2
<1>7. CASE PopCall(t, NoCall)
  <2>1. NoCall \notin First(in_receipt_order_, ReceiptOrder)
    BY RecordAssumption DEF PlanFacts, First
  <2>2. in_receipt_order_ = {} /\ UNCHANGED iteration_timers
    BY <1>7, <2>1 DEF PopCall, PopFromQueue, QueueIsEmpty
  <2> QED BY <1>3, <2>2
\* ... one sets the timer with which it ends ...
<1>8. CASE ScheduleCallProcessingIteration(t)
  <2>1. PICK call \in Calls \cup {NoCall} :
           /\ GetMinTimeoutCallInQueue(call)
           /\ iteration_timers' = IF call = NoCall THEN iteration_timers
                 ELSE [iteration_timers EXCEPT ![cdr[call].timeout_point_] = @ + 1]
    BY <1>8 DEF ScheduleCallProcessingIteration
  <2>2. CASE in_receipt_order_ = {}
    <3>1. UNCHANGED iteration_timers
      BY <2>1, <2>2 DEF GetMinTimeoutCallInQueue, QueueIsEmpty
    <3> QED BY <1>3, <2>2, <3>1
  <2>3. CASE in_receipt_order_ # {}
    <3>1. call \in First(in_timout_point_order_, TimeoutPointOrder)
      BY <2>1, <2>3 DEF GetMinTimeoutCallInQueue, QueueIsEmpty
    <3>2. /\ call \in in_receipt_order_
          /\ \A d \in in_receipt_order_ : cdr[d].timeout_point_ \in 0 .. MaxTime
                /\ cdr[call].timeout_point_ <= cdr[d].timeout_point_
      BY <3>1 DEF PlanFacts, QueueInOrder
    <3>3. iteration_timers' = [iteration_timers EXCEPT ![cdr[call].timeout_point_] = @ + 1]
      BY <2>1, <3>2, RecordAssumption DEF PlanFacts
    <3>4. Iterating(thread) \ {t} = Iterating(thread')
      <4>1. GoesTo(thread, thread', t, Idle)
        BY <1>8 DEF ScheduleCallProcessingIteration
      <4>2. Idle.at \notin IterationLabels
        BY DEF IterationLabels
      <4> QED BY <1>1, <4>1, <4>2, IteratingStep
    <3> QED BY <1>1, <3>2, <3>3, <3>4, PlanByTimer DEF PlanFacts, QueueIsPlanned
  <2> QED BY <2>2, <2>3
\* ... and the last one begins by taking one.
<1>9. ASSUME NEW due \in 0 .. MaxTime, RunIteration(t, due) PROVE QueueIsPlanned'
  <2>1. /\ thread[t] = Idle /\ iteration_timers[due] > 0
        /\ iteration_timers' = [iteration_timers EXCEPT ![due] = @ - 1]
        /\ GoesTo(thread, thread', t, [at |-> "QueueIsEmpty", call |-> NoCall, op |-> NoOperator])
    BY <1>9 DEF RunIteration
  <2>2. t \notin Iterating(thread)
    BY <2>1 DEF Iterating, IterationLabels
  <2>3. Iterating(thread') = Iterating(thread) \cup {t}
    <3>1. [at |-> "QueueIsEmpty", call |-> NoCall, op |-> NoOperator].at \in IterationLabels
      BY DEF IterationLabels
    <3> QED BY <1>1, <2>1, <3>1, IteratingStep
  <2> QED BY <1>1, <2>1, <2>2, <2>3, PlanByIteration DEF PlanFacts, QueueIsPlanned
<1> QED BY <1>4, <1>5, <1>6, <1>7, <1>8, <1>9 DEF HiddenOperation

LEMMA MovingPlan ==
    ASSUME FlowPart, PlanFacts, NEW t \in Threads, Moving(t)
    PROVE  QueueIsPlanned'
<1> USE DEF Goto, GoesTo
<1>1. thread \in ThreadMaps /\ in_receipt_order_ \in SUBSET Calls
  BY DEF PlanFacts
<1>2. ASSUME NEW x, GoesTo(thread, thread', t, x), UNCHANGED <<iteration_timers, in_receipt_order_>>,
             thread[t].at \notin IterationLabels,
             ~\E c \in Calls, phone \in Phones : PushCall(t, c, phone)
      PROVE  QueueIsPlanned'
  <2>1. Iterating(thread) \subseteq Iterating(thread')
    BY <1>1, <1>2, IteratingKept
  <2>2. \A c \in in_receipt_order_' : SameTimes(cdr[c], cdr'[c])
    BY <1>1, <1>2, TimesStay
  <2> QED BY <1>2, <2>1, <2>2, PlanKept
<1>3. ASSUME NEW c \in Calls, NEW phone \in Phones, PushCall(t, c, phone)
      PROVE  QueueIsPlanned'
  <2>1. /\ GoesTo(thread, thread', t,
                  [at |-> "QueueIsEmptyForCall", call |-> c, op |-> NoOperator])
        /\ thread[t].at \notin IterationLabels /\ ~WasArrived(cdr[c])
        /\ UNCHANGED <<iteration_timers, in_receipt_order_>>
        /\ cdr' = [cdr EXCEPT ![c] = SetArrivalTime(NewRecord(phone))]
    BY <1>3 DEF PushCall, Idle, IterationLabels, call_queue_vars
  <2>2. Iterating(thread) \subseteq Iterating(thread')
    BY <1>1, <2>1, IteratingKept
  <2>3. c \notin in_receipt_order_ /\ cdr \in [Calls -> Records]
    BY <2>1, BaseFacts DEF FlowPart
  <2>4. \A d \in in_receipt_order_' : SameTimes(cdr[d], cdr'[d])
    BY <1>1, <2>1, <2>3 DEF SameTimes
  <2> QED BY <2>1, <2>2, <2>4, PlanKept
<1>4. CASE \E c \in Calls, phone \in Phones : PushCall(t, c, phone)
  BY <1>3, <1>4
<1>5. CASE ~\E c \in Calls, phone \in Phones : PushCall(t, c, phone)
  <2>1. CASE InsertForCall(t) \/ StartPoppedCall(t)
    <3>1. /\ thread' = [thread EXCEPT ![t] = [at |-> "idle", call |-> NoCall, op |-> NoOperator]]
          /\ thread[t].at \notin IterationLabels
          /\ UNCHANGED <<iteration_timers, in_receipt_order_>>
      BY <2>1 DEF InsertForCall, StartPoppedCall, StartCallProcessing, InsertToProcessing,
                  indexes, IterationLabels
    <3> QED BY <1>2, <1>5, <3>1
  <2>2. CASE PushCallRejected(t)
    <3>1. PICK reason \in {"kAlreadyInQueue", "kOverload"} : PushToQueue(thread[t].call, reason)
      BY <2>2 DEF PushCallRejected
    <3>2. UNCHANGED indexes
      BY <3>1 DEF PushToQueue
    <3>3. /\ thread' = [thread EXCEPT ![t] = [at |-> "idle", call |-> NoCall, op |-> NoOperator]]
          /\ thread[t].at \notin IterationLabels
          /\ UNCHANGED <<iteration_timers, in_receipt_order_>>
      BY <2>2, <3>2 DEF PushCallRejected, indexes, IterationLabels
    <3> QED BY <1>2, <1>5, <3>3
  <2>3. CASE EraseFinishedFromProcessing(t)
    <3>1. /\ \E x : thread' = [thread EXCEPT ![t] = x]
          /\ thread[t].at \notin IterationLabels
          /\ UNCHANGED <<iteration_timers, in_receipt_order_>>
      BY <2>3 DEF EraseFinishedFromProcessing, EraseFromProcessing, indexes, IterationLabels
    <3> QED BY <1>2, <1>5, <3>1
  <2>4. CASE \E task \in finish_tasks : FinishCallProcessing(t, task)
    <3>1. PICK task \in finish_tasks : FinishCallProcessing(t, task)
      BY <2>4
    <3>2. /\ thread[t] = Idle /\ UNCHANGED <<iteration_timers, in_receipt_order_>>
          /\ GoesTo(thread, thread', t,
                    [at |-> "EraseFromProcessing", call |-> task.call, op |-> task.op])
      BY <3>1 DEF FinishCallProcessing, call_queue_vars
    <3>3. thread[t].at \notin IterationLabels
      BY <3>2 DEF Idle, IterationLabels
    <3> QED BY <1>2, <1>5, <3>2, <3>3
  <2>5. CASE PushCallToQueue(t)
    <3> DEFINE c == thread[t].call
               x == [at |-> "QueueIsEmpty", call |-> NoCall, op |-> NoOperator]
    <3>1. /\ thread[t].at = "PushToQueue" /\ PushToQueue(c, "kOk")
          /\ GoesTo(thread, thread', t, x) /\ UNCHANGED <<cdr, iteration_timers>>
      BY <2>5 DEF PushCallToQueue
    <3>2. in_receipt_order_' = in_receipt_order_ \cup {c}
      BY <3>1 DEF PushToQueue, InsertToQueue
    <3>3. c \in Calls
      BY <1>1, <3>1, ThreadType DEF ThreadsFit, FlowPart, CallLabels, ArrivedLabels
    <3>4. t \notin Iterating(thread)
      BY <3>1 DEF Iterating, IterationLabels
    <3>5. Iterating(thread') = Iterating(thread) \cup {t}
      <4>1. x.at \in IterationLabels
        BY DEF IterationLabels
      <4> HIDE DEF x
      <4> QED BY <1>1, <3>1, <4>1, IteratingStep
    <3> HIDE DEF c, x
    <3> QED BY <3>1, <3>2, <3>3, <3>4, <3>5, PlanForNew DEF PlanFacts, QueueIsPlanned
  <2>6. ASSUME NEW c \in Calls, PopCall(t, c) PROVE QueueIsPlanned'
    <3> DEFINE x == [at |-> "InsertPopped", call |-> c, op |-> thread[t].op]
    <3>1. /\ PopFromQueue(c) /\ GoesTo(thread, thread', t, x)
          /\ UNCHANGED <<cdr, iteration_timers>>
      BY <2>6, RecordAssumption DEF PopCall
    <3>2. c \in First(in_receipt_order_, ReceiptOrder)
      BY <3>1, RecordAssumption DEF PopFromQueue
    <3>3. in_receipt_order_' \in SUBSET (in_receipt_order_ \ {c})
      BY <1>1, <3>1, PopTakesOut
    <3>4. /\ c \in in_receipt_order_
          /\ \A d \in in_receipt_order_ : cdr[d].timeout_point_ \in Int
                /\ cdr[c].timeout_point_ <= cdr[d].timeout_point_
      BY <3>2 DEF PlanFacts, QueueInOrder
    <3>5. Iterating(thread) \ {t} = Iterating(thread')
      <4>1. x.at \notin IterationLabels
        BY DEF IterationLabels
      <4> HIDE DEF x
      <4> QED BY <1>1, <3>1, <4>1, IteratingStep
    <3>6. iteration_timers \in Timers /\ Planned(cdr, in_receipt_order_, thread, iteration_timers)
      BY DEF PlanFacts, QueueIsPlanned
    <3>7. Planned(cdr, in_receipt_order_', thread', iteration_timers)
      <4> HIDE DEF x, GoesTo
      <4> QED BY <1>1, <3>3, <3>4, <3>5, <3>6, PlanWithoutFirst
    <3> QED BY <3>1, <3>7 DEF QueueIsPlanned
  <2>7. ASSUME NEW c \in Calls, RejectTimeoutCall(t, c) PROVE QueueIsPlanned'
    <3>1. EraseTimeoutCallFromQueue(c) /\ UNCHANGED <<thread, iteration_timers>>
      BY <2>7 DEF RejectTimeoutCall
    <3>2. in_receipt_order_' \subseteq in_receipt_order_
      BY <3>1, RecordAssumption DEF EraseTimeoutCallFromQueue, EraseFromQueue,
                                    EraseCallFromMultiset
    <3>3. \A d \in in_receipt_order_' : SameTimes(cdr[d], cdr'[d])
      BY <1>1, <1>5, <3>2, TimesStay
    <3> QED BY <3>1, <3>2, <3>3, PlanKept
  <2> QED BY <1>5, <2>1, <2>2, <2>3, <2>4, <2>5, <2>6, <2>7 DEF Moving
<1> QED BY <1>4, <1>5

\* As long as the file never changes "call_max_wait", an iteration is under way
\* at every moment or every call that waits will be looked at, at the latest,
\* when its wait ends.
THEOREM TimeoutTheorem ==
    ASSUME \A v, w \in MaxWaits : v = w
    PROVE  Spec => []TimeoutIsScheduled
<1> DEFINE Base == FlowGood /\ ~Flow!Twins /\ FlowProofs!WaitsFollowArrivals /\ ArrivedInTime
                   /\ Tallies
<1>1. FlowProofs!FlowSpec => []FlowProofs!WaitsFollowArrivals
  BY FlowConstants, FlowProofs!WaitsAlways
<1>2. Spec => []Base
  BY <1>1, FlowIsImplemented, FlowGoodAlways, OneWaitTheorem, InTimeAlways, TalliesAlways, PTL
<1>3. Base => QueueInOrder
  BY QueueIsInOrder DEF OneWait
<1>4. Base /\ QueueIsPlanned => PlanFacts
  <2>1. FlowGood => thread \in ThreadMaps /\ in_receipt_order_ \in SUBSET Calls
    BY BaseFacts DEF FlowGood, FlowPart, ThreadsFit
  <2> QED BY <1>3, <2>1 DEF PlanFacts, Tallies, Timers
<1> HIDE DEF Base
<1>5. Init => QueueIsPlanned
  <2> SUFFICES ASSUME Init PROVE QueueIsPlanned
    OBVIOUS
  <2>1. in_receipt_order_ = {} /\ iteration_timers \in Timers
    BY DEF Init, CallQueueInit, Timers
  <2> QED BY <2>1, NobodyWaits DEF QueueIsPlanned
<1>6. Base /\ QueueIsPlanned /\ [Next]_vars => QueueIsPlanned'
  <2> SUFFICES ASSUME Base, QueueIsPlanned, [Next]_vars PROVE QueueIsPlanned'
    OBVIOUS
  <2>1. PlanFacts /\ FlowPart
    BY <1>4 DEF Base, FlowGood
  <2>2. CASE Elsewhere
    <3>1. UNCHANGED <<cdr, in_receipt_order_, thread, iteration_timers>>
      BY <2>2 DEF Elsewhere, PassTime, ChangeConfig, InvalidBegin, vars, center_vars,
                  call_queue_vars
    <3> QED BY <3>1 DEF QueueIsPlanned
  <2>3. ASSUME NEW t \in Threads, HiddenOperation(t) \/ Moving(t) PROVE QueueIsPlanned'
    BY <2>1, <2>3, HiddenPlan, MovingPlan
  <2> QED BY <2>2, <2>3, KindsOfSteps
<1>7. Base /\ QueueIsPlanned => TimeoutIsScheduled
  <2> SUFFICES ASSUME Base, QueueIsPlanned, NEW c \in in_receipt_order_,
                      \A t \in Threads : thread[t].at \notin IterationLabels
               PROVE  \E due \in 0 .. MaxTime :
                          iteration_timers[due] > 0 /\ due <= cdr[c].timeout_point_
    BY DEF TimeoutIsScheduled
  <2> DEFINE T == cdr[c].timeout_point_
             E == EndingBy(cdr, in_receipt_order_, T)
             f == [i \in 0 .. MaxTime |-> IF i <= T THEN iteration_timers[i] ELSE 0]
  <2>1. PlanFacts
    BY <1>4
  <2>2. T \in 0 .. MaxTime /\ iteration_timers \in Timers
    BY <2>1 DEF PlanFacts, QueueInOrder
  <2>3. Iterating(thread) = {}
    BY DEF Iterating
  <2>4. Cardinality(Iterating(thread)) = 0
    BY <2>3, FS_EmptySet
  <2>5. c \in E /\ T \in Int
    BY <2>2 DEF EndingBy
  <2>6. IsFiniteSet(E) /\ Cardinality(E) \in Nat /\ TimersBy(iteration_timers, T) \in Nat
    BY <2>1, <2>5, PlanIsFinite DEF PlanFacts
  <2>7. Cardinality(E) # 0
    BY <2>5, <2>6, FS_EmptySet
  <2>8. Cardinality(E) <= Cardinality(Iterating(thread)) + TimersBy(iteration_timers, T)
    BY <2>2 DEF QueueIsPlanned, Planned
  <2>9. TimersBy(iteration_timers, T) > 0
    <3> HIDE DEF E, T
    <3> QED BY <2>4, <2>6, <2>7, <2>8
  <2>10. SUFFICES ASSUME \A due \in 0 .. MaxTime : due <= T => ~(iteration_timers[due] > 0)
                  PROVE  FALSE
    OBVIOUS
  <2>11. PICK S : S = 0 .. MaxTime
    OBVIOUS
  <2>12. IsFiniteSet(S) /\ Cardinality(S) \in Nat
    BY <2>11, RecordAssumption, FS_Interval, FS_CardinalityType
  <2>13. f \in [S -> Int] /\ \A i \in S : f[i] <= 0
    BY <2>2, <2>10, <2>11 DEF Timers
  <2>14. SumFunction(f) <= 0
    <3> HIDE DEF f
    <3>1. SumFunction(f) <= Cardinality(S) * 0
      BY ONLY <2>12, <2>13, SumFunctionBound
    <3>2. Cardinality(S) * 0 = 0
      BY <2>12
    <3> QED BY <3>1, <3>2
  <2>15. TimersBy(iteration_timers, T) <= 0
    BY <2>14 DEF TimersBy
  <2> HIDE DEF T
  <2> QED BY <2>6, <2>9, <2>15
<1> QED BY <1>2, <1>5, <1>6, <1>7, PTL DEF Spec
-----------------------------------------------------------------------------
(* When all work is done.                                                  *)

\* No operation is in progress, no task is posted and no timer is set: nothing
\* more happens until somebody calls.
Done ==
    /\ Quiescent
    /\ finish_tasks = {}
    /\ \A due \in 0 .. MaxTime : iteration_timers[due] = 0

\* Then nothing is left behind anywhere: every call that arrived is finished
\* and has its one record in the journal, neither index of the queue nor the
\* processing set holds a call (and so blocks its number), every operator is
\* free and the two current counts are zero.
NothingIsLeft ==
    Done =>
        /\ \A c \in Calls : WasArrived(cdr[c]) => WasFinished(cdr[c]) /\ journal[c] = 1
        /\ in_receipt_order_ = {} /\ in_timout_point_order_ = {} /\ in_processing_ = {}
        /\ free_operators_ = operators_
        /\ current_queue_size_ = 0 /\ current_in_system_count_ = 0

\* Nobody owns an operator then.
LEMMA DoneOperators ==
    ASSUME PoolPart, Done PROVE free_operators_ = operators_
<1>1. \A t \in Threads : thread[t].op = NoOperator
  BY DEF Done, Quiescent, Idle
<1>2. \A op \in OperatorIds : PhaseOf(op) = "unowned"
  BY <1>1, ServerAssumption DEF Done, PhaseOf, HoldsOperator
<1>3. PoolProofs!Held = {}
  BY <1>2 DEF PoolProofs!Held
<1> QED BY <1>3 DEF PoolPart, PoolProofs!PoolInv, PoolProofs!OwnershipIsExclusive

\* Nobody is on the way and nobody is served, so that the processing set is
\* empty; who waits has a timer, so that nobody waits.
LEMMA DoneCalls ==
    ASSUME FlowGood, ~Flow!Twins, FlowProofs!NumbersAreReleased, TimeoutIsScheduled, Done
    PROVE  /\ in_receipt_order_ = {} /\ in_timout_point_order_ = {} /\ in_processing_ = {}
           /\ \A c \in Calls : FlowOf(c) \in {"unborn", "gone"}
<1>1. \A t \in Threads : thread[t].at = "idle"
  BY DEF Done, Quiescent, Idle
<1>2. in_receipt_order_ = {}
  <2>1. SUFFICES ASSUME NEW c \in in_receipt_order_ PROVE FALSE
    OBVIOUS
  <2>2. PICK due \in 0 .. MaxTime : iteration_timers[due] > 0
    BY <1>1 DEF TimeoutIsScheduled, IterationLabels
  <2> QED BY <2>2 DEF Done
<1>3. \A c \in Calls : FlowOf(c) \notin {"arrived", "popped", "inService", "answered"}
  BY <1>1 DEF FlowOf, Carries, Done
<1>4. \A c \in Calls : FlowOf(c) # "queued"
  BY <1>2, GoodFacts
<1>5. in_processing_ = {}
  BY <1>3 DEF FlowProofs!NumbersAreReleased, FlowProofs!At
<1> QED BY <1>2, <1>3, <1>4, <1>5, GoodFacts, FlowIsAStage

LEMMA DoneMeansNothingLeft ==
    ASSUME FlowGood, ~Flow!Twins, FlowProofs!NumbersAreReleased, TimeoutIsScheduled,
           MetricsAreExact, NeverCrashes => JournalIsExact, PoolPart, Done
    PROVE  NothingIsLeft
<1>1. ASSUME NEW c \in Calls, WasArrived(cdr[c]) PROVE WasFinished(cdr[c]) /\ journal[c] = 1
  <2>1. FlowOf(c) = "gone"
    BY <1>1, DoneCalls DEF FlowOf
  <2>2. WasFinished(cdr[c]) /\ NeverCrashes
    BY <2>1, GoodFacts DEF NeverCrashes
  <2> QED BY <2>2 DEF JournalIsExact, Done
<1>2. GetQueueSize = 0 /\ Cardinality(finish_tasks) = 0
  BY DoneCalls, FS_EmptySet DEF GetQueueSize, Done
<1>3. current_queue_size_ = 0 /\ current_in_system_count_ = 0
  BY <1>2 DEF MetricsAreExact, Done
<1> QED BY <1>1, <1>3, DoneCalls, DoneOperators DEF NothingIsLeft

\* As long as the file never changes "call_max_wait", whatever else it says and
\* however the threads interleave, a call center that has come to rest has
\* lost no call, no operator and no number.
THEOREM NothingIsLeftTheorem ==
    ASSUME \A v, w \in MaxWaits : v = w
    PROVE  Spec => []NothingIsLeft
<1>1. FlowProofs!FlowSpec => [](FlowProofs!Twins \/ FlowProofs!NumbersAreReleased)
  BY FlowConstants, FlowProofs!NumbersTheorem
<1>2. Spec => []TimeoutIsScheduled
  BY TimeoutTheorem
<1>3. Spec => []~Flow!Twins
  BY OneWaitTheorem
<1>4. /\ FlowGood /\ ~Flow!Twins /\ (FlowProofs!Twins \/ FlowProofs!NumbersAreReleased)
      /\ TimeoutIsScheduled /\ (Flow!Twins \/ MetricsAreExact)
      /\ (NeverCrashes => JournalIsExact) /\ PoolPart
      => NothingIsLeft
  <2>1. CASE Done
    BY <2>1, DoneMeansNothingLeft, SameTwins
  <2>2. CASE ~Done
    BY <2>2 DEF NothingIsLeft
  <2> QED BY <2>1, <2>2
<1> QED BY <1>1, <1>2, <1>3, <1>4, FlowIsImplemented, FlowGoodAlways, MetricsAreExactTheorem,
           JournalIsExactTheorem, EveryOperatorHasItsOwner, PTL

\* The queue of the running call center, too, is never longer than the largest
\* capacity the file ever holds.
THEOREM QueueIsBoundedTheorem ==
    ASSUME NEW N, FlowProofs!BoundsCapacities(N)
    PROVE  Spec => [](capacity_ <= N /\ GetQueueSize <= N)
<1>1. FlowProofs!FlowSpec => [](capacity_ <= N /\ FlowProofs!GetQueueSize <= N)
  BY FlowConstants, FlowProofs!QueueIsBoundedTheorem
<1>2. FlowProofs!GetQueueSize = GetQueueSize
  BY DEF FlowProofs!GetQueueSize, GetQueueSize, FlowProofs!Cardinality, Cardinality
<1>3. capacity_ <= N /\ FlowProofs!GetQueueSize <= N => capacity_ <= N /\ GetQueueSize <= N
  BY <1>2
<1> QED BY <1>1, <1>3, FlowIsImplemented, PTL

\* With any number of threads, too, the queue grows only below the capacity
\* configured at that moment, and, unless there were twins, calls leave it in
\* the order of their arrival or when their wait is over, and the record of a
\* finished call stays as it is.
THEOREM QueueDisciplineTheorem ==
    Spec => /\ FlowProofs!GrowsWithinCapacity
            /\ FlowProofs!LeavesInTurn
            /\ FlowProofs!RecordsAreFinal
<1>1. FlowProofs!FlowSpec => FlowProofs!GrowsWithinCapacity
  BY FlowConstants, FlowProofs!GrowsWithinCapacityTheorem
<1>2. FlowProofs!FlowSpec => FlowProofs!LeavesInTurn
  BY FlowConstants, FlowProofs!LeavesInTurnTheorem
<1>3. FlowProofs!FlowSpec => FlowProofs!RecordsAreFinal
  BY FlowConstants, FlowProofs!RecordsAreFinalTheorem
<1> QED BY <1>1, <1>2, <1>3, FlowIsImplemented, PTL
=============================================================================
