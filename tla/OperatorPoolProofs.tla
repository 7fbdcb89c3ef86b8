-------------------------- MODULE OperatorPoolProofs --------------------------
(***************************************************************************)
(* Proofs about OperatorPool, for any number of operators and any          *)
(* configured counts.                                                      *)
(***************************************************************************)
EXTENDS OperatorPool, FiniteSetTheorems, TLAPS

\* The inductive invariant: the types, who owns what, and what status_ says.
PoolInv ==
    /\ TypeOK
    /\ OwnershipIsExclusive
    /\ BusyMeansHandling

-----------------------------------------------------------------------------
\* UpdateOperatorCount adds operators that are free and removes only free
\* ones: the operators that somebody owns are the same before and after.
LEMMA UpdateKeepsOwned ==
    ASSUME NEW ops \in SUBSET OperatorIds, NEW free \in SUBSET ops,
           NEW u \in UpdateOperatorCount(ops, free),
           servers_metrics_ \in [DOMAIN servers_metrics_ -> Nat]
    PROVE  /\ u.operators \in SUBSET OperatorIds
           /\ u.free \in SUBSET u.operators
           /\ u.operators \ u.free = ops \ free
           /\ u.servers \in [DOMAIN u.servers -> Nat]
<1> DEFINE cur == Cardinality(ops)
           new == ReadOperatorCount(cur)
           Resized == IF new > cur THEN AddOperators(ops, free, new - cur)
                      ELSE RemoveOperators(ops, free, cur - new)
<1>1. CASE new = cur
  <2>1. u = [operators |-> ops, free |-> free, servers |-> servers_metrics_]
    BY <1>1 DEF UpdateOperatorCount
  <2> QED BY <2>1
<1>2. CASE new # cur
  <2>1. PICK r \in Resized : u = [operators |-> r.operators, free |-> r.free,
                                  servers |-> SetServers(r.free)]
    BY <1>2 DEF UpdateOperatorCount
  <2>2. /\ r.operators \in SUBSET OperatorIds
        /\ r.free \in SUBSET r.operators
        /\ r.operators \ r.free = ops \ free
    <3>1. CASE new > cur
      <4>1. PICK s \in SUBSET (OperatorIds \ ops) :
                r = [operators |-> ops \cup s, free |-> free \cup s]
        BY <3>1 DEF AddOperators
      <4> QED BY <4>1
    <3>2. CASE ~(new > cur)
      <4>1. PICK s \in SUBSET free :
                r = [operators |-> ops \ s, free |-> free \ s]
        BY <3>2 DEF RemoveOperators
      <4> QED BY <4>1
    <3> QED BY <3>1, <3>2
  <2>3. SetServers(r.free) \in [r.free -> Nat]
    BY DEF SetServers
  <2> QED BY <2>1, <2>2, <2>3
<1> QED BY <1>1, <1>2

\* After UpdateOperatorCount the operators are as many as configured; they may
\* be more only when the loop that removes them has run out of free ones.
LEMMA UpdateCounts ==
    ASSUME NEW ops \in SUBSET OperatorIds, NEW free \in SUBSET ops,
           NEW u \in UpdateOperatorCount(ops, free),
           config_json_ \in Configurations
    PROVE  LET count == ReadOperatorCount(Cardinality(ops))
           IN  \/ Cardinality(u.operators) = count
               \/ Cardinality(u.operators) > count /\ u.free = {}
<1> DEFINE cur == Cardinality(ops)
           new == ReadOperatorCount(cur)
           Resized == IF new > cur THEN AddOperators(ops, free, new - cur)
                      ELSE RemoveOperators(ops, free, cur - new)
<1>1. IsFiniteSet(ops) /\ IsFiniteSet(free) /\ cur \in Nat
  BY EnoughIds, FS_Subset, FS_CardinalityType
<1>2. new \in Nat
  <2>1. config_json_["operator_count"] \in Nat \cup {Missing}
    BY ConfigurationAssumption DEF Configurations
  <2> QED BY <1>1, <2>1 DEF ReadOperatorCount, GetNumber, GetProperty
<1>3. CASE new = cur
  <2>1. u = [operators |-> ops, free |-> free, servers |-> servers_metrics_]
    BY <1>3 DEF UpdateOperatorCount
  <2> QED BY <1>3, <2>1
<1>4. CASE new # cur
  <2>1. PICK r \in Resized : u = [operators |-> r.operators, free |-> r.free,
                                  servers |-> SetServers(r.free)]
    BY <1>4 DEF UpdateOperatorCount
  <2>2. u.operators = r.operators /\ u.free = r.free
    BY <2>1
  <2>3. CASE new > cur
    <3>1. PICK s \in SUBSET (OperatorIds \ ops) :
              /\ Cardinality(s) = new - cur
              /\ r = [operators |-> ops \cup s, free |-> free \cup s]
      BY <2>3 DEF AddOperators
    <3>2. IsFiniteSet(s)
      BY EnoughIds, FS_Subset
    <3>3. Cardinality(ops \cup s) =
              Cardinality(ops) + Cardinality(s) - Cardinality(ops \cap s)
      BY <1>1, <3>2, FS_Union
    <3>4. ops \cap s = {}
      OBVIOUS
    <3>5. Cardinality(ops \cap s) = 0
      BY <3>4, FS_EmptySet
    <3>6. Cardinality(r.operators) = Cardinality(ops \cup s)
      BY <3>1
    <3> HIDE DEF new
    <3>7. Cardinality(r.operators) = new
      BY <1>1, <1>2, <3>1, <3>3, <3>5, <3>6
    <3> QED BY <2>2, <3>7 DEF new
  <2>4. CASE ~(new > cur)
    <3>1. PICK s \in SUBSET free :
              /\ Cardinality(s) = cur - new \/ (s = free /\ Cardinality(s) < cur - new)
              /\ r = [operators |-> ops \ s, free |-> free \ s]
      BY <2>4 DEF RemoveOperators
    <3>2. /\ IsFiniteSet(s) /\ Cardinality(s) \in Nat
          /\ Cardinality(ops \ s) = Cardinality(ops) - Cardinality(ops \cap s)
      BY <1>1, FS_Subset, FS_CardinalityType, FS_Difference
    <3>3. ops \cap s = s
      OBVIOUS
    <3>4. Cardinality(ops \ s) = cur - Cardinality(s)
      BY <3>2, <3>3
    <3>5. r.operators = ops \ s /\ (s = free => r.free = {})
      BY <3>1
    <3> HIDE DEF new, cur
    <3>6. \/ Cardinality(r.operators) = new
          \/ Cardinality(r.operators) > new /\ s = free
      BY <1>1, <1>2, <3>1, <3>2, <3>4, <3>5
    <3> QED BY <2>2, <3>5, <3>6 DEF new, cur
  <2> QED BY <2>3, <2>4
<1> QED BY <1>3, <1>4

\* The constructor of OperatorSet establishes the invariant.
LEMMA PoolInitInv == Init => PoolInv
<1> SUFFICES ASSUME Init PROVE PoolInv
  OBVIOUS
<1> USE DEF Init, ConfigInit, OperatorInit, OperatorSetInit, ServersMetricsInit
<1>1. TypeOK
  BY DEF TypeOK, Status, Phases
<1>2. OwnershipIsExclusive
  BY DEF OwnershipIsExclusive, Held
<1>3. BusyMeansHandling
  BY DEF BusyMeansHandling, IsBusy
<1> QED BY <1>1, <1>2, <1>3 DEF PoolInv

-----------------------------------------------------------------------------
\* One lemma per action.
LEMMA TakeKeepsInv ==
    ASSUME PoolInv, NEW op \in OperatorIds \cup {NoOperator}, Take(op)
    PROVE  PoolInv'
<1> USE DEF PoolInv
<1>1. free_operators_ \in SUBSET operators_ /\ operators_ \in SUBSET OperatorIds
  BY DEF TypeOK, OwnershipIsExclusive
<1>2. PICK u \in UpdateOperatorCount(operators_, free_operators_) :
          /\ operators_' = u.operators
          /\ servers_metrics_' = u.servers
          /\ IF u.free = {} THEN op = NoOperator ELSE op \in u.free
          /\ free_operators_' = u.free \ {op}
  BY DEF Take, EraseFree
<1>3. /\ u.operators \in SUBSET OperatorIds
      /\ u.free \in SUBSET u.operators
      /\ u.operators \ u.free = operators_ \ free_operators_
      /\ u.servers \in [DOMAIN u.servers -> Nat]
  BY <1>1, UpdateKeepsOwned DEF TypeOK
<1>4. /\ phase' = [o \in OperatorIds |-> IF o = op THEN "taken" ELSE phase[o]]
      /\ UNCHANGED <<config_json_, status_, aborted>>
  BY DEF Take
<1>5. TypeOK'
  BY <1>2, <1>3, <1>4 DEF TypeOK, Phases
<1>6. operators_ \ free_operators_ = Held
  BY DEF OwnershipIsExclusive
<1>7. Held' = Held \cup ({op} \cap OperatorIds)
  BY <1>4 DEF Held
<1>8. OwnershipIsExclusive'
  <2>1. CASE u.free = {}
    BY <2>1, <1>2, <1>3, <1>6, <1>7, ServerAssumption DEF OwnershipIsExclusive
  <2>2. CASE u.free # {}
    BY <2>2, <1>2, <1>3, <1>6, <1>7 DEF OwnershipIsExclusive
  <2> QED BY <2>1, <2>2
<1>9. BusyMeansHandling'
  <2>1. op \in OperatorIds => op \notin Held
    BY <1>2, <1>3, <1>6, ServerAssumption
  <2> QED BY <2>1, <1>4 DEF BusyMeansHandling, IsBusy, Held
<1> QED BY <1>5, <1>8, <1>9

\* HandleCall makes busy an operator that its owner now handles a call with.
LEMMA HandleKeepsInv ==
    ASSUME PoolInv, NEW op \in OperatorIds, Handle(op)
    PROVE  PoolInv'
<1> USE DEF PoolInv, Handle, HandleCall, operator_set_vars
<1>1. TypeOK'
  BY DEF TypeOK, Asserting, Phases, Status
<1>2. Held' = Held
  BY DEF Held, TypeOK
<1>3. OwnershipIsExclusive'
  BY <1>2 DEF OwnershipIsExclusive
<1>4. BusyMeansHandling'
  BY DEF BusyMeansHandling, IsBusy, TypeOK
<1> QED BY <1>1, <1>3, <1>4

\* finish_handle makes free an operator that is still owned.
LEMMA FinishKeepsInv ==
    ASSUME PoolInv, NEW op \in OperatorIds, Finish(op)
    PROVE  PoolInv'
<1> USE DEF PoolInv, Finish, FinishHandle, operator_set_vars
<1>1. servers_metrics_' \in [DOMAIN servers_metrics_' -> Nat]
  BY DEF TypeOK, AddCompletedService
<1>2. TypeOK'
  BY <1>1 DEF TypeOK, Asserting, Phases, Status
<1>3. Held' = Held
  BY DEF Held, TypeOK
<1>4. OwnershipIsExclusive'
  BY <1>3 DEF OwnershipIsExclusive
<1>5. BusyMeansHandling'
  BY DEF BusyMeansHandling, IsBusy, TypeOK
<1> QED BY <1>2, <1>4, <1>5

\* InsertFree ends the ownership, and may remove the operator it was given.
LEMMA ReturnKeepsInv ==
    ASSUME PoolInv, NEW op \in OperatorIds, Return(op)
    PROVE  PoolInv'
<1> USE DEF PoolInv
<1>1. /\ phase[op] \in {"taken", "finished"}
      /\ InsertFree(op)
      /\ phase' = [phase EXCEPT ![op] = "unowned"]
      /\ UNCHANGED <<config_json_, status_, aborted>>
  BY DEF Return
<1>2. op \in Held /\ op \in operators_ /\ op \notin free_operators_
  BY <1>1 DEF OwnershipIsExclusive, Held
<1>3. PICK u \in UpdateOperatorCount(operators_, free_operators_ \cup {op}) :
          /\ operators_' = u.operators
          /\ free_operators_' = u.free
          /\ servers_metrics_' = u.servers
  BY <1>1, <1>2 DEF InsertFree
<1>4. /\ operators_ \in SUBSET OperatorIds
      /\ free_operators_ \cup {op} \in SUBSET operators_
  BY <1>2 DEF TypeOK, OwnershipIsExclusive
<1>5. /\ u.operators \in SUBSET OperatorIds
      /\ u.free \in SUBSET u.operators
      /\ u.operators \ u.free = operators_ \ (free_operators_ \cup {op})
      /\ u.servers \in [DOMAIN u.servers -> Nat]
  BY <1>4, UpdateKeepsOwned DEF TypeOK
<1>6. TypeOK'
  BY <1>1, <1>3, <1>5 DEF TypeOK, Phases
<1>7. Held' = Held \ {op}
  BY <1>1 DEF Held, TypeOK
<1>8. OwnershipIsExclusive'
  BY <1>2, <1>3, <1>5, <1>7 DEF OwnershipIsExclusive
<1>9. BusyMeansHandling'
  BY <1>1 DEF BusyMeansHandling, IsBusy, TypeOK
<1> QED BY <1>6, <1>8, <1>9

\* Every step keeps the invariant.
LEMMA PoolNextInv == PoolInv /\ [Next]_vars => PoolInv'
<1> SUFFICES ASSUME PoolInv, [Next]_vars PROVE PoolInv'
  OBVIOUS
<1>1. CASE \E op \in OperatorIds \cup {NoOperator} : Take(op)
  BY <1>1, TakeKeepsInv
<1>2. CASE \E op \in OperatorIds : Handle(op)
  BY <1>2, HandleKeepsInv
<1>3. CASE \E op \in OperatorIds : Finish(op)
  BY <1>3, FinishKeepsInv
<1>4. CASE \E op \in OperatorIds : Return(op)
  BY <1>4, ReturnKeepsInv
<1>5. CASE ChangeConfig
  BY <1>5 DEF PoolInv, ChangeConfig, UpdateConfiguration, operator_set_vars,
              TypeOK, OwnershipIsExclusive, Held, BusyMeansHandling, IsBusy
<1>6. CASE UNCHANGED vars
  BY <1>6 DEF PoolInv, vars, operator_set_vars, TypeOK, OwnershipIsExclusive,
              Held, BusyMeansHandling, IsBusy
<1> QED BY <1>1, <1>2, <1>3, <1>4, <1>5, <1>6 DEF Next, Rest

-----------------------------------------------------------------------------
\* The invariant always holds.
LEMMA PoolInvariance == Spec => []PoolInv
<1> QED BY PoolInitInv, PoolNextInv, PTL DEF Spec

\* The types of the operators, of their owners and of the table of servers.
THEOREM TypeCorrect == Spec => []TypeOK
<1>1. PoolInv => TypeOK
  BY DEF PoolInv
<1> QED BY <1>1, PoolInvariance, PTL

\* Whatever the configuration asks for and whenever it changes, an operator
\* is free or has one owner, and none is lost.
THEOREM OwnershipTheorem == Spec => []OwnershipIsExclusive
<1>1. PoolInv => OwnershipIsExclusive
  BY DEF PoolInv
<1> QED BY <1>1, PoolInvariance, PTL

\* The status of every operator is the truth, so that the assertion of
\* HandleCall never fails.
THEOREM BusyTheorem == Spec => []BusyMeansHandling
<1>1. PoolInv => BusyMeansHandling
  BY DEF PoolInv
<1> QED BY <1>1, PoolInvariance, PTL

\* A change of "operator_count" is carried out by the next EraseFree or
\* InsertFree, as far as there are free operators to remove.
THEOREM CountTheorem == Spec => CountFollowsConfiguration
<1> DEFINE count == ReadOperatorCount(GetOperatorCount)
           Follows == free_operators_' # free_operators_ =>
                        \/ GetOperatorCount' = count
                        \/ GetOperatorCount' > count /\ GetFreeOperatorCount' = 0
<1>1. ASSUME PoolInv, [Next]_vars PROVE Follows
  <2>1. /\ free_operators_ \in SUBSET operators_ /\ operators_ \in SUBSET OperatorIds
        /\ config_json_ \in Configurations
    BY <1>1 DEF PoolInv, TypeOK, OwnershipIsExclusive
  <2>2. ASSUME NEW op \in OperatorIds \cup {NoOperator}, Take(op) PROVE Follows
    <3>1. PICK u \in UpdateOperatorCount(operators_, free_operators_) :
              operators_' = u.operators /\ free_operators_' = u.free \ {op}
      BY <2>2 DEF Take, EraseFree
    <3>2. \/ Cardinality(u.operators) = count
          \/ Cardinality(u.operators) > count /\ u.free = {}
      BY <2>1, UpdateCounts DEF GetOperatorCount
    <3>3. u.free = {} => Cardinality(free_operators_') = 0
      BY <3>1, FS_EmptySet
    <3> QED BY <3>1, <3>2, <3>3 DEF GetOperatorCount, GetFreeOperatorCount
  <2>3. ASSUME NEW op \in OperatorIds, Return(op) PROVE Follows
    <3>1. CASE op \notin operators_
      BY <2>3, <3>1 DEF Return, InsertFree
    <3>2. CASE op \in operators_
      <4>1. PICK u \in UpdateOperatorCount(operators_, free_operators_ \cup {op}) :
                operators_' = u.operators /\ free_operators_' = u.free
        BY <2>3, <3>2 DEF Return, InsertFree
      <4>2. free_operators_ \cup {op} \in SUBSET operators_
        BY <2>1, <3>2
      <4>3. \/ Cardinality(u.operators) = count
            \/ Cardinality(u.operators) > count /\ u.free = {}
        BY <2>1, <4>2, UpdateCounts DEF GetOperatorCount
      <4>4. u.free = {} => Cardinality(free_operators_') = 0
        BY <4>1, FS_EmptySet
      <4> QED BY <4>1, <4>3, <4>4 DEF GetOperatorCount, GetFreeOperatorCount
    <3> QED BY <3>1, <3>2
  <2>4. ASSUME NEW op \in OperatorIds, Handle(op) \/ Finish(op) PROVE Follows
    BY <2>4 DEF Handle, Finish, operator_set_vars
  <2>5. CASE ChangeConfig \/ Rest \/ UNCHANGED vars
    BY <2>5 DEF ChangeConfig, Rest, vars, operator_set_vars
  <2> QED BY <1>1, <2>2, <2>3, <2>4, <2>5 DEF Next
<1>2. PoolInv /\ [Next]_vars => [Follows]_vars
  BY <1>1
<1> QED BY <1>2, PoolInvariance, PTL DEF Spec, CountFollowsConfiguration

-----------------------------------------------------------------------------
(* A file that never changes "operator_count".                             *)

OneCount == \A m, n \in OperatorCounts : m = n

\* The operators are as many as configured, and the table of servers has a
\* row for each of them, the ones that handle a call included.
Steady ==
    /\ Cardinality(operators_) = ReadOperatorCount(Cardinality(operators_))
    /\ DOMAIN servers_metrics_ = operators_

\* So UpdateOperatorCount leaves everything alone, the table of servers in
\* particular, ...
LEMMA SteadyUpdate ==
    ASSUME Steady, NEW free
    PROVE  UpdateOperatorCount(operators_, free) =
               {[operators |-> operators_, free |-> free, servers |-> servers_metrics_]}
BY DEF Steady, UpdateOperatorCount

\* ... and only free_operators_ changes.
LEMMA SteadyOperations ==
    ASSUME Steady, NEW op, EraseFree(op) \/ InsertFree(op)
    PROVE  UNCHANGED <<operators_, servers_metrics_>>
<1>1. CASE EraseFree(op)
  <2>1. PICK u \in UpdateOperatorCount(operators_, free_operators_) :
            operators_' = u.operators /\ servers_metrics_' = u.servers
    BY <1>1 DEF EraseFree
  <2> QED BY <2>1, SteadyUpdate
<1>2. CASE InsertFree(op) /\ op \in operators_
  <2>1. PICK u \in UpdateOperatorCount(operators_, free_operators_ \cup {op}) :
            operators_' = u.operators /\ servers_metrics_' = u.servers
    BY <1>2 DEF InsertFree
  <2> QED BY <2>1, SteadyUpdate
<1>3. CASE InsertFree(op) /\ op \notin operators_
  BY <1>3 DEF InsertFree
<1> QED BY <1>1, <1>2, <1>3

\* The constructor, which clamps as UpdateOperatorCount does, starts steady.
LEMMA SteadyInit == Init => Steady
<1> SUFFICES ASSUME Init PROVE Steady
  OBVIOUS
<1> DEFINE read == config_json_["operator_count"]
<1>1. /\ Cardinality(operators_) = ReadOperatorCount(DefaultOperatorCount)
      /\ servers_metrics_ = [s \in operators_ |-> 0]
  BY DEF Init, OperatorSetInit, ServersMetricsInit
<1>2. IsFiniteSet(OperatorIds) /\ Cardinality(OperatorIds) \in Nat
  BY EnoughIds, FS_CardinalityType
<1>3. read \in Nat \cup {Missing} /\ DefaultOperatorCount \in Nat
  <2>1. config_json_ \in Configurations
    BY DEF Init, ConfigInit
  <2>2. read \in OperatorCounts
    BY <2>1 DEF Configurations
  <2>3. read \in Nat \cup {Missing}
    BY <2>2, ConfigurationAssumption
  <2>4. DefaultOperatorCount \in Nat
    BY <1>2, PoolAssumption
  <2> QED BY <2>3, <2>4
<1> HIDE DEF read
<1>4. ReadOperatorCount(DefaultOperatorCount) =
          ReadOperatorCount(ReadOperatorCount(DefaultOperatorCount))
  BY <1>3 DEF ReadOperatorCount, GetNumber, GetProperty, Missing, read
<1> QED BY <1>1, <1>4 DEF Steady

LEMMA SteadyNext ==
    ASSUME OneCount, PoolInv, Steady, [Next]_vars PROVE Steady'
<1>1. /\ UNCHANGED operators_ /\ DOMAIN servers_metrics_' = DOMAIN servers_metrics_
  <2>1. CASE \E op \in OperatorIds \cup {NoOperator} : Take(op)
    BY <2>1, SteadyOperations DEF Take
  <2>2. CASE \E op \in OperatorIds : Return(op)
    BY <2>2, SteadyOperations DEF Return
  <2>3. CASE \E op \in OperatorIds : Handle(op) \/ Finish(op)
    BY <2>3 DEF Handle, Finish, AddCompletedService, operator_set_vars
  <2>4. CASE ChangeConfig \/ Rest \/ UNCHANGED vars
    BY <2>4 DEF ChangeConfig, Rest, vars, operator_set_vars
  <2> QED BY <2>1, <2>2, <2>3, <2>4 DEF Next
<1>2. config_json_'["operator_count"] = config_json_["operator_count"]
  <2>1. config_json_ \in Configurations /\ config_json_' \in Configurations
    BY PoolNextInv DEF PoolInv, TypeOK
  <2> QED BY <2>1 DEF OneCount, Configurations
<1> QED BY <1>1, <1>2 DEF Steady, ReadOperatorCount, GetNumber, GetProperty

LEMMA SteadyAlways ==
    ASSUME OneCount PROVE Spec => []Steady
<1>1. PoolInv /\ Steady /\ [Next]_vars => Steady'
  BY SteadyNext
<1> QED BY <1>1, SteadyInit, PoolInvariance, PTL DEF Spec

\* As long as the file never changes "operator_count", no assertion fails:
\* HandleCall finds its operator free and RecordServiceComplete finds it in
\* servers_metrics_.  (When the file does change it, the second may fail.)
THEOREM OneCountTheorem ==
    ASSUME OneCount PROVE Spec => []NoAssertionFails
<1>1. Init => NoAssertionFails
  BY DEF Init, NoAssertionFails
<1>2. PoolInv /\ Steady /\ NoAssertionFails /\ [Next]_vars => NoAssertionFails'
  <2> SUFFICES ASSUME PoolInv, Steady, NoAssertionFails, [Next]_vars PROVE NoAssertionFails'
    OBVIOUS
  <2> USE DEF NoAssertionFails
  <2>1. ASSUME NEW op \in OperatorIds, Handle(op) PROVE ~aborted'
    <3>1. phase[op] = "taken" /\ aborted' = ~IsFree(op)
      BY <2>1 DEF Handle, Asserting
    <3>2. status_[op] \in Status /\ ~IsBusy(op)
      BY <3>1 DEF PoolInv, TypeOK, BusyMeansHandling
    <3> QED BY <3>1, <3>2 DEF IsFree, IsBusy, Status
  <2>2. ASSUME NEW op \in OperatorIds, Finish(op) PROVE ~aborted'
    <3>1. phase[op] = "handling" /\ aborted' = ~ServerIsKnown(op)
      BY <2>2 DEF Finish, Asserting
    <3>2. op \in operators_
      BY <3>1 DEF PoolInv, OwnershipIsExclusive, Held
    <3> QED BY <3>1, <3>2 DEF Steady, ServerIsKnown
  <2>3. CASE \/ \E op \in OperatorIds \cup {NoOperator} : Take(op)
             \/ \E op \in OperatorIds : Return(op)
             \/ ChangeConfig \/ Rest \/ UNCHANGED vars
    BY <2>3 DEF Take, Return, ChangeConfig, Rest, vars
  <2> QED BY <2>1, <2>2, <2>3 DEF Next
<1> QED BY <1>1, <1>2, PoolInvariance, SteadyAlways, PTL DEF Spec
=============================================================================
