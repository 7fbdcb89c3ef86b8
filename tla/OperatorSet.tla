----------------------------- MODULE OperatorSet -----------------------------
(***************************************************************************)
(* OperatorSet: the operators that exist and those that are free.  The two *)
(* public operations run under mutex_ and each is one step here; both      *)
(* start or end by bringing the number of operators to the configured one, *)
(* and tell QueueingSystemMetrics about the change.                        *)
(***************************************************************************)
EXTENDS Configuration, Operator, ServersMetrics

VARIABLES
    operators_,
    free_operators_

operator_set_vars == <<operators_, free_operators_>>

\* GetSize and GetFreeOperatorCount.
GetOperatorCount == Cardinality(operators_)
GetFreeOperatorCount == Cardinality(free_operators_)

ReadOperatorCount(default_value) == GetNumber("operator_count", default_value, 1)

\* operator_provider_ never runs out of ids.
ASSUME EnoughIds ==
    /\ IsFiniteSet(OperatorIds)
    /\ \A n \in OperatorCounts : n <= Cardinality(OperatorIds)
    /\ OperatorIds # {}

\* The constructor.  kDefaultOperatorCount_ stands in for a missing key.
OperatorSetInit(kDefaultOperatorCount_) ==
    /\ operators_ \in SUBSET OperatorIds
    /\ Cardinality(operators_) = ReadOperatorCount(kDefaultOperatorCount_)
    /\ free_operators_ = operators_
    /\ ServersMetricsInit(operators_)

\* A mistake for the checks to catch: the loop starts from one.
AddOperatorsOneShort(ops, free, count) ==
    { [operators |-> ops \cup new, free |-> free \cup new] :
        new \in {s \in SUBSET (OperatorIds \ ops) : Cardinality(s) = count - 1} }

\* AddOperators(count) asks operator_provider_ for operators with new ids.
AddOperators(ops, free, count) ==
    { [operators |-> ops \cup new, free |-> free \cup new] :
        new \in {s \in SUBSET (OperatorIds \ ops) : Cardinality(s) = count} }

\* A mistake for the checks to catch: the operator stays in free_operators_.
RemoveOperatorsStillFree(ops, free, count) ==
    { [operators |-> ops \ gone, free |-> free] :
        gone \in {s \in SUBSET free :
                     \/ Cardinality(s) = count
                     \/ s = free /\ Cardinality(s) < count} }

\* RemoveOperators(count) takes only free ones, in hash order, and stops when
\* there are no more.
RemoveOperators(ops, free, count) ==
    { [operators |-> ops \ gone, free |-> free \ gone] :
        gone \in {s \in SUBSET free :
                     \/ Cardinality(s) = count
                     \/ s = free /\ Cardinality(s) < count} }

\* The results UpdateOperatorCount may have on the given sets.
UpdateOperatorCount(ops, free) ==
    LET cur_count == Cardinality(ops)
        new_count == ReadOperatorCount(cur_count)
        Resized   == IF new_count > cur_count
                     THEN AddOperators(ops, free, new_count - cur_count)
                     ELSE RemoveOperators(ops, free, cur_count - new_count)
    IN  IF new_count = cur_count
        THEN {[operators |-> ops, free |-> free, servers |-> servers_metrics_]}
        ELSE { [operators |-> r.operators,
                free      |-> r.free,
                servers   |-> SetServers(r.free)] : r \in Resized }

\* EraseFree(): op is the operator returned, NoOperator when none is free.
EraseFree(op) ==
    \E u \in UpdateOperatorCount(operators_, free_operators_) :
        /\ operators_' = u.operators
        /\ servers_metrics_' = u.servers
        /\ IF u.free = {} THEN op = NoOperator ELSE op \in u.free
        /\ free_operators_' = u.free \ {op}

\* InsertFree(op).
InsertFree(op) ==
    \/ /\ op \notin operators_
       /\ UNCHANGED <<operators_, free_operators_, servers_metrics_>>
    \/ /\ op \in operators_
       /\ \E u \in UpdateOperatorCount(operators_, free_operators_ \cup {op}) :
             /\ operators_' = u.operators
             /\ free_operators_' = u.free
             /\ servers_metrics_' = u.servers
=============================================================================
