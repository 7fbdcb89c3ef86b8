----------------------------- MODULE OperatorPool -----------------------------
(***************************************************************************)
(* The operators as their users see them.  A caller of EraseFree owns the  *)
(* operator it gets until it gives it back with InsertFree: unused         *)
(* (CallCenter found nothing for it to do), or after the operator has      *)
(* handled one call and RecordServiceComplete has been told of it.         *)
(***************************************************************************)
EXTENDS OperatorSet

CONSTANTS
    DefaultOperatorCount,  \* kDefaultOperatorCount_
    MaxServiced            \* bound: calls each operator handles

ASSUME PoolAssumption ==
    /\ DefaultOperatorCount \in 1 .. Cardinality(OperatorIds)
    /\ MaxServiced \in Nat

VARIABLES
    phase,    \* what the owner of each operator is doing with it
    aborted   \* an assertion has failed and ended the process

Phases == {"unowned", "taken", "handling", "finished"}

vars == <<config_json_, status_, servers_metrics_, operator_set_vars, phase,
          aborted>>

Held == {op \in OperatorIds : phase[op] # "unowned"}

TypeOK ==
    /\ config_json_ \in Configurations
    /\ status_ \in [OperatorIds -> Status]
    /\ operators_ \in SUBSET OperatorIds
    /\ free_operators_ \in SUBSET OperatorIds
    /\ servers_metrics_ \in [DOMAIN servers_metrics_ -> Nat]
    /\ phase \in [OperatorIds -> Phases]
    /\ aborted \in BOOLEAN

Init ==
    /\ ConfigInit
    /\ OperatorInit
    /\ OperatorSetInit(DefaultOperatorCount)
    /\ phase = [op \in OperatorIds |-> "unowned"]
    /\ aborted = FALSE

\* EraseFree by some thread; the operator, if there is one, is now its own.
Take(op) ==
    /\ ~aborted
    /\ EraseFree(op)
    /\ phase' = [o \in OperatorIds |-> IF o = op THEN "taken" ELSE phase[o]]
    /\ UNCHANGED <<config_json_, status_, aborted>>

\* A failed assertion ends the process; what else the step does is then
\* without consequence.
Asserting(condition) == aborted' = ~condition

\* The end of StartCallProcessing: HandleCall, with its assertion.
Handle(op) ==
    /\ ~aborted
    /\ phase[op] = "taken"
    /\ ServerIsKnown(op) => servers_metrics_[op] < MaxServiced
    /\ Asserting(IsFree(op))
    /\ HandleCall(op)
    /\ phase' = [phase EXCEPT ![op] = "handling"]
    /\ UNCHANGED <<config_json_, servers_metrics_, operator_set_vars>>

\* The delayed task: finish_handle, then FinishCallProcessing as far as
\* RecordServiceComplete, with its assertion.
Finish(op) ==
    /\ ~aborted
    /\ phase[op] = "handling"
    /\ Asserting(ServerIsKnown(op))
    /\ FinishHandle(op)
    /\ AddCompletedService(op)
    /\ phase' = [phase EXCEPT ![op] = "finished"]
    /\ UNCHANGED <<config_json_, operator_set_vars>>

\* InsertFree of an operator that was not needed, or has finished.
Return(op) ==
    /\ ~aborted
    /\ phase[op] \in {"taken", "finished"}
    /\ InsertFree(op)
    /\ phase' = [phase EXCEPT ![op] = "unowned"]
    /\ UNCHANGED <<config_json_, status_, aborted>>

ChangeConfig ==
    /\ ~aborted
    /\ UpdateConfiguration
    /\ UNCHANGED <<status_, servers_metrics_, operator_set_vars, phase, aborted>>

\* The process has ended.
Rest == aborted /\ UNCHANGED vars

Next ==
    \/ \E op \in OperatorIds \cup {NoOperator} : Take(op)
    \/ \E op \in OperatorIds : Handle(op) \/ Finish(op) \/ Return(op)
    \/ ChangeConfig
    \/ Rest

Spec == Init /\ [][Next]_vars

-----------------------------------------------------------------------------
(* Properties.                                                             *)

\* Every operator that exists is either free or owned by exactly one user,
\* never both and never lost: EraseFree and InsertFree, with whatever
\* additions and removals UpdateOperatorCount makes in between, keep the two
\* sets of OperatorSet in step with what the threads hold.  So the "Unknown
\* operator" branch of InsertFree is never taken.
OwnershipIsExclusive ==
    /\ free_operators_ \cap Held = {}
    /\ free_operators_ \cup Held = operators_

\* status_ tells the truth to the metrics that read it and to the assertion
\* of HandleCall: exactly the operators that are handling a call are busy, in
\* particular each one found in the free set, or just added, is free.
BusyMeansHandling ==
    \A op \in OperatorIds : IsBusy(op) <=> phase[op] = "handling"

\* A change of "operator_count" is carried out as soon as operators allow:
\* whenever EraseFree or InsertFree has changed the free set, the set has the
\* configured size, or is larger only because all that remain are owned.
CountFollowsConfiguration ==
    [][free_operators_' # free_operators_ =>
          LET count == ReadOperatorCount(GetOperatorCount)
          IN  \/ GetOperatorCount' = count
              \/ GetOperatorCount' > count /\ GetFreeOperatorCount' = 0]_vars

\* No assertion fails: in particular RecordServiceComplete always finds the
\* operator that has just handled a call in servers_metrics_.
NoAssertionFails == ~aborted
=============================================================================
