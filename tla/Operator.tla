------------------------------- MODULE Operator -------------------------------
(***************************************************************************)
(* An operator: the Server whose status_ tells whether it is handling a    *)
(* call.  HandleCall marks it busy and posts the task that, after a random *)
(* delay, marks it free again and runs the on_finish callback; the task    *)
(* itself belongs to the user of this module.                              *)
(***************************************************************************)
EXTENDS Integers, Server

CONSTANTS
    MinDelay,       \* "operator_min_delay", in ticks
    MaxDelay        \* "operator_max_delay", in ticks

ASSUME OperatorAssumption ==
    /\ MinDelay \in Nat /\ MaxDelay \in Nat /\ MinDelay <= MaxDelay

VARIABLE status_

Status == {"kFree", "kBusy"}

OperatorInit == status_ = [op \in OperatorIds |-> "kFree"]

IsFree(op) == status_[op] = "kFree"

IsBusy(op) == status_[op] = "kBusy"

\* GetCallDelay draws uniformly between the two configured bounds.
CallDelays == MinDelay .. MaxDelay

\* HandleCall up to PostTaskDelayed.
HandleCall(op) == status_' = [status_ EXCEPT ![op] = "kBusy"]

\* A mistake for the checks to catch: finish_handle only runs on_finish.
FinishHandleForgotten(op) == UNCHANGED status_

\* The first statement of the posted finish_handle.
FinishHandle(op) == status_' = [status_ EXCEPT ![op] = "kFree"]
=============================================================================
