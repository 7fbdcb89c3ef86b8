---------------------------- MODULE Configuration ----------------------------
(***************************************************************************)
(* The configuration as its readers see it: the values that config.json    *)
(* holds for the three keys that drive the core, and the two ways in which *)
(* the components read them.                                               *)
(*                                                                         *)
(* UpdateConfiguration replaces the whole JSON object and empties the      *)
(* cache under config_mutex_, so a reader sees, between two updates, one   *)
(* fixed value (or no value) for each key.  A value of the wrong type and a *)
(* file that does not parse are read as no value too.                      *)
(***************************************************************************)
EXTENDS Integers

CONSTANTS
    OperatorCounts,   \* values of "operator_count" the file may hold
    Capacities,       \* values of "queue_capacity"
    MaxWaits          \* values of "call_max_wait", in ticks (its default, used
                      \* when the key is missing, counts as one of them)

\* The key is not in the file: the reader keeps its default.
Missing == -1

ASSUME ConfigurationAssumption ==
    /\ OperatorCounts \subseteq Nat \cup {Missing} /\ OperatorCounts # {}
    /\ Capacities \subseteq Nat \cup {Missing} /\ Capacities # {}
    /\ MaxWaits \subseteq Nat /\ MaxWaits # {}

VARIABLE config_json_

Configurations == [operator_count : OperatorCounts,
                   queue_capacity : Capacities,
                   call_max_wait : MaxWaits]

\* The file holds one of the admissible values of each key when it is loaded.
ConfigInit == config_json_ \in Configurations

\* A mistake for the checks to catch: value_or is forgotten.
GetPropertyWithoutDefault(key, default_value) == config_json_[key]

\* GetProperty(key, default_value).
GetProperty(key, default_value) ==
    IF config_json_[key] = Missing THEN default_value ELSE config_json_[key]

\* GetNumber(key, default_value, min): the value, or the default, clamped to
\* be at least min (the callers leave max at the type's own maximum).
GetNumber(key, default_value, min) ==
    LET value == GetProperty(key, default_value)
    IN  IF value < min THEN min ELSE value

\* The periodic update reads a file that an administrator has edited.
UpdateConfiguration ==
    /\ config_json_' \in Configurations
    /\ config_json_' # config_json_
=============================================================================
