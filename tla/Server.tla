-------------------------------- MODULE Server --------------------------------
(***************************************************************************)
(* The identities of servers: the part of core::qs::Server that records,   *)
(* metrics and sets refer to.                                              *)
(***************************************************************************)

CONSTANTS
    OperatorIds,    \* the ids that new operators draw from
    NoOperator      \* nullptr, or std::nullopt for an id

ASSUME ServerAssumption == NoOperator \notin OperatorIds
=============================================================================
