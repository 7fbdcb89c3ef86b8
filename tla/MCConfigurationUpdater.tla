------------------------ MODULE MCConfigurationUpdater ------------------------
(* An instance of ConfigurationUpdater for TLC.                            *)
EXTENDS ConfigurationUpdater, TLC

Object(caching, level, count, operators) ==
    [k \in Keys |->
        CASE k = "configuration_is_caching" -> caching
          [] k = "log_severity_level" -> level
          [] k = "task_manager_user_thread_count" -> count
          [] k = "operator_count" -> operators
          [] OTHER -> Missing]

\* Caching by default and everything at its default; no caching, no threads
\* asked for and a level that does not exist; caching, one thread.
MCObjects == {Object(Missing, "INFO", Missing, "one"),
              Object(FALSE, "LOUD", 0, Missing),
              Object(TRUE, "ERROR", 1, "two")}

MCThreads == {Main} \cup IoThreads \cup UserThreads
=============================================================================
