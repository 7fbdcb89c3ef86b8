---------------------------- MODULE ServersMetrics ----------------------------
(***************************************************************************)
(* The part of QueueingSystemMetrics that service_mutex_ guards: the table *)
(* servers_metrics_, with the number of requests each server has serviced. *)
(***************************************************************************)
EXTENDS Integers, FiniteSets, Functions

VARIABLE servers_metrics_     \* server |-> requests serviced

\* SetServers in the constructor of OperatorSet fills the table.
ServersMetricsInit(servers) == servers_metrics_ = [s \in servers |-> 0]

\* The table after SetServers(servers): what was known of the servers that
\* stay, a fresh ServiceMetrics for each new one, nothing of the others.
SetServers(servers) ==
    [s \in servers |->
        IF s \in DOMAIN servers_metrics_ THEN servers_metrics_[s] ELSE 0]

\* What RecordServiceComplete asserts before it looks the server up.
ServerIsKnown(server) == server \in DOMAIN servers_metrics_

\* A mistake for the checks to catch: the count goes the wrong way.
AddCompletedServiceDown(server) ==
    servers_metrics_' = [s \in DOMAIN servers_metrics_ |->
        servers_metrics_[s] - (IF s = server THEN 1 ELSE 0)]

\* GetServerMetrics(server).AddCompletedService(...).
AddCompletedService(server) ==
    servers_metrics_' = [s \in DOMAIN servers_metrics_ |->
        servers_metrics_[s] + (IF s = server THEN 1 ELSE 0)]

GetServicedCount == SumFunction(servers_metrics_)
=============================================================================
