----------------------------- MODULE MCHttpServer -----------------------------
(* An instance of HttpServer for TLC.                                      *)
EXTENDS HttpServer

Target(root, longer) == [root |-> root, longer |-> longer]
Sent(method, root, longer, body) ==
    [method |-> method, target |-> Target(root, longer), body |-> body]

\* One request for each way through the dispatch and the repositories.
MCSentRequests ==
    {Sent("post", "call", FALSE, "phone"), Sent("post", "call", FALSE, "other json"),
     Sent("post", "call", FALSE, "no json"), Sent("get", "call", FALSE, "no json"),
     Sent("post", "call", TRUE, "phone"), Sent("get", "metrics", FALSE, "no json"),
     Sent("put", "metrics", FALSE, "no json"), Sent("get", "other", FALSE, "no json")}
=============================================================================
