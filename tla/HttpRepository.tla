---------------------------- MODULE HttpRepository ----------------------------
(***************************************************************************)
(* The repositories behind the HTTP server: which one a request goes to,   *)
(* and what CallRepository and MetricsRepository make of it.  A request    *)
(* has a method, a target and a body: the JSON object of a CallRequestDto, *)
(* another JSON value, or no JSON.                                         *)
(***************************************************************************)
EXTENDS Naturals, Sequences

\* A target is "/" root, and possibly a further "/" with something after it.
Targets == [root : {"call", "metrics", "other"}, longer : BOOLEAN]
Requests == [method : {"get", "post", "put"}, target : Targets,
             body : {"phone", "other json", "no json"}]

\* Every response of the program asks for the connection to be closed.
MakeResponse(status, body) == [status |-> status, keep_alive |-> FALSE, body |-> body]
MakeNotFoundResponse == MakeResponse("not_found", "")

\* to_string(CallStatus), as spelled there.
CallStatus == {"kOk", "kOverload", "kTimeout", "kAlreadyInQueue"}
ToString(status) ==
    CASE status = "kOk" -> "ok"
      [] status = "kOverload" -> "overload"
      [] status = "kTimeout" -> "timout"
      [] status = "kAlreadyInQueue" -> "already in queue"

\* The body of a CallResponseDto, whose one member is the text of the status.
MakeResponseBody(status) == ToString(status)
MakeCallResponse(status) == MakeResponse("ok", MakeResponseBody(status))

\* The part of the target by which a repository is looked up.  The length that
\* substr is given takes in the second slash, so that what it finds in a longer
\* target is no repository's root.
PathRoot(target) == IF target.longer THEN "with slash" ELSE target.root

\* AddRepository, for the two repositories of main.
repositories_ == {"call", "metrics"}

\* What HandleRequest does: the responses it hands to on_handle, and whether
\* it pushes a call, whose end will hand over one more.
Answer(status, body) == [responses |-> <<MakeResponse(status, body)>>, push |-> FALSE]
Push == [responses |-> <<>>, push |-> TRUE]

\* json::parse and value_to<CallRequestDto>, both of which throw system_error.
ParseRequestBody(body) == body = "phone"

\* A mistake for the checks to catch: a return is missing.
CallHandleRequestFallsThrough(request) ==
    IF request.method # "post" THEN [Answer("method_not_allowed", "") EXCEPT !.push = TRUE]
    ELSE IF ParseRequestBody(request.body) THEN Push
    ELSE Answer("bad_request", "")

CallHandleRequest(request) ==
    IF request.method # "post" THEN Answer("method_not_allowed", "")
    ELSE IF ParseRequestBody(request.body) THEN Push
    ELSE Answer("bad_request", "")

\* The body is the report that MetricsCollection describes.
MetricsHandleRequest(request) ==
    IF request.method # "get" THEN Answer("method_not_allowed", "")
    ELSE Answer("ok", "metrics")

\* What OnReadRequest makes of a request it could read.
Dispatch(request) ==
    LET root == PathRoot(request.target)
    IN  IF root \notin repositories_
        THEN [responses |-> <<MakeNotFoundResponse>>, push |-> FALSE]
        ELSE IF root = "call" THEN CallHandleRequest(request)
        ELSE MetricsHandleRequest(request)
=============================================================================
