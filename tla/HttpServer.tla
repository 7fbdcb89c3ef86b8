------------------------------ MODULE HttpServer ------------------------------
(***************************************************************************)
(* HttpServer and its connections.  The server keeps one accept going; a   *)
(* connection reads a request, hands it to a repository and writes the     *)
(* answer, which for a call comes later and from another thread.  What the *)
(* operations of Beast and Asio may report is modelled as the code in src/ *)
(* meets it: an end of stream, an error, the timeout of the stream.        *)
(*                                                                         *)
(* The 30 seconds of expires_after are a flag, expired: it may be set at   *)
(* any time, and from then on an operation may end with the timeout, even  *)
(* one that is started later, or may still succeed.                        *)
(***************************************************************************)
EXTENDS HttpRepository, FiniteSets

CONSTANTS
    Connections,   \* the connections clients make
    SentRequests   \* the requests they may send

ASSUME ServerAssumption == SentRequests \subseteq Requests

VARIABLES
    stopped_,
    acceptor_open,   \* acceptor_.is_open()
    accepts,         \* async_accept operations under way
    starts,          \* threads about to run Start
    opens,           \* history: calls of Open
    accept_failed,   \* history
    conn

server_vars == <<stopped_, acceptor_open, accepts, starts, opens, accept_failed>>
vars == <<server_vars, conn>>

\* A connection: reading and writing are its operations under way, read is the
\* result OnReadRequest is to be called with.
NewConnection ==
    [accepted |-> FALSE, reading |-> FALSE, read |-> "none", request |-> "none",
     call |-> "none", writing |-> <<>>, answers |-> <<>>, closed |-> FALSE,
     expired |-> FALSE, client_gone |-> FALSE]

ReadResults == {"request", "end_of_stream", "error"}

\* The constructor has opened the acceptor, and main calls Start.
Init ==
    /\ stopped_ = FALSE
    /\ acceptor_open = TRUE
    /\ accepts = 0 /\ starts = 1 /\ opens = 1
    /\ accept_failed = FALSE
    /\ conn = [c \in Connections |-> NewConnection]

-----------------------------------------------------------------------------
(* HttpServer.                                                             *)

\* Start reopens an acceptor that was closed.
Start ==
    /\ starts > 0
    /\ starts' = starts - 1
    /\ accepts' = accepts + 1
    /\ opens' = IF acceptor_open THEN opens ELSE opens + 1
    /\ stopped_' = (acceptor_open /\ stopped_)
    /\ acceptor_open' = TRUE
    /\ UNCHANGED <<accept_failed, conn>>

\* The constructor and ReadRequest.
Create(k) == [k EXCEPT !.accepted = TRUE, !.reading = TRUE]

\* OnAccept without an error, as far as its call of Start: the connection is
\* made and reads.
OnAccept(c) ==
    /\ accepts > 0 /\ ~stopped_
    /\ ~conn[c].accepted
    /\ conn' = [conn EXCEPT ![c] = Create(@)]
    /\ accepts' = accepts - 1
    /\ starts' = starts + 1
    /\ UNCHANGED <<stopped_, acceptor_open, opens, accept_failed>>

\* A mistake for the checks to catch: the server tries again.
OnAcceptErrorRetries ==
    /\ accepts > 0
    /\ accept_failed' = TRUE
    /\ accepts' = accepts - 1
    /\ stopped_' = TRUE
    /\ acceptor_open' = FALSE
    /\ starts' = starts + 1
    /\ UNCHANGED <<opens, conn>>

\* OnAccept with an error, such as that of a process without a free descriptor:
\* Stop.
OnAcceptError ==
    /\ accepts > 0
    /\ accept_failed' = TRUE
    /\ accepts' = accepts - 1
    /\ stopped_' = TRUE
    /\ acceptor_open' = FALSE
    /\ UNCHANGED <<starts, opens, conn>>

-----------------------------------------------------------------------------
(* HttpConnection.  An operation is set in motion by the code and ended by *)
(* the library, which then calls the handler.                              *)

Update(c, k) == conn' = [conn EXCEPT ![c] = k] /\ UNCHANGED server_vars

Close(k) == [k EXCEPT !.closed = TRUE]
WriteResponses(k, responses) == [k EXCEPT !.writing = @ \o responses]

\* The read ends: with the request of the client, ...
RequestArrives(c, request) ==
    /\ conn[c].reading /\ ~conn[c].client_gone
    /\ Update(c, [conn[c] EXCEPT !.reading = FALSE, !.read = "request",
                                 !.request = request])

\* ... because the client has closed or reset the connection, or because the
\* stream has expired.
ReadFails(c, result) ==
    /\ conn[c].reading
    /\ \/ conn[c].client_gone /\ result \in {"end_of_stream", "error"}
       \/ conn[c].expired /\ result = "error"
    /\ Update(c, [conn[c] EXCEPT !.reading = FALSE, !.read = result])

\* OnReadRequest.
OnReadRequest(c) ==
    /\ conn[c].read # "none"
    /\ LET k == [conn[c] EXCEPT !.read = "none"]
       IN  IF conn[c].read # "request" THEN Update(c, Close(k))
           ELSE LET effects == Dispatch(k.request)
                IN  Update(c, [WriteResponses(k, effects.responses) EXCEPT
                                   !.call = IF effects.push THEN "pushed" ELSE @])

\* The call center is done with the call, perhaps before OnReadRequest has
\* returned: on_finish_ hands over the response.
OnFinish(c, status) ==
    /\ conn[c].call = "pushed"
    /\ Update(c, [WriteResponses(conn[c], <<MakeCallResponse(status)>>) EXCEPT
                      !.call = status])

\* OnWriteResponse: an error closes the connection and lets the rest of the
\* function run.
OnWriteResponse(k, keep_alive, error) ==
    LET closed == IF error THEN Close(k) ELSE k
    IN  IF keep_alive THEN [closed EXCEPT !.reading = TRUE] ELSE Close(closed)

\* A mistake for the checks to catch: the connection is closed as soon as the
\* write is under way.
WriteSucceedsUnlessClosed(c) ==
    /\ conn[c].writing # <<>>
    /\ Update(c, [Close(conn[c]) EXCEPT !.writing = Tail(@)])

\* The write ends: the response is sent, ...
WriteSucceeds(c) ==
    /\ conn[c].writing # <<>>
    /\ LET response == Head(conn[c].writing)
           k == [conn[c] EXCEPT !.writing = Tail(@), !.answers = Append(@, response)]
       IN  Update(c, OnWriteResponse(k, response.keep_alive, FALSE))

\* ... or it is not: the client is gone, or the stream has expired.
WriteFails(c) ==
    /\ conn[c].writing # <<>>
    /\ conn[c].client_gone \/ conn[c].expired
    /\ LET k == [conn[c] EXCEPT !.writing = Tail(@)]
       IN  Update(c, OnWriteResponse(k, Head(conn[c].writing).keep_alive, TRUE))

\* A mistake for the checks to catch: expires_after is forgotten.
ExpireNever(c) == FALSE /\ UNCHANGED vars

\* Thirty seconds after the constructor's expires_after.
Expire(c) ==
    /\ conn[c].accepted /\ ~conn[c].expired
    /\ Update(c, [conn[c] EXCEPT !.expired = TRUE])

ClientLeaves(c) ==
    /\ conn[c].accepted /\ ~conn[c].client_gone
    /\ Update(c, [conn[c] EXCEPT !.client_gone = TRUE])

\* No connection is open, and none need ever be made again.
Rest ==
    /\ \A c \in Connections : conn[c].accepted => conn[c].closed
    /\ UNCHANGED vars

-----------------------------------------------------------------------------
\* What the library, the clock and the call center do in the end.
Progress(c) ==
    \/ \E result \in ReadResults : ReadFails(c, result)
    \/ OnReadRequest(c)
    \/ \E status \in CallStatus : OnFinish(c, status)
    \/ WriteSucceeds(c) \/ WriteFails(c)
    \/ Expire(c)

Next ==
    \/ Start \/ OnAcceptError
    \/ \E c \in Connections :
          \/ OnAccept(c)
          \/ \E request \in SentRequests : RequestArrives(c, request)
          \/ Progress(c)
          \/ ClientLeaves(c)
    \/ Rest

\* Every operation under way ends, every handler runs, every call is finished
\* (EveryCallIsAnswered of CallCenter) and time passes.  Clients owe nothing.
Fairness == \A c \in Connections : WF_vars(Progress(c))

Spec == Init /\ [][Next]_vars
FairSpec == Spec /\ Fairness

-----------------------------------------------------------------------------
(* Properties.                                                             *)

\* The server listens with one accept at a time until an accept fails, however
\* its connections fare, and for good not after that; and Start never finds the
\* acceptor closed, for it would read endpoint_, a reference to an object of
\* main that is gone by then.
ListensUntilAcceptFails ==
    /\ accepts + starts = IF accept_failed THEN 0 ELSE 1
    /\ opens = 1

\* What uses the stream of a connection, or is about to: at most one at a time,
\* as the stream is not safe to share, although the answer to a call is written
\* by whatever thread finishes it, maybe before OnReadRequest has returned.
Uses(k) == (IF k.reading THEN 1 ELSE 0) + (IF k.read # "none" THEN 1 ELSE 0)
           + (IF k.call = "pushed" THEN 1 ELSE 0) + Len(k.writing)

\* A connection has one use at a time, is answered once at most, and is closed
\* when nothing uses it any more and not before.
OneExchange ==
    \A c \in Connections :
        /\ Uses(conn[c]) + Len(conn[c].answers) <= 1
        /\ conn[c].accepted => (conn[c].closed <=> Uses(conn[c]) = 0)

\* Whoever sends a request and stays is answered within the thirty seconds of
\* the stream: only an expired connection is closed without an answer.  The
\* answer to a call is its status, whatever became of it.
AnsweredUnlessExpired ==
    \A c \in Connections :
        conn[c].closed /\ ~conn[c].client_gone /\ ~conn[c].expired =>
            /\ Len(conn[c].answers) = 1
            /\ conn[c].call # "none" =>
                  conn[c].answers[1] = MakeCallResponse(conn[c].call)

\* No connection stays: a silent client and a call that takes too long end with
\* the timeout, every other one with its answer.
EveryConnectionIsClosed ==
    \A c \in Connections : conn[c].accepted ~> conn[c].closed
=============================================================================
