------------------------------ MODULE HttpProofs ------------------------------
(***************************************************************************)
(* Proofs about the HTTP server for any set of connections and requests:   *)
(* how long it listens, and that a connection is one exchange, answered    *)
(* unless its stream has expired or its client is gone.                    *)
(*                                                                         *)
(* The strengthening for a connection is the list of the states it goes    *)
(* through, each with all it knows then (Life).                            *)
(***************************************************************************)
EXTENDS HttpServer, TLAPS

ServerInv ==
    /\ accepts \in Nat /\ starts \in Nat /\ accept_failed \in BOOLEAN
    /\ accept_failed = FALSE => acceptor_open = TRUE
    /\ ListensUntilAcceptFails

Fields == {"accepted", "reading", "read", "request", "call", "writing", "answers",
           "closed", "expired", "client_gone"}

\* Nothing of the connection is under way but what is said.
Is(k, accepted, reading, closed) ==
    /\ DOMAIN k = Fields
    /\ k.expired \in BOOLEAN /\ k.client_gone \in BOOLEAN
    /\ k.accepted = accepted /\ k.reading = reading /\ k.closed = closed

Lost(k) == k.expired = TRUE \/ k.client_gone = TRUE

\* The response that was written, or is.
Suits(k, response) ==
    /\ response.keep_alive = FALSE
    /\ k.call \in CallStatus \cup {"none"}
    /\ k.call # "none" => response = MakeCallResponse(k.call)

Unused(k) ==
    /\ Is(k, FALSE, FALSE, FALSE)
    /\ k.read = "none" /\ k.call = "none" /\ k.writing = <<>> /\ k.answers = <<>>
Waiting(k) ==
    /\ Is(k, TRUE, TRUE, FALSE)
    /\ k.read = "none" /\ k.call = "none" /\ k.writing = <<>> /\ k.answers = <<>>
HasRead(k) ==
    /\ Is(k, TRUE, FALSE, FALSE)
    /\ \/ k.read = "request" /\ k.request \in SentRequests
       \/ k.read \in {"end_of_stream", "error"} /\ Lost(k)
    /\ k.call = "none" /\ k.writing = <<>> /\ k.answers = <<>>
Calls(k) ==
    /\ Is(k, TRUE, FALSE, FALSE)
    /\ k.read = "none" /\ k.call = "pushed" /\ k.writing = <<>> /\ k.answers = <<>>
Writes(k) ==
    /\ Is(k, TRUE, FALSE, FALSE)
    /\ k.read = "none" /\ k.answers = <<>>
    /\ \E response : k.writing = <<response>> /\ Suits(k, response)
Over(k) ==
    /\ Is(k, TRUE, FALSE, TRUE)
    /\ k.read = "none" /\ k.call # "pushed" /\ k.writing = <<>>
    /\ \/ k.answers = <<>> /\ Lost(k)
       \/ \E response : k.answers = <<response>> /\ Suits(k, response)

Life(k) == Unused(k) \/ Waiting(k) \/ HasRead(k) \/ Calls(k) \/ Writes(k) \/ Over(k)

HttpInv ==
    /\ ServerInv
    /\ DOMAIN conn = Connections
    /\ \A c \in Connections : Life(conn[c])

-----------------------------------------------------------------------------
\* A repository hands over one response, or pushes a call that will.
LEMMA DispatchAnswersOnce ==
    ASSUME NEW request \in SentRequests
    PROVE  \/ Dispatch(request).responses = <<>> /\ Dispatch(request).push = TRUE
           \/ /\ \E response : /\ Dispatch(request).responses = <<response>>
                               /\ response.keep_alive = FALSE
              /\ Dispatch(request).push = FALSE
<1> DEFINE One(effects) ==
       \/ effects.responses = <<>> /\ effects.push = TRUE
       \/ /\ \E response : effects.responses = <<response>> /\ response.keep_alive = FALSE
          /\ effects.push = FALSE
<1>1. \A status, body : One(Answer(status, body))
  BY DEF Answer, MakeResponse
<1>2. One(Push)
  BY DEF Push
<1>3. One([responses |-> <<MakeNotFoundResponse>>, push |-> FALSE])
  <2>1. [responses |-> <<MakeNotFoundResponse>>, push |-> FALSE] = Answer("not_found", "")
    BY DEF MakeNotFoundResponse, Answer
  <2> HIDE DEF One
  <2> QED BY <1>1, <2>1
<1> HIDE DEF One
<1>4. One(CallHandleRequest(request))
  <2>1. CASE request.method # "post"
    BY <1>1, <2>1 DEF CallHandleRequest
  <2>2. CASE request.method = "post" /\ ~ParseRequestBody(request.body)
    BY <1>1, <2>2 DEF CallHandleRequest
  <2>3. CASE request.method = "post" /\ ParseRequestBody(request.body)
    BY <1>2, <2>3 DEF CallHandleRequest
  <2> QED BY <2>1, <2>2, <2>3
<1>5. One(MetricsHandleRequest(request))
  BY <1>1 DEF MetricsHandleRequest
<1>6. PathRoot(request.target) \notin repositories_
      \/ PathRoot(request.target) = "call" \/ PathRoot(request.target) = "metrics"
  BY DEF repositories_
<1>7. One(Dispatch(request))
  BY <1>3, <1>4, <1>5, <1>6 DEF Dispatch, repositories_
<1> QED BY <1>7 DEF One

\* Sequences of at most one element.
LEMMA OneElement ==
    ASSUME NEW e
    PROVE  /\ <<>> \o <<e>> = <<e>> /\ Append(<<>>, e) = <<e>>
           /\ <<>> \o <<>> = <<>>
           /\ Head(<<e>>) = e /\ Tail(<<e>>) = <<>> /\ <<e>> # <<>>
           /\ Len(<<e>>) = 1 /\ <<e>>[1] = e /\ Len(<<>>) = 0
OBVIOUS

\* What a handler of a connection does to it.
LEMMA HandlerPreserves ==
    ASSUME HttpInv, NEW c \in Connections, NEW k, Life(k), Update(c, k)
    PROVE  HttpInv'
<1>1. DOMAIN conn' = Connections /\ \A d \in Connections : Life(conn'[d])
  BY DEF HttpInv, Update
<1>2. ServerInv'
  BY DEF HttpInv, ServerInv, ListensUntilAcceptFails, Update, server_vars
<1> QED BY <1>1, <1>2 DEF HttpInv

\* The end of a write.
LEMMA WritePreserves ==
    ASSUME NEW k, Writes(k), NEW answers,
           \/ answers = Append(k.answers, Head(k.writing))
           \/ answers = k.answers /\ Lost(k),
           NEW error \in BOOLEAN
    PROVE  Over(OnWriteResponse([k EXCEPT !.writing = Tail(@), !.answers = answers],
                                Head(k.writing).keep_alive, error))
<1>1. PICK response : k.writing = <<response>> /\ Suits(k, response)
  BY DEF Writes
<1> DEFINE w == [k EXCEPT !.writing = Tail(@), !.answers = answers]
           z == [w EXCEPT !.closed = TRUE]
<1>2. /\ Head(k.writing) = response /\ Tail(k.writing) = <<>>
      /\ response.keep_alive = FALSE
  BY <1>1, OneElement DEF Suits
<1>3. answers = <<response>> \/ (answers = <<>> /\ Lost(k))
  BY <1>2, OneElement DEF Writes
<1>4. DOMAIN k = Fields
  BY DEF Writes, Is
<1>5. /\ DOMAIN w = Fields /\ w.writing = <<>> /\ w.answers = answers
      /\ w.accepted = k.accepted /\ w.reading = k.reading /\ w.read = k.read
      /\ w.call = k.call /\ w.expired = k.expired /\ w.client_gone = k.client_gone
  BY <1>2, <1>4 DEF Fields
<1> HIDE DEF w
<1>6. /\ DOMAIN z = Fields /\ z.writing = <<>> /\ z.answers = answers
      /\ z.accepted = k.accepted /\ z.reading = k.reading /\ z.read = k.read
      /\ z.call = k.call /\ z.expired = k.expired /\ z.client_gone = k.client_gone
      /\ z.closed = TRUE
  BY <1>5 DEF Fields
<1>7. OnWriteResponse(w, Head(k.writing).keep_alive, error) = z
  <2>1. [z EXCEPT !.closed = TRUE] = z
    BY <1>5 DEF Fields
  <2> QED BY <1>2, <2>1 DEF OnWriteResponse, Close
<1> HIDE DEF z
<1>8. Over(z)
  BY <1>1, <1>3, <1>6 DEF Over, Writes, Is, Suits, Lost, CallStatus
<1> QED BY <1>7, <1>8 DEF w

LEMMA HttpInvInit == Init => HttpInv
<1> SUFFICES ASSUME Init PROVE HttpInv
  OBVIOUS
<1>1. ServerInv
  <2>1. accept_failed = FALSE /\ accepts = 0 /\ starts = 1 /\ opens = 1
    BY DEF Init
  <2>2. ListensUntilAcceptFails
    BY <2>1 DEF ListensUntilAcceptFails
  <2>3. accepts \in Nat /\ starts \in Nat
    BY <2>1
  <2>4. accept_failed \in BOOLEAN /\ acceptor_open = TRUE
    BY <2>1 DEF Init
  <2> QED BY <2>2, <2>3, <2>4 DEF ServerInv
<1>2. Unused(NewConnection)
  BY DEF Unused, Is, NewConnection, Fields
<1> QED BY <1>1, <1>2 DEF Init, HttpInv, Life

\* The steps of the server.
LEMMA ServerPreserves ==
    ASSUME HttpInv,
           \/ Start \/ OnAcceptError \/ \E c \in Connections : OnAccept(c)
    PROVE  HttpInv'
<1>1. CASE Start
  BY <1>1 DEF Start, HttpInv, ServerInv, ListensUntilAcceptFails
<1>2. CASE OnAcceptError
  BY <1>2 DEF OnAcceptError, HttpInv, ServerInv, ListensUntilAcceptFails
<1>3. ASSUME NEW c \in Connections, OnAccept(c)
      PROVE  HttpInv'
  <2>1. ServerInv'
    BY <1>3 DEF OnAccept, HttpInv, ServerInv, ListensUntilAcceptFails
  <2>2. Unused(conn[c])
    <3>1. conn[c].accepted # TRUE /\ Life(conn[c])
      BY <1>3 DEF OnAccept, HttpInv
    <3> QED BY <3>1 DEF Life, Waiting, HasRead, Calls, Writes, Over, Is
  <2>3. Waiting(Create(conn[c]))
    BY <2>2 DEF Unused, Waiting, Create, Is, Fields
  <2> QED BY <1>3, <2>1, <2>3 DEF OnAccept, HttpInv, Life
<1> QED BY <1>1, <1>2, <1>3

\* The steps of a connection.
LEMMA ConnectionPreserves ==
    ASSUME HttpInv, NEW c \in Connections,
           \/ \E request \in SentRequests : RequestArrives(c, request)
           \/ Progress(c) \/ ClientLeaves(c)
    PROVE  HttpInv'
<1> DEFINE k == conn[c]
<1>0. Life(k)
  BY DEF HttpInv
<1>1. ASSUME NEW request \in SentRequests, RequestArrives(c, request)
      PROVE  HttpInv'
  <2> DEFINE z == [k EXCEPT !.reading = FALSE, !.read = "request", !.request = request]
  <2>1. Waiting(k)
    BY <1>0, <1>1 DEF RequestArrives, Life, Unused, HasRead, Calls, Writes, Over, Is
  <2>2. HasRead(z)
    BY <2>1 DEF Waiting, HasRead, Is, Fields
  <2>3. Update(c, z)
    BY <1>1 DEF RequestArrives
  <2> QED BY <2>2, <2>3, HandlerPreserves DEF Life
<1>2. ASSUME NEW result \in ReadResults, ReadFails(c, result)
      PROVE  HttpInv'
  <2> DEFINE z == [k EXCEPT !.reading = FALSE, !.read = result]
  <2>1. Waiting(k)
    BY <1>0, <1>2 DEF ReadFails, Life, Unused, HasRead, Calls, Writes, Over, Is
  <2>2. Lost(k) /\ result \in {"end_of_stream", "error"}
    BY <1>2, <2>1 DEF ReadFails, Waiting, Is, Lost
  <2>3. HasRead(z)
    BY <2>1, <2>2 DEF Waiting, HasRead, Is, Fields, Lost
  <2>4. Update(c, z)
    BY <1>2 DEF ReadFails
  <2> QED BY <2>3, <2>4, HandlerPreserves DEF Life
<1>3. CASE OnReadRequest(c)
  <2> DEFINE r == [k EXCEPT !.read = "none"]
  <2>1. HasRead(k)
    BY <1>0, <1>3 DEF OnReadRequest, Life, Unused, Waiting, Calls, Writes, Over, Is
  <2>2. /\ DOMAIN r = Fields /\ r.read = "none" /\ r.request = k.request
        /\ r.call = "none" /\ r.writing = <<>> /\ r.answers = <<>>
        /\ Is(r, TRUE, FALSE, FALSE)
        /\ Lost(r) = Lost(k)
    BY <2>1 DEF HasRead, Is, Fields, Lost
  <2> HIDE DEF r
  <2>3. CASE k.read # "request"
    <3>1. Update(c, Close(r))
      BY <1>3, <2>3 DEF OnReadRequest, r
    <3>2. Over(Close(r))
      BY <2>1, <2>2, <2>3 DEF HasRead, Close, Over, Is, Fields, Lost
    <3> QED BY <3>1, <3>2, HandlerPreserves DEF Life
  <2>4. CASE k.read = "request"
    <3> DEFINE effects == Dispatch(k.request)
               w == [r EXCEPT !.writing = @ \o effects.responses]
               z == [w EXCEPT !.call = IF effects.push THEN "pushed" ELSE @]
    <3>1. Update(c, z)
      BY <1>3, <2>2, <2>4 DEF OnReadRequest, WriteResponses, r
    <3>2. k.request \in SentRequests
      BY <2>1, <2>4 DEF HasRead
    <3>3. CASE effects.responses = <<>> /\ effects.push = TRUE
      <4>1. Calls(z)
        BY <2>2, <3>3, OneElement DEF Calls, Is, Fields
      <4> QED BY <3>1, <4>1, HandlerPreserves DEF Life
    <3>4. ASSUME NEW response, effects.responses = <<response>>,
                 response.keep_alive = FALSE, effects.push = FALSE
          PROVE  HttpInv'
      <4>1. z.writing = <<response>> /\ z.call = "none"
        BY <2>2, <3>4, OneElement DEF Fields
      <4>2. z.read = "none" /\ z.answers = <<>> /\ Is(z, TRUE, FALSE, FALSE)
        BY <2>2 DEF Is, Fields
      <4>3. Writes(z)
        BY <3>4, <4>1, <4>2 DEF Writes, Suits
      <4> QED BY <3>1, <4>3, HandlerPreserves DEF Life
    <3> QED BY <3>2, <3>3, <3>4, DispatchAnswersOnce
  <2> QED BY <2>3, <2>4
<1>4. ASSUME NEW status \in CallStatus, OnFinish(c, status)
      PROVE  HttpInv'
  <2> DEFINE w == [k EXCEPT !.writing = @ \o <<MakeCallResponse(status)>>]
             z == [w EXCEPT !.call = status]
  <2>1. Calls(k)
    BY <1>0, <1>4 DEF OnFinish, Life, Unused, Waiting, HasRead, Writes, Over, Suits, CallStatus
  <2>2. Update(c, z)
    BY <1>4 DEF OnFinish, WriteResponses
  <2>3. z.writing = <<MakeCallResponse(status)>> /\ z.call = status
    BY <2>1, OneElement DEF Calls, Is, Fields
  <2>4. z.read = "none" /\ z.answers = <<>> /\ Is(z, TRUE, FALSE, FALSE)
    BY <2>1 DEF Calls, Is, Fields
  <2>5. MakeCallResponse(status).keep_alive = FALSE
    BY DEF MakeCallResponse, MakeResponse
  <2>6. Writes(z)
    BY <2>3, <2>4, <2>5 DEF Writes, Suits
  <2> QED BY <2>2, <2>6, HandlerPreserves DEF Life
<1>5. CASE WriteSucceeds(c) \/ WriteFails(c)
  <2>1. Writes(k)
    BY <1>0, <1>5 DEF WriteSucceeds, WriteFails, Life, Unused, Waiting, HasRead, Calls, Over
  <2>2. CASE WriteSucceeds(c)
    <3> DEFINE answers == Append(k.answers, Head(k.writing))
               z == OnWriteResponse([k EXCEPT !.writing = Tail(@), !.answers = answers],
                                    Head(k.writing).keep_alive, FALSE)
    <3>1. Update(c, z)
      BY <2>2 DEF WriteSucceeds
    <3>2. Over(z)
      BY <2>1, WritePreserves
    <3> QED BY <3>1, <3>2, HandlerPreserves DEF Life
  <2>3. CASE WriteFails(c)
    <3> DEFINE w == [k EXCEPT !.writing = Tail(@), !.answers = k.answers]
               z == OnWriteResponse(w, Head(k.writing).keep_alive, TRUE)
    <3>1. w = [k EXCEPT !.writing = Tail(@)]
      BY <2>1 DEF Writes, Is, Fields
    <3>2. Update(c, z)
      BY <2>3, <3>1 DEF WriteFails
    <3>3. Lost(k)
      BY <2>1, <2>3 DEF WriteFails, Writes, Is, Lost
    <3>4. Over(z)
      BY <2>1, <3>3, WritePreserves
    <3> QED BY <3>2, <3>4, HandlerPreserves DEF Life
  <2> QED BY <1>5, <2>2, <2>3
<1>6. CASE Expire(c) \/ ClientLeaves(c)
  <2> DEFINE e == [k EXCEPT !.expired = TRUE]
             g == [k EXCEPT !.client_gone = TRUE]
  <2>1. Update(c, e) \/ Update(c, g)
    BY <1>6 DEF Expire, ClientLeaves
  <2>2. ASSUME NEW z \in {e, g} PROVE Life(z)
    <3>1. /\ \A f \in Fields \ {"expired", "client_gone"} : z[f] = k[f]
          /\ DOMAIN z = Fields
          /\ z.expired \in BOOLEAN /\ z.client_gone \in BOOLEAN
          /\ Lost(k) => Lost(z)
      BY <1>0 DEF Life, Unused, Waiting, HasRead, Calls, Writes, Over, Is, Fields, Lost
    <3>2. /\ z.accepted = k.accepted /\ z.reading = k.reading /\ z.read = k.read
          /\ z.request = k.request /\ z.call = k.call /\ z.writing = k.writing
          /\ z.answers = k.answers /\ z.closed = k.closed
      BY <3>1 DEF Fields
    <3> HIDE DEF k
    <3>3. Unused(k) \/ Waiting(k) \/ Calls(k) => Unused(z) \/ Waiting(z) \/ Calls(z)
      BY <3>1, <3>2 DEF Unused, Waiting, Calls, Is
    <3>4. HasRead(k) => HasRead(z)
      BY <3>1, <3>2 DEF HasRead, Is
    <3>5. Writes(k) => Writes(z)
      BY <3>1, <3>2 DEF Writes, Suits, Is
    <3>6. Over(k) => Over(z)
      BY <3>1, <3>2 DEF Over, Suits, Is
    <3> QED BY <1>0, <3>3, <3>4, <3>5, <3>6 DEF Life
  <2> QED BY <2>1, <2>2, HandlerPreserves
<1> QED BY <1>1, <1>2, <1>3, <1>4, <1>5, <1>6 DEF Progress

\* The inductive invariant of the server and its connections.
THEOREM HttpInvariant == Spec => []HttpInv
<1>1. HttpInv /\ [Next]_vars => HttpInv'
  <2> SUFFICES ASSUME HttpInv, [Next]_vars PROVE HttpInv'
    OBVIOUS
  <2>1. CASE UNCHANGED vars
    BY <2>1 DEF HttpInv, ServerInv, ListensUntilAcceptFails, vars, server_vars
  <2>2. CASE Next
    BY <2>1, <2>2, ServerPreserves, ConnectionPreserves DEF Next, Rest
  <2> QED BY <2>1, <2>2
<1> QED BY <1>1, HttpInvInit, PTL DEF Spec

-----------------------------------------------------------------------------
\* Whatever becomes of its connections, the server has one accept under way or
\* about to be started until one fails, never opens its acceptor again, and
\* does not listen after the failure.
THEOREM ListensTheorem == Spec => []ListensUntilAcceptFails
<1>1. HttpInv => ListensUntilAcceptFails
  BY DEF HttpInv, ServerInv
<1> QED BY <1>1, HttpInvariant, PTL

\* At most one operation uses the stream of a connection, whichever thread
\* starts it, and the connection is closed exactly when nothing does.
THEOREM OneExchangeTheorem == Spec => []OneExchange
<1>1. ASSUME HttpInv, NEW c \in Connections
      PROVE  /\ Uses(conn[c]) + Len(conn[c].answers) <= 1
             /\ conn[c].accepted => (conn[c].closed <=> Uses(conn[c]) = 0)
  <2> DEFINE k == conn[c]
  <2>0. Life(k)
    BY <1>1 DEF HttpInv
  <2> HIDE DEF k
  <2>1. CASE Unused(k)
    BY <2>1, OneElement DEF Unused, Is, Uses, k
  <2>2. CASE Waiting(k)
    BY <2>2, OneElement DEF Waiting, Is, Uses, k
  <2>3. CASE HasRead(k)
    BY <2>3, OneElement DEF HasRead, Is, Uses, k
  <2>4. CASE Calls(k)
    BY <2>4, OneElement DEF Calls, Is, Uses, k
  <2>5. CASE Writes(k)
    BY <2>5, OneElement DEF Writes, Is, Uses, Suits, CallStatus, k
  <2>6. CASE Over(k)
    <3>0. k.closed = TRUE
      BY <2>6 DEF Over, Is
    <3>1. Uses(k) = 0
      BY <2>6, OneElement DEF Over, Is, Uses
    <3>2. Len(k.answers) = 0 \/ Len(k.answers) = 1
      BY <2>6, OneElement DEF Over
    <3>3. Uses(k) + Len(k.answers) <= 1
      <4> HIDE DEF Uses
      <4>1. \A m, n \in {0, 1} : m = 0 => m + n <= 1
        OBVIOUS
      <4> QED BY <3>1, <3>2, <4>1
    <3>4. k.closed <=> Uses(k) = 0
      BY <3>0, <3>1
    <3> QED BY <3>3, <3>4 DEF k
  <2> QED BY <2>0, <2>1, <2>2, <2>3, <2>4, <2>5, <2>6 DEF Life
<1>2. HttpInv => OneExchange
  BY <1>1 DEF OneExchange
<1> QED BY <1>2, HttpInvariant, PTL

\* Only a connection that has expired or was given up by its client is closed
\* without an answer, and the answer to a call is the call's status.
THEOREM AnsweredTheorem == Spec => []AnsweredUnlessExpired
<1>1. ASSUME HttpInv, NEW c \in Connections,
             conn[c].closed, ~conn[c].client_gone, ~conn[c].expired
      PROVE  /\ Len(conn[c].answers) = 1
             /\ conn[c].call # "none" =>
                   conn[c].answers[1] = MakeCallResponse(conn[c].call)
  <2>1. Over(conn[c])
    BY <1>1 DEF HttpInv, Life, Unused, Waiting, HasRead, Calls, Writes, Is
  <2>2. PICK response : conn[c].answers = <<response>> /\ Suits(conn[c], response)
    BY <1>1, <2>1 DEF Over, Lost
  <2> QED BY <2>2, OneElement DEF Suits
<1>2. HttpInv => AnsweredUnlessExpired
  BY <1>1 DEF AnsweredUnlessExpired
<1> QED BY <1>2, HttpInvariant, PTL
=============================================================================
