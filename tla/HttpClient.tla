----------------------------- MODULE HttpClient -----------------------------
(***************************************************************************)
(* The HTTP transport (_http_client.py) under the requestor                *)
(* (_api_requestor.py): calls made concurrently by threads or tasks        *)
(* through one httpx connection pool, the retry loop of                    *)
(* request_with_retries, the single attempt of request_stream and the      *)
(* iterator it hands out, and close().  The network loses requests and     *)
(* answers and delivers late; the server executes what reaches it.         *)
(* HTTPClient and AsyncHTTPClient have the same loop and are both          *)
(* instances of this machine.                                              *)
(***************************************************************************)
EXTENDS Requestor, FiniteSets

CONSTANTS Calls,         \* calls made through one client
          CallMethods,   \* the HTTP methods they use
          MaxRetries,    \* largest max_network_retries, default or per call
          PoolSize,      \* connections of the httpx pool
          Answers        \* the responses the server may give

ASSUME HttpClientAssumption ==
  /\ CallMethods \subseteq Methods
  /\ MaxRetries \in Nat
  /\ PoolSize \in Nat \ {0}
  /\ Answers \subseteq {r \in ResponseType : r.status >= 200}

VARIABLES
  pc,          \* where each call stands
  params,      \* its kind, method and max_retries
  num_retries, \* retries made so far; also the number of the current attempt
  response,    \* the answer that reached the call's connection
  outcome,     \* what the call returned or raised
  requests,    \* <<call, attempt>> pairs on their way to the server
  sent,        \* attempts of each call that were put on the wire
  answered,    \* attempts whose response the client took
  lost,        \* attempts sent and abandoned without taking a response
  executed,    \* attempts the server carried out
  pool,        \* calls that hold a connection of the pool
  closed       \* close() was called

clientVars == <<pc, params, num_retries, outcome, answered, lost, closed>>
vars == <<pc, params, num_retries, response, outcome, requests, sent, answered,
          lost, executed, pool, closed>>

Kinds == {"request", "stream"}
Attempts == 0 .. MaxRetries
Successes == Returned \cup {"TermixStreamResponse"}

\* Exceptions the SDK lets through without raising them: Python's and httpx's own.
ForeignErrors == {"cancelled", "RuntimeError", "RequestError"}

Outcomes == {""} \cup Successes \cup TermixErrors \cup ForeignErrors
                 \cup {"_ConnectionFailure"}

Init ==
  /\ pc = [c \in Calls |-> "idle"]
  /\ params = [c \in Calls |-> [kind |-> "request", method |-> "GET", max_retries |-> 0]]
  /\ num_retries = [c \in Calls |-> 0]
  /\ response = [c \in Calls |-> NoResponse]
  /\ outcome = [c \in Calls |-> ""]
  /\ requests = {}
  /\ sent = [c \in Calls |-> {}]
  /\ answered = [c \in Calls |-> {}]
  /\ lost = [c \in Calls |-> {}]
  /\ executed = [c \in Calls |-> {}]
  /\ pool = {}
  /\ closed = FALSE

-----------------------------------------------------------------------------
(***************************************************************************)
(* The caller.                                                             *)
(***************************************************************************)

\* APIRequestor.request / request_stream / request_sse: the options of the call
\* override the client's retry count, and the first attempt wants a connection.
Call(c) ==
  /\ pc[c] = "idle"
  /\ \E p \in [kind : Kinds, method : CallMethods, max_retries : Attempts] :
       params' = [params EXCEPT ![c] = p]
  /\ pc' = [pc EXCEPT ![c] = "acquiring"]
  /\ UNCHANGED <<num_retries, response, outcome, requests, sent, answered, lost,
                 executed, pool, closed>>

\* Cancellation of the task (or KeyboardInterrupt) while an attempt is being made
\* or between two attempts: no `except` clause of the loop takes it.
Cancel(c) ==
  /\ pc[c] \in {"acquiring", "waiting", "sleeping"}
  /\ pc' = [pc EXCEPT ![c] = "done"]
  /\ outcome' = [outcome EXCEPT ![c] = "cancelled"]
  /\ lost' = IF pc[c] = "waiting" THEN [lost EXCEPT ![c] = @ \cup {num_retries[c]}] ELSE lost
  /\ pool' = pool \ {c}
  /\ UNCHANGED <<params, num_retries, response, requests, sent, answered, executed,
                 closed>>

\* The first next() on the iterator of a stream.
StartReading(c) ==
  /\ pc[c] = "open"
  /\ pc' = [pc EXCEPT ![c] = "reading"]
  /\ UNCHANGED <<params, num_retries, response, outcome, requests, sent, answered,
                 lost, executed, pool, closed>>

\* Faulty variant of EndReading: the iterator has no `finally`.
EndReadingUnclosed(c) ==
  /\ pc[c] = "reading"
  /\ pc' = [pc EXCEPT ![c] = "done"]
  /\ UNCHANGED <<params, num_retries, response, outcome, requests, sent, answered,
                 lost, executed, pool, closed>>

\* The iterator is exhausted, or closed while suspended: `finally: response.close()`.
EndReading(c) ==
  /\ pc[c] = "reading"
  /\ pc' = [pc EXCEPT ![c] = "done"]
  /\ pool' = pool \ {c}
  /\ UNCHANGED <<params, num_retries, response, outcome, requests, sent, answered,
                 lost, executed, closed>>

\* The iterator is dropped before its first next(): a generator that never started
\* does not run its `finally`, so nothing closes the response.
Abandon(c) ==
  /\ pc[c] = "open"
  /\ pc' = [pc EXCEPT ![c] = "abandoned"]
  /\ UNCHANGED <<params, num_retries, response, outcome, requests, sent, answered,
                 lost, executed, pool, closed>>

\* TermixClient.close(): the pool closes its connections.
Close ==
  /\ ~closed
  /\ closed' = TRUE
  /\ pool' = {}
  /\ UNCHANGED <<pc, params, num_retries, response, outcome, requests, sent, answered,
                 lost, executed>>

-----------------------------------------------------------------------------
(***************************************************************************)
(* The transport.                                                          *)
(***************************************************************************)

\* An attempt gets a connection and puts its request on the wire.
Send(c) ==
  /\ pc[c] = "acquiring"
  /\ ~closed
  /\ Cardinality(pool) < PoolSize
  /\ pc' = [pc EXCEPT ![c] = "waiting"]
  /\ pool' = pool \cup {c}
  /\ requests' = requests \cup {<<c, num_retries[c]>>}
  /\ sent' = [sent EXCEPT ![c] = @ \cup {num_retries[c]}]
  /\ UNCHANGED <<params, num_retries, response, outcome, answered, lost, executed,
                 closed>>

\* httpx refuses an attempt on a closed client with a RuntimeError.
SendOnClosed(c) ==
  /\ pc[c] = "acquiring"
  /\ closed
  /\ pc' = [pc EXCEPT ![c] = "done"]
  /\ outcome' = [outcome EXCEPT ![c] = "RuntimeError"]
  /\ UNCHANGED <<params, num_retries, response, requests, sent, answered, lost,
                 executed, pool, closed>>

\* Faulty variant of CanRetry: `num_retries <= max_retries`.
CanRetryOffByOne(c, status) ==
  /\ params[c].kind = "request"
  /\ num_retries[c] <= params[c].max_retries
  /\ should_retry(params[c].method, status)

\* Faulty variant of CanRetry: streams are retried like requests.
CanRetryStreams(c, status) ==
  /\ num_retries[c] < params[c].max_retries
  /\ should_retry(params[c].method, status)

\* `num_retries < max_retries and should_retry(...)`; a stream has no loop.
CanRetry(c, status) ==
  /\ params[c].kind = "request"
  /\ num_retries[c] < params[c].max_retries
  /\ should_retry(params[c].method, status)

\* Faulty variant of Retry: `num_retries += 1` is left out.
RetryUncounted(c) ==
  /\ response' = [response EXCEPT ![c] = NoResponse]
  /\ pc' = [pc EXCEPT ![c] = "sleeping"]
  /\ UNCHANGED <<num_retries, outcome>>

\* `num_retries += 1` and the sleep before `continue`.
Retry(c) ==
  /\ num_retries' = [num_retries EXCEPT ![c] = @ + 1]
  /\ response' = [response EXCEPT ![c] = NoResponse]
  /\ pc' = [pc EXCEPT ![c] = "sleeping"]
  /\ UNCHANGED outcome

Finish(c, where, result) ==
  /\ pc' = [pc EXCEPT ![c] = where]
  /\ outcome' = [outcome EXCEPT ![c] = result]
  /\ UNCHANGED <<num_retries, response>>

\* A TimeoutException or TransportError of httpx, with no connection to be had,
\* before the answer or while it is read.  request_with_retries turns the last one
\* into an APIConnectionError; request_stream lets the internal signal out.
ConnectionFailure(c) ==
  /\ pc[c] \in {"acquiring", "waiting"}
  /\ pc[c] = "acquiring" => ~closed
  /\ lost' = IF pc[c] = "waiting" THEN [lost EXCEPT ![c] = @ \cup {num_retries[c]}] ELSE lost
  /\ pool' = pool \ {c}
  /\ IF CanRetry(c, NoStatus)
       THEN Retry(c)
       ELSE Finish(c, "done", IF params[c].kind = "request" THEN "APIConnectionError"
                                                            ELSE "_ConnectionFailure")
  /\ UNCHANGED <<params, requests, sent, answered, executed, closed>>

\* A complete response: retried, or interpreted for the caller.
Receive(c) ==
  /\ pc[c] = "waiting"
  /\ params[c].kind = "request"
  /\ response[c] # NoResponse
  /\ answered' = [answered EXCEPT ![c] = @ \cup {num_retries[c]}]
  /\ pool' = pool \ {c}
  /\ IF CanRetry(c, response[c].status)
       THEN Retry(c)
       ELSE Finish(c, "done", interpret_response(response[c]))
  /\ UNCHANGED <<params, requests, sent, lost, executed, closed>>

\* The httpx errors that are neither (DecodingError, TooManyRedirects), and what
\* breaks the draining of the error body of a stream.
ReceiveUnusable(c) ==
  /\ pc[c] = "waiting"
  /\ response[c] # NoResponse
  /\ answered' = [answered EXCEPT ![c] = @ \cup {num_retries[c]}]
  /\ pool' = pool \ {c}
  /\ Finish(c, "done", "RequestError")
  /\ UNCHANGED <<params, requests, sent, lost, executed, closed>>

\* The headers of a stream: the iterator goes to the caller with its connection;
\* an error status is drained first, which closes it, and raised.
OpenStream(c) ==
  /\ pc[c] = "waiting"
  /\ params[c].kind = "stream"
  /\ response[c] # NoResponse
  /\ answered' = [answered EXCEPT ![c] = @ \cup {num_retries[c]}]
  /\ IF response[c].status >= 400
       THEN /\ Finish(c, "done", interpret_response(response[c]))
            /\ pool' = pool \ {c}
       ELSE /\ Finish(c, "open", "TermixStreamResponse")
            /\ UNCHANGED pool
  /\ UNCHANGED <<params, requests, sent, lost, executed, closed>>

\* The connection breaks, or the reader is cancelled, while the iterator is read: the
\* exception comes out of the iterator, whose `finally` still closes the response.
BreakReading(c) ==
  /\ pc[c] = "reading"
  /\ pc' = [pc EXCEPT ![c] = "broken"]
  /\ pool' = pool \ {c}
  /\ UNCHANGED <<params, num_retries, response, outcome, requests, sent, answered,
                 lost, executed, closed>>

\* The sleep ends.
Wake(c) ==
  /\ pc[c] = "sleeping"
  /\ pc' = [pc EXCEPT ![c] = "acquiring"]
  /\ UNCHANGED <<params, num_retries, response, outcome, requests, sent, answered,
                 lost, executed, pool, closed>>

-----------------------------------------------------------------------------
(***************************************************************************)
(* The network and the server, both external.                              *)
(***************************************************************************)

\* The server handles a request, at any time after it was sent.  An answer below
\* 400 means it was carried out; an error may come before or after the effect.
\* The answer reaches the call if it still waits on that attempt.
Serve(c, n) ==
  /\ <<c, n>> \in requests
  /\ requests' = requests \ {<<c, n>>}
  /\ \E r \in Answers, effect \in BOOLEAN :
       /\ r.status < 400 => effect
       /\ executed' = IF effect THEN [executed EXCEPT ![c] = @ \cup {n}] ELSE executed
       /\ response' = IF pc[c] = "waiting" /\ num_retries[c] = n /\ c \in pool
                        THEN [response EXCEPT ![c] = r]
                        ELSE response
  /\ UNCHANGED <<clientVars, sent, pool>>

\* The request never reaches the server.
LoseRequest(c, n) ==
  /\ <<c, n>> \in requests
  /\ requests' = requests \ {<<c, n>>}
  /\ UNCHANGED <<clientVars, response, sent, executed, pool>>

-----------------------------------------------------------------------------
Ended == {"done", "broken", "abandoned"}

\* What the transport does of itself once a call has begun.
Progress(c) ==
  \/ Send(c) \/ SendOnClosed(c) \/ ConnectionFailure(c) \/ Receive(c)
  \/ ReceiveUnusable(c) \/ OpenStream(c) \/ Wake(c)

User(c) ==
  Call(c) \/ Cancel(c) \/ StartReading(c) \/ EndReading(c) \/ Abandon(c)

Environment(c) ==
  BreakReading(c) \/ \E n \in Attempts : Serve(c, n) \/ LoseRequest(c, n)

\* Nothing is left to do once every call has ended and the wire is empty.
Terminated ==
  /\ \A c \in Calls : pc[c] \in Ended
  /\ requests = {} /\ closed
  /\ UNCHANGED vars

Next ==
  \/ \E c \in Calls : Progress(c) \/ User(c) \/ Environment(c)
  \/ Close
  \/ Terminated

Spec == Init /\ [][Next]_vars

\* Every wait of the transport ends: connect, pool and read have a timeout, and
\* time.sleep returns.  Nothing is assumed of the server or the caller.
Fairness == \A c \in Calls : WF_vars(Progress(c))

FairSpec == Spec /\ Fairness
-----------------------------------------------------------------------------
(***************************************************************************)
(* Properties.                                                             *)
(***************************************************************************)
TypeOK ==
  /\ pc \in [Calls -> {"idle", "acquiring", "waiting", "sleeping", "open", "reading"}
                         \cup Ended]
  /\ params \in [Calls -> [kind : Kinds, method : Methods, max_retries : Attempts]]
  /\ num_retries \in [Calls -> Attempts]
  /\ response \in [Calls -> Answers \cup {NoResponse}]
  /\ outcome \in [Calls -> Outcomes]
  /\ requests \subseteq Calls \X Attempts
  /\ sent \in [Calls -> SUBSET Attempts]
  /\ answered \in [Calls -> SUBSET Attempts]
  /\ lost \in [Calls -> SUBSET Attempts]
  /\ executed \in [Calls -> SUBSET Attempts]
  /\ pool \subseteq Calls
  /\ closed \in BOOLEAN

Unsafe(c) == params[c].method \notin SafeMethods

\* A POST, PUT, PATCH or DELETE is carried out again only to make up for an attempt
\* whose answer was lost: every attempt the server executed is one the client gave
\* up on without an answer, or the last one.  (_should_retry: other verbs are not
\* retried on a status.)
RepeatsOnlyLostAttempts ==
  \A c \in Calls : Unsafe(c) => executed[c] \subseteq lost[c] \cup {num_retries[c]}

\* A call that returned a value was carried out by the server, in the attempt
\* whose answer it returned.
SuccessMeansExecuted ==
  \A c \in Calls : outcome[c] \in Successes => num_retries[c] \in executed[c]

\* A retryable failure reaches the caller only after max_retries retries: a last
\* attempt without an answer, and for GET and HEAD a last retryable status.
GivesUpOnlyWhenExhausted ==
  \A c \in Calls :
    /\ pc[c] = "done" /\ params[c].kind = "request"
    /\ outcome[c] \notin ForeignErrors
    /\ \/ num_retries[c] \notin answered[c]
       \/ ~Unsafe(c) /\ response[c].status \in RETRIABLE_STATUS_CODES
    => num_retries[c] = params[c].max_retries

\* request_stream and request_sse are never retried, whatever fails and whatever
\* max_network_retries says: a partly read body cannot be replayed.
StreamNeverReplayed ==
  \A c \in Calls : params[c].kind = "stream" => sent[c] \subseteq {0}

\* A connection is held by a call that waits for an answer or by a stream whose
\* iterator was handed out; every other way out of a call has given it back.
ConnectionsGivenBack ==
  \A c \in pool : pc[c] \in {"waiting", "open", "reading", "abandoned"}

\* Every call that began comes back to its caller, even with an empty pool, a
\* server that never answers, or a client closed under it.
EveryCallEnds ==
  \A c \in Calls : pc[c] = "acquiring" ~> pc[c] \in Ended \cup {"open", "reading"}

-----------------------------------------------------------------------------
(***************************************************************************)
(* The inductive invariant behind the safety properties.                   *)
(***************************************************************************)

\* Attempts are numbered by num_retries and sent once: the ones before the current
\* are settled (answered or lost), and so is the current one unless it is waiting.
AttemptsInOrder ==
  \A c \in Calls :
    /\ \A n \in sent[c] : n <= num_retries[c]
    /\ answered[c] \cup lost[c] \subseteq sent[c]
    /\ \A n \in sent[c] \ (answered[c] \cup lost[c]) :
         pc[c] = "waiting" /\ n = num_retries[c]
    /\ pc[c] \in {"idle", "acquiring", "sleeping"} => num_retries[c] \notin sent[c]
    /\ pc[c] = "waiting" => num_retries[c] \in sent[c] \ answered[c]

RetriesWithinLimit ==
  \A c \in Calls :
    /\ num_retries[c] <= params[c].max_retries
    /\ params[c].kind = "stream" => num_retries[c] = 0
    /\ pc[c] = "idle" => num_retries[c] = 0

\* A request on the wire is executed at most once, because it leaves the wire then.
WireOnce ==
  /\ \A c \in Calls : executed[c] \subseteq sent[c]
  /\ \A c \in Calls, n \in Attempts :
       <<c, n>> \in requests => n \in sent[c] \ executed[c]

\* The answer on a call's connection is that of its current attempt.
AnswerIsCurrent ==
  \A c \in Calls :
    response[c] # NoResponse =>
      /\ num_retries[c] \in sent[c]
      /\ response[c].status < 400 => num_retries[c] \in executed[c]

\* A call that may not be retried on a status is over once an answer was taken.
AnswerEndsUnsafeCall ==
  \A c \in Calls :
    Unsafe(c) /\ answered[c] # {} =>
      /\ answered[c] = {num_retries[c]}
      /\ pc[c] \in Ended \cup {"open", "reading"}

OutcomeOnlyWhenOver ==
  \A c \in Calls :
    (outcome[c] # "") <=> (pc[c] \in Ended \cup {"open", "reading"})

\* All of it together: a state in which an attempt number, an answer, a pool entry or
\* an outcome has come loose from the place of its call in the code is unreachable.
IInv ==
  /\ TypeOK
  /\ AttemptsInOrder
  /\ RetriesWithinLimit
  /\ WireOnce
  /\ AnswerIsCurrent
  /\ AnswerEndsUnsafeCall
  /\ OutcomeOnlyWhenOver
  /\ SuccessMeansExecuted
  /\ ConnectionsGivenBack

-----------------------------------------------------------------------------
(***************************************************************************)
(* The promise of the transport.                                           *)
(***************************************************************************)
PhaseOf(c) ==
  IF pc[c] = "idle" THEN "new"
  ELSE IF pc[c] \in {"acquiring", "waiting", "sleeping"} THEN "pending"
  ELSE IF outcome[c] \in Successes THEN "succeeded"
  ELSE "failed"

D == INSTANCE Delivery WITH phase <- [c \in Calls |-> PhaseOf(c)],
                            issued <- sent, executed <- executed

\* The retry loop implements the promise of Delivery: bounded attempts, all made
\* before the call ends, each executed at most once, success only if executed.
ImplementsDelivery == D!Spec

-----------------------------------------------------------------------------
(***************************************************************************)
(* What the sources say of the program, and the runs refute.               *)
(***************************************************************************)

\* _should_retry: a verb other than GET and HEAD is retried only when "the request
\* never reached the server, so nothing has happened yet", so that a retry cannot
\* double an action.
UnsafeAtMostOnce ==
  \A c \in Calls : Unsafe(c) => Cardinality(executed[c]) <= 1

\* APIConnectionError: "Raised when the request never reached the server".
ConnectionErrorMeansNotReached ==
  \A c \in Calls : outcome[c] = "APIConnectionError" => executed[c] = {}

\* TermixError: "Base class for every exception the SDK raises".
EveryRaisedErrorIsTermixError ==
  \A c \in Calls :
    outcome[c] \in {""} \cup Successes \cup ForeignErrors \cup TermixErrors
=============================================================================
