------------------------------ MODULE Services ------------------------------
(***************************************************************************)
(* One call of a generated method, from the arguments to the value the     *)
(* caller gets: the request of ServiceRequests, the answer of the server,  *)
(* and what the method makes of it (_api_requestor.py, resources/*.py).    *)
(***************************************************************************)
EXTENDS ServiceRequests, Sse, Objects

CONSTANT Replies   \* what the server may answer

\* An answer has a status and, unless that is 204, perhaps a body.
ASSUME RepliesAssumption ==
  \A r \in Replies :
    /\ r.status \in Nat
    /\ r.body \in {"empty", "object", "value", "text"}
    /\ r.status = 204 => r.body = "empty"
    /\ r.data \in Json

\* What a method does with the answer is one of five things.
ASSUME ResultsAssumption ==
  \A o \in Operations : method(o).result \in {"object", "models", "list", "stream", "events"}

VARIABLES reply, returned

callVars == <<requestVars, reply, returned>>
vars == <<callVars, sseVars>>

NoReply == [status |-> NoStatus, json |-> FALSE, body |-> "empty", code |-> "", data |-> null]
Pending == [pending |-> TRUE]

Init == RequestInit /\ reply = NoReply /\ returned = Pending /\ SseInit

-----------------------------------------------------------------------------
(***************************************************************************)
(* The request is made, and the server (external) answers as it likes,     *)
(* unless it does not know the route.                                      *)
(***************************************************************************)
\* Faulty variant of Make: a handle is no more than the service.
MakeUnwrapped ==
  /\ phase = "idle" /\ phase' = "sent"
  /\ \E o \in Operations : call' \in Calls(o) /\ request' = RequestOf(o, call')
  /\ UNCHANGED <<reached, reply, returned, sseVars>>

Make == Invoke /\ UNCHANGED <<reply, returned, sseVars>>

NotFound == [status |-> 404, json |-> TRUE, body |-> "object", code |-> "", data |-> null]

\* An event stream is no JSON document.
RepliesFrom(ops) ==
  IF ops = {} THEN {NotFound}
  ELSE IF \E o \in ops : method(o).result = "events"
  THEN {r \in Replies : r.status >= 400 \/ r.body = "text"}
  ELSE Replies

Answer ==
  /\ Arrive
  /\ reply' \in RepliesFrom(reached')
  /\ UNCHANGED <<returned, sseVars>>

-----------------------------------------------------------------------------
(***************************************************************************)
(* The value.                                                              *)
(***************************************************************************)
\* TermixResponse.data; no data when the body is no JSON.
data_of(r) == IF r.body = "text" THEN null ELSE r.data

\* Faulty variant of ValueOf: what is no success is taken for an empty one.
ValueOrEmpty(op, r) ==
  IF interpret_response(r) # "TermixResponse" THEN List(<<>>) ELSE construct_from[data_of(r)]

\* The end of a generated method: `... if response else None`, or `else []`.
ValueOf(op, r) ==
  LET absent == interpret_response(r) = "None"
  IN  CASE op.result = "object" -> construct_from[IF absent THEN null ELSE data_of(r)]
        [] op.result = "models" -> construct_from[IF absent THEN List(<<>>) ELSE data_of(r)]
        [] op.result = "list"   -> IF absent THEN List(<<>>) ELSE data_of(r)

Streams(op) == op.result \in {"stream", "events"}

Raise ==
  /\ phase = "answered"
  /\ interpret_response(reply) \in TermixErrors
  /\ ~Streams(method(call.op)) \/ reply.status >= 400
  /\ returned' = [raised |-> interpret_response(reply)]
  /\ phase' = "done"
  /\ Later /\ UNCHANGED <<reply, sseVars>>

Return ==
  /\ phase = "answered"
  /\ ~Streams(method(call.op))
  /\ interpret_response(reply) \notin TermixErrors
  /\ returned' = [value |-> ValueOf(method(call.op), reply)]
  /\ phase' = "done"
  /\ Later /\ UNCHANGED <<reply, sseVars>>

\* request_stream: the body is the caller's to read.
HandOut ==
  /\ phase = "answered"
  /\ method(call.op).result = "stream" /\ reply.status < 400
  /\ returned' = [stream |-> TRUE]
  /\ phase' = "done"
  /\ Later /\ UNCHANGED <<reply, sseVars>>

\* request_sse: the events are read as they come.  What the server had answered to
\* another method is no matter here.
Listen ==
  /\ phase = "answered"
  /\ method(call.op).result = "events" /\ reply.status < 400
  /\ Stream
  /\ returned' = [events |-> TRUE]
  /\ phase' = "listening"
  /\ Later /\ UNCHANGED reply

Hear ==
  /\ phase = "listening"
  /\ ReadChunk
  /\ UNCHANGED callVars

\* The stream ends, or breaks, anywhere.
EndOfStream ==
  /\ phase = "listening"
  /\ phase' = "done"
  /\ Later /\ UNCHANGED <<reply, returned, sseVars>>

Terminated == phase = "done" /\ UNCHANGED vars

Next ==
  \/ Make \/ Answer \/ Raise \/ Return \/ HandOut \/ Listen \/ Hear \/ EndOfStream
  \/ Terminated

Spec == Init /\ [][Next]_vars

-----------------------------------------------------------------------------
(***************************************************************************)
(* Properties.                                                             *)
(***************************************************************************)
\* Every variable has its type.
TypeOK ==
  /\ RequestTypeOK
  /\ phase = "done" => returned # Pending
  /\ arrived \in 0..Len(wire)

\* The request is made and routed as ServiceRequests says, and nothing that happens to the
\* answer changes it: what is proved of RequestSpec holds of the whole call.
MakesRequests == RequestSpec

\* A value is returned only for a success.  It holds the data of the answer, unchanged
\* down to every nested field; no answer is None, or the empty list where a list is
\* declared.  Text that is no JSON is lost: the method returns None, a list too.
AnswerReachesCaller ==
  "value" \in DOMAIN returned =>
    /\ reply.status < 400
    /\ to_dict[returned.value] =
         IF reply.body = "empty"
         THEN (IF method(call.op).result = "object" THEN null ELSE List(<<>>))
         ELSE IF reply.body = "text" THEN null
         ELSE reply.data

\* Printing what a method returns shows no field with a secret's name, in any object of
\* the answer.  The exceptions are objects in a list in a list that is a field, and the
\* methods declared to return plain lists: their dicts are no TermixObjects.
PrintsNoSecret ==
  "value" \in DOMAIN returned /\ method(call.op).result # "list" /\ ~NestsLists(reply.data) =>
    Shown(printed[returned.value]) = {}

=============================================================================
