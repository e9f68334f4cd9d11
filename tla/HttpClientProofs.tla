-------------------------- MODULE HttpClientProofs --------------------------
(***************************************************************************)
(* Proofs about HttpClient, for any set of calls, retry limit, pool size   *)
(* and set of answers: its inductive invariant, the safety properties that *)
(* follow from it, and that it implements Delivery.                        *)
(***************************************************************************)
EXTENDS HttpClient, TLAPS

\* Whatever the status and code, the exception is one of the status errors.
LEMMA ErrorClass ==
  ASSUME NEW s \in Nat, NEW c \in Codes
  PROVE  error_for_status(s, c) \in StatusErrors
<1>1. unauthorized(c) \in StatusErrors
  BY DEF unauthorized, StatusErrors
<1> DEFINE Other == IF s \in {400, 409, 422} THEN "InvalidRequestError"
                    ELSE IF s >= 500 THEN "ServerError" ELSE "APIStatusError"
           Known == IF s = 403 THEN "PermissionError"
                    ELSE IF s = 404 THEN "NotFoundError"
                    ELSE IF s = 423 THEN "DataLockedError"
                    ELSE IF s = 429 THEN "RateLimitError" ELSE Other
<1>2. Other \in StatusErrors
  BY DEF StatusErrors
<1>3. Known \in StatusErrors
  <2> HIDE DEF Other
  <2> QED BY <1>2 DEF StatusErrors
<1> QED BY <1>1, <1>3 DEF error_for_status

\* An error status is never turned into a value.
LEMMA RaiseRange ==
  ASSUME NEW s \in Nat, NEW c \in Codes, NEW v \in Returned
  PROVE  /\ raise_for_status(s, c, v) \in Returned \cup StatusErrors
         /\ raise_for_status(s, c, v) \in Returned => s < 400
BY ErrorClass DEF raise_for_status, StatusErrors, Returned

\* _interpret_response returns a value or raises a TermixError, and returns a value
\* only below 400, whatever the body.
LEMMA InterpretRange ==
  ASSUME NEW r \in ResponseType
  PROVE  /\ interpret_response(r) \in Returned \cup TermixErrors
         /\ interpret_response(r) \in Returned => r.status < 400
<1>1. /\ r.status \in Nat /\ r.code \in Codes /\ "" \in Codes
      /\ "None" \in Returned /\ "TermixResponse" \in Returned
  BY DEF ResponseType, Codes, Returned
<1>2. CASE r.status = 204 \/ r.body = "empty"
  BY <1>1, <1>2, RaiseRange DEF interpret_response, TermixErrors
<1>3. CASE ~(r.status = 204 \/ r.body = "empty") /\ r.body = "text" /\ r.json
  BY <1>3 DEF interpret_response, TermixErrors, Returned
<1>4. CASE ~(r.status = 204 \/ r.body = "empty") /\ ~(r.body = "text" /\ r.json)
  <2>1. (IF r.body = "object" THEN r.code ELSE "") \in Codes
    BY <1>1
  <2>2. interpret_response(r) =
          raise_for_status(r.status, IF r.body = "object" THEN r.code ELSE "",
                           "TermixResponse")
    BY <1>4 DEF interpret_response
  <2> QED BY <1>1, <2>1, <2>2, RaiseRange DEF TermixErrors
<1> QED BY <1>2, <1>3, <1>4

-----------------------------------------------------------------------------
(* Every action preserves the inductive invariant. *)

\* A call begins: nothing of it was sent yet.
LEMMA CallStep ==
  ASSUME IInv, NEW c \in Calls, Call(c)
  PROVE  IInv'
<1> USE HttpClientAssumption DEF IInv, TypeOK, Call
<1>1. PICK p \in [kind : Kinds, method : CallMethods, max_retries : Attempts] :
        params' = [params EXCEPT ![c] = p]
  OBVIOUS
<1>2. p \in [kind : Kinds, method : Methods, max_retries : Attempts]
  BY <1>1
<1>3. TypeOK'
  BY <1>1, <1>2
<1>4. num_retries[c] = 0 /\ 0 <= p.max_retries
  BY <1>2 DEF RetriesWithinLimit, Attempts
<1>5. sent[c] = {} /\ answered[c] = {} /\ num_retries' = num_retries
  <2>1. \A n \in sent[c] : n = 0
    BY <1>4 DEF AttemptsInOrder, Attempts
  <2> QED BY <1>4, <2>1 DEF AttemptsInOrder
<1>6. RetriesWithinLimit'
  BY <1>1, <1>4 DEF RetriesWithinLimit
<1>7. AttemptsInOrder'
  BY DEF AttemptsInOrder
<1>8. AnswerEndsUnsafeCall'
  <2> SUFFICES ASSUME NEW d \in Calls, Unsafe(d)', answered[d] # {}
               PROVE  /\ answered[d] = {num_retries[d]}
                      /\ pc'[d] \in Ended \cup {"open", "reading"}
    BY DEF AnswerEndsUnsafeCall
  <2>1. d # c
    BY <1>5
  <2>2. Unsafe(d) /\ pc'[d] = pc[d]
    BY <2>1, <1>1 DEF Unsafe
  <2> QED BY <2>2 DEF AnswerEndsUnsafeCall
<1>9. WireOnce' /\ AnswerIsCurrent' /\ SuccessMeansExecuted'
  <2>1. WireOnce'
    BY DEF WireOnce
  <2>2. AnswerIsCurrent'
    BY DEF AnswerIsCurrent
  <2>3. SuccessMeansExecuted'
    BY DEF SuccessMeansExecuted
  <2> QED BY <2>1, <2>2, <2>3
<1>10. OutcomeOnlyWhenOver'
  BY DEF OutcomeOnlyWhenOver, Ended
<1>11. ConnectionsGivenBack'
  BY DEF ConnectionsGivenBack
<1> QED
  BY <1>3, <1>6, <1>7, <1>8, <1>9, <1>10, <1>11

\* Cancellation settles the current attempt as lost.
LEMMA CancelStep ==
  ASSUME IInv, NEW c \in Calls, Cancel(c)
  PROVE  IInv'
<1> USE DEF IInv, TypeOK, Cancel
<1>1. lost' \in [Calls -> SUBSET Attempts]
  OBVIOUS
<1>2. outcome' \in [Calls -> Outcomes]
  BY DEF Outcomes, ForeignErrors
<1>3. pc' \in [Calls -> {"idle", "acquiring", "waiting", "sleeping", "open", "reading"}
                         \cup Ended]
  BY DEF Ended
<1>4. TypeOK'
  BY <1>1, <1>2, <1>3
<1>5. AttemptsInOrder'
  <2> SUFFICES ASSUME NEW d \in Calls
               PROVE  /\ \A n \in sent[d] : n <= num_retries[d]
                      /\ answered[d] \cup lost'[d] \subseteq sent[d]
                      /\ \A n \in sent[d] \ (answered[d] \cup lost'[d]) :
                           pc'[d] = "waiting" /\ n = num_retries[d]
                      /\ pc'[d] \in {"idle", "acquiring", "sleeping"} =>
                           num_retries[d] \notin sent[d]
                      /\ pc'[d] = "waiting" => num_retries[d] \in sent[d] \ answered[d]
    BY DEF AttemptsInOrder
  <2>1. CASE d = c
    BY <2>1 DEF AttemptsInOrder
  <2>2. CASE d # c
    BY <2>2 DEF AttemptsInOrder
  <2> QED BY <2>1, <2>2
<1>6. RetriesWithinLimit' /\ WireOnce' /\ AnswerIsCurrent'
  <2>1. RetriesWithinLimit'
    BY DEF RetriesWithinLimit
  <2>2. WireOnce'
    BY DEF WireOnce
  <2>3. AnswerIsCurrent'
    BY DEF AnswerIsCurrent
  <2> QED BY <2>1, <2>2, <2>3
<1>7. AnswerEndsUnsafeCall'
  BY DEF AnswerEndsUnsafeCall, Unsafe, Ended
<1>8. OutcomeOnlyWhenOver'
  BY DEF OutcomeOnlyWhenOver, Ended
<1>9. SuccessMeansExecuted'
  BY DEF SuccessMeansExecuted, Successes, Returned
<1>10. ConnectionsGivenBack'
  BY DEF ConnectionsGivenBack
<1> QED
  BY <1>4, <1>5, <1>6, <1>7, <1>8, <1>9, <1>10

\* An attempt goes on the wire under its own, unused number.
LEMMA SendStep ==
  ASSUME IInv, NEW c \in Calls, Send(c)
  PROVE  IInv'
<1> USE DEF IInv, TypeOK, Send
<1>1. TypeOK'
  <2>1. /\ requests' \subseteq Calls \X Attempts
        /\ sent' \in [Calls -> SUBSET Attempts]
    OBVIOUS
  <2>2. /\ pc' \in [Calls -> {"idle", "acquiring", "waiting", "sleeping", "open", "reading"}
                              \cup Ended]
        /\ pool' \subseteq Calls
    OBVIOUS
  <2> QED BY <2>1, <2>2
<1>2. AttemptsInOrder'
  <2> SUFFICES ASSUME NEW d \in Calls
               PROVE  /\ \A n \in sent'[d] : n <= num_retries[d]
                      /\ answered[d] \cup lost[d] \subseteq sent'[d]
                      /\ \A n \in sent'[d] \ (answered[d] \cup lost[d]) :
                           pc'[d] = "waiting" /\ n = num_retries[d]
                      /\ pc'[d] \in {"idle", "acquiring", "sleeping"} =>
                           num_retries[d] \notin sent'[d]
                      /\ pc'[d] = "waiting" => num_retries[d] \in sent'[d] \ answered[d]
    BY DEF AttemptsInOrder
  <2>1. CASE d = c
    <3>1. sent'[c] = sent[c] \cup {num_retries[c]} /\ pc'[c] = "waiting"
      OBVIOUS
    <3>2. num_retries[c] \in Nat /\ num_retries[c] \notin answered[c]
      BY HttpClientAssumption DEF AttemptsInOrder, Attempts
    <3> QED BY <2>1, <3>1, <3>2 DEF AttemptsInOrder
  <2>2. CASE d # c
    BY <2>2 DEF AttemptsInOrder
  <2> QED BY <2>1, <2>2
<1>3. WireOnce'
  <2>1. \A d \in Calls : sent[d] \subseteq sent'[d]
    OBVIOUS
  <2>2. \A d \in Calls : executed'[d] \subseteq sent'[d]
    BY <2>1 DEF WireOnce
  <2>3. ASSUME NEW d \in Calls, NEW n \in Attempts, <<d, n>> \in requests'
        PROVE  n \in sent'[d] \ executed'[d]
    <3>1. CASE <<d, n>> \in requests
      BY <3>1, <2>1 DEF WireOnce
    <3>2. CASE d = c /\ n = num_retries[c]
      BY <3>2 DEF WireOnce, AttemptsInOrder
    <3> QED BY <2>3, <3>1, <3>2
  <2> QED BY <2>2, <2>3 DEF WireOnce
<1>4. RetriesWithinLimit'
  BY DEF RetriesWithinLimit
<1>5. AnswerIsCurrent'
  BY DEF AnswerIsCurrent
<1>6. AnswerEndsUnsafeCall'
  BY DEF AnswerEndsUnsafeCall, Unsafe, Ended
<1>7. OutcomeOnlyWhenOver'
  BY DEF OutcomeOnlyWhenOver, Ended
<1>8. SuccessMeansExecuted' /\ ConnectionsGivenBack'
  <2>1. SuccessMeansExecuted'
    BY DEF SuccessMeansExecuted
  <2>2. ConnectionsGivenBack'
    BY DEF ConnectionsGivenBack
  <2> QED BY <2>1, <2>2
<1> QED
  BY <1>1, <1>2, <1>3, <1>4, <1>5, <1>6, <1>7, <1>8

\* A connection failure settles the attempt and retries or ends the call.
LEMMA ConnectionFailureStep ==
  ASSUME IInv, NEW c \in Calls, ConnectionFailure(c)
  PROVE  IInv'
<1> USE DEF IInv, TypeOK, ConnectionFailure
<1>1. /\ pc[c] \in {"acquiring", "waiting"}
      /\ lost' \in [Calls -> SUBSET Attempts]
      /\ pool' \subseteq Calls
      /\ num_retries[c] \in Nat
  BY HttpClientAssumption DEF Attempts
<1>2. CASE CanRetry(c, NoStatus)
  <2> USE <1>2 DEF CanRetry, Retry
  <2>1. num_retries[c] + 1 <= params[c].max_retries /\ num_retries[c] + 1 \in Attempts
    BY <1>1, HttpClientAssumption DEF Attempts
  <2>2. TypeOK'
    <3>1. /\ num_retries' \in [Calls -> Attempts]
          /\ response' \in [Calls -> Answers \cup {NoResponse}]
      BY <2>1
    <3>2. pc' \in [Calls -> {"idle", "acquiring", "waiting", "sleeping", "open", "reading"}
                             \cup Ended]
      OBVIOUS
    <3> QED BY <1>1, <3>1, <3>2
  <2>3. AttemptsInOrder'
    BY <1>1 DEF AttemptsInOrder, Attempts
  <2>4. RetriesWithinLimit'
    BY <2>1 DEF RetriesWithinLimit
  <2>5. AnswerIsCurrent'
    BY DEF AnswerIsCurrent
  <2>6. AnswerEndsUnsafeCall'
    BY DEF AnswerEndsUnsafeCall, Unsafe, Ended
  <2>7. OutcomeOnlyWhenOver'
    BY DEF OutcomeOnlyWhenOver, Ended
  <2>8. SuccessMeansExecuted'
    BY DEF SuccessMeansExecuted, OutcomeOnlyWhenOver, Successes, Returned, Ended
  <2>9. WireOnce' /\ ConnectionsGivenBack'
    <3>1. WireOnce'
      BY DEF WireOnce
    <3>2. ConnectionsGivenBack'
      BY DEF ConnectionsGivenBack
    <3> QED BY <3>1, <3>2
  <2> QED
    BY <2>2, <2>3, <2>4, <2>5, <2>6, <2>7, <2>8, <2>9
<1>3. CASE ~CanRetry(c, NoStatus)
  <2> USE <1>3 DEF Finish
  <2>1. /\ pc' = [pc EXCEPT ![c] = "done"]
        /\ outcome' \in [Calls -> Outcomes]
        /\ outcome'[c] \notin Successes \cup {""}
        /\ \A d \in Calls \ {c} : outcome'[d] = outcome[d]
        /\ UNCHANGED <<num_retries, response>>
    BY DEF Outcomes, TermixErrors, Successes, Returned
  <2> USE <2>1
  <2>2. TypeOK'
    BY <1>1 DEF Ended
  <2>3. AttemptsInOrder'
    <3> SUFFICES ASSUME NEW d \in Calls
                 PROVE  /\ \A n \in sent[d] : n <= num_retries[d]
                        /\ answered[d] \cup lost'[d] \subseteq sent[d]
                        /\ \A n \in sent[d] \ (answered[d] \cup lost'[d]) :
                             pc'[d] = "waiting" /\ n = num_retries[d]
                        /\ pc'[d] \in {"idle", "acquiring", "sleeping"} =>
                             num_retries[d] \notin sent[d]
                        /\ pc'[d] = "waiting" => num_retries[d] \in sent[d] \ answered[d]
      BY DEF AttemptsInOrder
    <3>1. CASE d = c
      <4>1. CASE pc[c] = "waiting"
        <5>1. lost'[c] = lost[c] \cup {num_retries[c]} /\ pc'[c] = "done"
          BY <4>1
        <5> QED BY <3>1, <4>1, <5>1, ZenonT(40) DEF AttemptsInOrder
      <4>2. CASE pc[c] = "acquiring"
        <5>1. lost' = lost /\ pc'[c] = "done"
          BY <4>2
        <5> QED BY <3>1, <4>2, <5>1 DEF AttemptsInOrder
      <4> QED BY <1>1, <4>1, <4>2
    <3>2. CASE d # c
      BY <3>2 DEF AttemptsInOrder
    <3> QED BY <3>1, <3>2
  <2>6. AnswerEndsUnsafeCall'
    BY DEF AnswerEndsUnsafeCall, Unsafe, Ended
  <2>7. OutcomeOnlyWhenOver'
    BY DEF OutcomeOnlyWhenOver, Ended
  <2>8. SuccessMeansExecuted'
    BY DEF SuccessMeansExecuted
  <2>9. WireOnce' /\ ConnectionsGivenBack' /\ RetriesWithinLimit' /\ AnswerIsCurrent'
    <3>1. WireOnce'
      BY DEF WireOnce
    <3>2. ConnectionsGivenBack'
      BY DEF ConnectionsGivenBack
    <3>3. RetriesWithinLimit'
      BY DEF RetriesWithinLimit
    <3>4. AnswerIsCurrent'
      BY DEF AnswerIsCurrent
    <3> QED BY <3>1, <3>2, <3>3, <3>4
  <2> QED
    BY <2>2, <2>3, <2>6, <2>7, <2>8, <2>9
<1> QED BY <1>2, <1>3

\* An answer settles the attempt; only a GET or HEAD goes on after it.
LEMMA ReceiveStep ==
  ASSUME IInv, NEW c \in Calls, Receive(c)
  PROVE  IInv'
<1> USE DEF IInv, TypeOK, Receive
<1>1. /\ pc[c] = "waiting"
      /\ num_retries[c] \in sent[c] \ answered[c]
      /\ answered' \in [Calls -> SUBSET Attempts]
      /\ pool' \subseteq Calls
      /\ num_retries[c] \in Nat
  BY HttpClientAssumption DEF Attempts, AttemptsInOrder
<1>2. CASE CanRetry(c, response[c].status)
  <2> USE <1>2 DEF CanRetry, Retry
  <2>1. num_retries[c] + 1 <= params[c].max_retries /\ num_retries[c] + 1 \in Attempts
    BY <1>1, HttpClientAssumption DEF Attempts
  <2>2. TypeOK'
    <3>1. /\ num_retries' \in [Calls -> Attempts]
          /\ response' \in [Calls -> Answers \cup {NoResponse}]
      BY <2>1
    <3>2. pc' \in [Calls -> {"idle", "acquiring", "waiting", "sleeping", "open", "reading"}
                             \cup Ended]
      OBVIOUS
    <3> QED BY <1>1, <3>1, <3>2
  <2>3. AttemptsInOrder'
    BY <1>1 DEF AttemptsInOrder, Attempts
  <2>4. RetriesWithinLimit'
    BY <2>1 DEF RetriesWithinLimit
  <2>5. AnswerIsCurrent'
    BY DEF AnswerIsCurrent
  <2>6. AnswerEndsUnsafeCall'
    <3>1. response[c].status # NoStatus
      BY HttpClientAssumption DEF NoStatus, ResponseType
    <3>2. ~Unsafe(c)
      BY <3>1 DEF should_retry, Unsafe
    <3> QED BY <3>2 DEF AnswerEndsUnsafeCall, Unsafe, Ended
  <2>7. OutcomeOnlyWhenOver'
    BY DEF OutcomeOnlyWhenOver, Ended
  <2>8. SuccessMeansExecuted'
    BY DEF SuccessMeansExecuted, OutcomeOnlyWhenOver, Successes, Returned, Ended
  <2>9. WireOnce' /\ ConnectionsGivenBack'
    <3>1. WireOnce'
      BY DEF WireOnce
    <3>2. ConnectionsGivenBack'
      BY DEF ConnectionsGivenBack
    <3> QED BY <3>1, <3>2
  <2> QED
    BY <2>2, <2>3, <2>4, <2>5, <2>6, <2>7, <2>8, <2>9
<1>3. CASE ~CanRetry(c, response[c].status)
  <2> USE <1>3 DEF Finish
  <2>1. /\ pc' = [pc EXCEPT ![c] = "done"]
        /\ outcome' = [outcome EXCEPT ![c] = interpret_response(response[c])]
        /\ UNCHANGED <<num_retries, response>>
    OBVIOUS
  <2> USE <2>1
  <2>2. /\ interpret_response(response[c]) \in Returned \cup TermixErrors
        /\ interpret_response(response[c]) \in Returned => response[c].status < 400
    BY InterpretRange, HttpClientAssumption
  <2>3. TypeOK'
    BY <1>1, <2>2 DEF Ended, Outcomes, Successes
  <2>4. AttemptsInOrder'
    <3> SUFFICES ASSUME NEW d \in Calls
                 PROVE  /\ \A n \in sent[d] : n <= num_retries[d]
                        /\ answered'[d] \cup lost[d] \subseteq sent[d]
                        /\ \A n \in sent[d] \ (answered'[d] \cup lost[d]) :
                             pc'[d] = "waiting" /\ n = num_retries[d]
                        /\ pc'[d] \in {"idle", "acquiring", "sleeping"} =>
                             num_retries[d] \notin sent[d]
                        /\ pc'[d] = "waiting" => num_retries[d] \in sent[d] \ answered'[d]
      BY DEF AttemptsInOrder
    <3>1. CASE d = c
      BY <1>1, <3>1 DEF AttemptsInOrder
    <3>2. CASE d # c
      BY <3>2 DEF AttemptsInOrder
    <3> QED BY <3>1, <3>2
  <2>5. AnswerEndsUnsafeCall'
    BY <1>1 DEF AnswerEndsUnsafeCall, Unsafe, Ended
  <2>6. OutcomeOnlyWhenOver'
    <3>1. interpret_response(response[c]) # ""
      BY <2>2 DEF Returned, TermixErrors, StatusErrors
    <3> QED BY <3>1 DEF OutcomeOnlyWhenOver, Ended
  <2>7. SuccessMeansExecuted'
    BY <2>2 DEF SuccessMeansExecuted, AnswerIsCurrent, Successes, Returned,
                TermixErrors, StatusErrors
  <2>8. WireOnce' /\ ConnectionsGivenBack' /\ RetriesWithinLimit' /\ AnswerIsCurrent'
    <3>1. WireOnce'
      BY DEF WireOnce
    <3>2. ConnectionsGivenBack'
      BY DEF ConnectionsGivenBack
    <3>3. RetriesWithinLimit'
      BY DEF RetriesWithinLimit
    <3>4. AnswerIsCurrent'
      BY DEF AnswerIsCurrent
    <3> QED BY <3>1, <3>2, <3>3, <3>4
  <2> QED
    BY <2>3, <2>4, <2>5, <2>6, <2>7, <2>8
<1> QED BY <1>2, <1>3

\* An answer httpx cannot use ends the call.
LEMMA ReceiveUnusableStep ==
  ASSUME IInv, NEW c \in Calls, ReceiveUnusable(c)
  PROVE  IInv'
<1> USE DEF IInv, TypeOK, ReceiveUnusable, Finish
<1>1. /\ pc[c] = "waiting"
      /\ num_retries[c] \in sent[c] \ answered[c]
      /\ answered' \in [Calls -> SUBSET Attempts]
      /\ pool' \subseteq Calls
  BY DEF AttemptsInOrder
<1>2. TypeOK'
  BY <1>1 DEF Ended, Outcomes, ForeignErrors
<1>3. AttemptsInOrder'
  <2> SUFFICES ASSUME NEW d \in Calls
               PROVE  /\ \A n \in sent[d] : n <= num_retries[d]
                      /\ answered'[d] \cup lost[d] \subseteq sent[d]
                      /\ \A n \in sent[d] \ (answered'[d] \cup lost[d]) :
                           pc'[d] = "waiting" /\ n = num_retries[d]
                      /\ pc'[d] \in {"idle", "acquiring", "sleeping"} =>
                           num_retries[d] \notin sent[d]
                      /\ pc'[d] = "waiting" => num_retries[d] \in sent[d] \ answered'[d]
    BY DEF AttemptsInOrder
  <2>1. CASE d = c
    BY <1>1, <2>1 DEF AttemptsInOrder
  <2>2. CASE d # c
    BY <2>2 DEF AttemptsInOrder
  <2> QED BY <2>1, <2>2
<1>4. AnswerEndsUnsafeCall'
  BY <1>1 DEF AnswerEndsUnsafeCall, Unsafe, Ended
<1>5. OutcomeOnlyWhenOver'
  BY DEF OutcomeOnlyWhenOver, Ended
<1>6. SuccessMeansExecuted'
  BY DEF SuccessMeansExecuted, Successes, Returned
<1>7. WireOnce' /\ ConnectionsGivenBack' /\ RetriesWithinLimit' /\ AnswerIsCurrent'
  <2>1. WireOnce'
    BY DEF WireOnce
  <2>2. ConnectionsGivenBack'
    BY DEF ConnectionsGivenBack
  <2>3. RetriesWithinLimit'
    BY DEF RetriesWithinLimit
  <2>4. AnswerIsCurrent'
    BY DEF AnswerIsCurrent
  <2> QED BY <2>1, <2>2, <2>3, <2>4
<1> QED
  BY <1>2, <1>3, <1>4, <1>5, <1>6, <1>7

\* The headers of a stream end its call.
LEMMA OpenStreamStep ==
  ASSUME IInv, NEW c \in Calls, OpenStream(c)
  PROVE  IInv'
<1> USE DEF IInv, TypeOK, OpenStream
<1>1. /\ pc[c] = "waiting"
      /\ num_retries[c] \in sent[c] \ answered[c]
      /\ answered' \in [Calls -> SUBSET Attempts]
      /\ pool' \subseteq Calls
      /\ response[c] \in ResponseType /\ response[c].status \in Nat
  BY HttpClientAssumption DEF AttemptsInOrder, ResponseType
\* Both branches finish the call: with an error and without the connection, or
\* with the iterator and the connection.
<1>2. PICK where \in {"done", "open"}, result \in Outcomes \ {""} :
        /\ Finish(c, where, result)
        /\ result \in Successes => num_retries[c] \in executed[c]
        /\ pool' = IF where = "open" THEN pool ELSE pool \ {c}
  <2>1. CASE response[c].status >= 400
    <3>1. interpret_response(response[c]) \in TermixErrors
      BY <1>1, <2>1, InterpretRange DEF TermixErrors
    <3>2. /\ interpret_response(response[c]) \in Outcomes \ {""}
          /\ interpret_response(response[c]) \notin Successes
      BY <3>1 DEF Outcomes, TermixErrors, StatusErrors, Successes, Returned
    <3> QED BY <2>1, <3>2
  <2>2. CASE ~(response[c].status >= 400)
    <3>1. num_retries[c] \in executed[c]
      BY <1>1, <2>2 DEF AnswerIsCurrent
    <3>2. "TermixStreamResponse" \in Outcomes \ {""}
      BY DEF Outcomes, Successes
    <3> QED BY <2>2, <3>1, <3>2
  <2> QED BY <2>1, <2>2
<1> USE <1>2 DEF Finish
<1>3. TypeOK'
  BY <1>1 DEF Ended
<1>4. AttemptsInOrder'
  <2> SUFFICES ASSUME NEW d \in Calls
               PROVE  /\ \A n \in sent[d] : n <= num_retries[d]
                      /\ answered'[d] \cup lost[d] \subseteq sent[d]
                      /\ \A n \in sent[d] \ (answered'[d] \cup lost[d]) :
                           pc'[d] = "waiting" /\ n = num_retries[d]
                      /\ pc'[d] \in {"idle", "acquiring", "sleeping"} =>
                           num_retries[d] \notin sent[d]
                      /\ pc'[d] = "waiting" => num_retries[d] \in sent[d] \ answered'[d]
    BY ZenonT(40) DEF AttemptsInOrder
  <2>1. CASE d = c
    <3>1. answered'[c] = answered[c] \cup {num_retries[c]} /\ pc'[c] \in {"done", "open"}
      OBVIOUS
    <3> QED BY <1>1, <2>1, <3>1 DEF AttemptsInOrder
  <2>2. CASE d # c
    BY <2>2, ZenonT(40) DEF AttemptsInOrder
  <2> QED BY <2>1, <2>2
<1>5. AnswerEndsUnsafeCall'
  BY <1>1 DEF AnswerEndsUnsafeCall, Unsafe, Ended
<1>6. OutcomeOnlyWhenOver'
  <2>1. outcome'[c] # "" /\ pc'[c] \in Ended \cup {"open", "reading"}
    BY DEF Ended
  <2>2. \A d \in Calls \ {c} : outcome'[d] = outcome[d] /\ pc'[d] = pc[d]
    OBVIOUS
  <2> QED BY <2>1, <2>2 DEF OutcomeOnlyWhenOver
<1>7. SuccessMeansExecuted'
  BY DEF SuccessMeansExecuted
<1>8. ConnectionsGivenBack'
  BY DEF ConnectionsGivenBack
<1>9. WireOnce' /\ RetriesWithinLimit' /\ AnswerIsCurrent'
  <2>1. WireOnce'
    BY DEF WireOnce
  <2>2. RetriesWithinLimit'
    BY DEF RetriesWithinLimit
  <2>3. AnswerIsCurrent'
    BY DEF AnswerIsCurrent
  <2> QED BY <2>1, <2>2, <2>3
<1> QED
  BY <1>3, <1>4, <1>5, <1>6, <1>7, <1>8, <1>9

\* The server executes a request as it takes it off the wire.
LEMMA ServeStep ==
  ASSUME IInv, NEW c \in Calls, NEW n \in Attempts, Serve(c, n)
  PROVE  IInv'
<1> USE DEF IInv, TypeOK, Serve, clientVars
<1>1. PICK r \in Answers, effect \in BOOLEAN :
        /\ r.status < 400 => effect
        /\ executed' = IF effect THEN [executed EXCEPT ![c] = @ \cup {n}] ELSE executed
        /\ response' = IF pc[c] = "waiting" /\ num_retries[c] = n /\ c \in pool
                         THEN [response EXCEPT ![c] = r]
                         ELSE response
  OBVIOUS
<1>2. /\ <<c, n>> \in requests
      /\ n \in sent[c]
      /\ requests' = requests \ {<<c, n>>}
      /\ UNCHANGED <<pc, params, num_retries, outcome, answered, lost, closed, sent, pool>>
  BY DEF WireOnce
<1>3. /\ executed' \in [Calls -> SUBSET Attempts]
      /\ response' \in [Calls -> Answers \cup {NoResponse}]
      /\ \A d \in Calls : executed[d] \subseteq executed'[d]
      /\ \A d \in Calls : executed'[d] \subseteq executed[d] \cup (IF d = c THEN {n} ELSE {})
  BY <1>1
<1>4. TypeOK'
  BY <1>2, <1>3
<1>5. WireOnce'
  <2>1. ASSUME NEW d \in Calls, NEW m \in Attempts, <<d, m>> \in requests'
        PROVE  m \in sent[d] \ executed'[d]
    <3>1. <<d, m>> \in requests /\ <<d, m>> # <<c, n>>
      BY <1>2, <2>1
    <3>2. m \in sent[d] \ executed[d] /\ ~(d = c /\ m = n)
      BY <3>1 DEF WireOnce
    <3> QED BY <1>3, <3>2
  <2>2. \A d \in Calls : executed'[d] \subseteq sent[d]
    BY <1>2, <1>3 DEF WireOnce
  <2> QED BY <1>2, <2>1, <2>2 DEF WireOnce
<1>6. AnswerIsCurrent'
  <2> SUFFICES ASSUME NEW d \in Calls, response'[d] # NoResponse
               PROVE  /\ num_retries[d] \in sent[d]
                      /\ response'[d].status < 400 => num_retries[d] \in executed'[d]
    BY <1>2 DEF AnswerIsCurrent
  <2>1. CASE response'[d] = response[d]
    BY <1>3, <2>1 DEF AnswerIsCurrent
  <2>2. CASE response'[d] # response[d]
    <3>1. d = c /\ num_retries[c] = n /\ response'[d] = r
      BY <1>1, <2>2
    <3> QED BY <1>1, <1>2, <3>1
  <2> QED BY <2>1, <2>2
<1>7. SuccessMeansExecuted'
  BY <1>2, <1>3 DEF SuccessMeansExecuted
<1>8. AttemptsInOrder' /\ RetriesWithinLimit' /\ ConnectionsGivenBack'
  <2>1. AttemptsInOrder'
    BY <1>2 DEF AttemptsInOrder
  <2>2. RetriesWithinLimit'
    BY <1>2 DEF RetriesWithinLimit
  <2>3. ConnectionsGivenBack'
    BY <1>2 DEF ConnectionsGivenBack
  <2> QED BY <2>1, <2>2, <2>3
<1>9. AnswerEndsUnsafeCall' /\ OutcomeOnlyWhenOver'
  <2>1. AnswerEndsUnsafeCall'
    BY <1>2 DEF AnswerEndsUnsafeCall, Unsafe
  <2>2. OutcomeOnlyWhenOver'
    BY <1>2 DEF OutcomeOnlyWhenOver, Unsafe
  <2> QED BY <2>1, <2>2
<1> QED
  BY <1>4, <1>5, <1>6, <1>7, <1>8, <1>9

\* The steps that change only where a call stands and what it holds.
LEMMA MoveStep ==
  ASSUME IInv, NEW c \in Calls,
         \/ StartReading(c) \/ EndReading(c) \/ Abandon(c) \/ BreakReading(c) \/ Wake(c)
  PROVE  IInv'
<1> USE DEF IInv, TypeOK, StartReading, EndReading, Abandon, BreakReading, Wake
<1>1. /\ UNCHANGED <<params, num_retries, response, outcome, requests, sent, answered,
                     lost, executed, closed>>
      /\ pool' \subseteq pool
      /\ \A d \in Calls \ {c} : pc'[d] = pc[d]
      /\ pc' \in [Calls -> {"idle", "acquiring", "waiting", "sleeping", "open", "reading"}
                            \cup Ended]
  BY DEF Ended
<1>2. \/ pc[c] = "sleeping" /\ pc'[c] = "acquiring"
      \/ pc[c] \in {"open", "reading"} /\ pc'[c] \in Ended \cup {"reading"}
  BY DEF Ended
<1>3. TypeOK'
  BY <1>1
<1>4. AttemptsInOrder' /\ RetriesWithinLimit'
  <2>1. AttemptsInOrder'
    BY <1>1, <1>2 DEF AttemptsInOrder, Ended
  <2>2. RetriesWithinLimit'
    BY <1>1, <1>2 DEF RetriesWithinLimit, Ended
  <2> QED BY <2>1, <2>2
<1>5. WireOnce' /\ AnswerIsCurrent' /\ SuccessMeansExecuted'
  <2>1. WireOnce'
    BY <1>1 DEF WireOnce
  <2>2. AnswerIsCurrent'
    BY <1>1 DEF AnswerIsCurrent
  <2>3. SuccessMeansExecuted'
    BY <1>1 DEF SuccessMeansExecuted
  <2> QED BY <2>1, <2>2, <2>3
<1>6. AnswerEndsUnsafeCall'
  BY <1>1, <1>2 DEF AnswerEndsUnsafeCall, Unsafe, Ended
<1>7. OutcomeOnlyWhenOver'
  BY <1>1, <1>2 DEF OutcomeOnlyWhenOver, Ended
<1>8. ConnectionsGivenBack'
  BY DEF ConnectionsGivenBack
<1> QED
  BY <1>3, <1>4, <1>5, <1>6, <1>7, <1>8

\* A closed client ends the call with a RuntimeError.
LEMMA SendOnClosedStep ==
  ASSUME IInv, NEW c \in Calls, SendOnClosed(c)
  PROVE  IInv'
<1> USE DEF IInv, TypeOK, SendOnClosed
<1>1. TypeOK'
  BY DEF Ended, Outcomes, ForeignErrors
<1>2. AttemptsInOrder' /\ RetriesWithinLimit'
  <2>1. AttemptsInOrder'
    BY DEF AttemptsInOrder
  <2>2. RetriesWithinLimit'
    BY DEF RetriesWithinLimit
  <2> QED BY <2>1, <2>2
<1>3. WireOnce' /\ AnswerIsCurrent'
  <2>1. WireOnce'
    BY DEF WireOnce
  <2>2. AnswerIsCurrent'
    BY DEF AnswerIsCurrent
  <2> QED BY <2>1, <2>2
<1>4. AnswerEndsUnsafeCall'
  BY DEF AnswerEndsUnsafeCall, Unsafe, Ended
<1>5. OutcomeOnlyWhenOver'
  BY DEF OutcomeOnlyWhenOver, Ended
<1>6. SuccessMeansExecuted'
  BY DEF SuccessMeansExecuted, Successes, Returned
<1>7. ConnectionsGivenBack'
  BY DEF ConnectionsGivenBack
<1> QED
  BY <1>1, <1>2, <1>3, <1>4, <1>5, <1>6, <1>7

\* Closing only empties the pool.
LEMMA CloseStep ==
  ASSUME IInv, Close
  PROVE  IInv'
BY DEF IInv, TypeOK, Close, AttemptsInOrder, RetriesWithinLimit, WireOnce,
       AnswerIsCurrent, AnswerEndsUnsafeCall, Unsafe, OutcomeOnlyWhenOver,
       SuccessMeansExecuted, ConnectionsGivenBack

\* A lost request was not executed.
LEMMA LoseRequestStep ==
  ASSUME IInv, NEW c \in Calls, NEW n \in Attempts, LoseRequest(c, n)
  PROVE  IInv'
BY DEF IInv, TypeOK, LoseRequest, clientVars, AttemptsInOrder, RetriesWithinLimit,
       WireOnce, AnswerIsCurrent, AnswerEndsUnsafeCall, Unsafe, OutcomeOnlyWhenOver,
       SuccessMeansExecuted, ConnectionsGivenBack

\* Nothing changes in a stuttering step.
LEMMA StutterStep ==
  ASSUME IInv, UNCHANGED vars
  PROVE  IInv'
BY DEF IInv, TypeOK, vars, AttemptsInOrder, RetriesWithinLimit, WireOnce,
       AnswerIsCurrent, AnswerEndsUnsafeCall, Unsafe, OutcomeOnlyWhenOver,
       SuccessMeansExecuted, ConnectionsGivenBack

\* The invariant holds before the first call.
LEMMA InitEstablishes == Init => IInv
<1> SUFFICES ASSUME Init PROVE IInv
  OBVIOUS
<1>0. 0 \in Attempts /\ 0 <= 0
  BY HttpClientAssumption DEF Attempts
<1> USE DEF Init
<1>1. TypeOK
  <2>1. [kind |-> "request", method |-> "GET", max_retries |-> 0]
          \in [kind : Kinds, method : Methods, max_retries : Attempts]
    BY <1>0 DEF Kinds, Methods
  <2>2. "" \in Outcomes
    BY DEF Outcomes
  <2> QED BY <1>0, <2>1, <2>2 DEF TypeOK
<1>2. AttemptsInOrder
  BY DEF AttemptsInOrder
<1>6. RetriesWithinLimit
  <2> SUFFICES ASSUME NEW c \in Calls
               PROVE  /\ 0 <= params[c].max_retries
                      /\ num_retries[c] = 0
                      /\ num_retries[c] <= params[c].max_retries
    BY DEF RetriesWithinLimit
  <2>1. params[c].max_retries = 0 /\ num_retries[c] = 0
    OBVIOUS
  <2> QED BY <1>0, <2>1
<1>7. WireOnce
  BY DEF WireOnce
<1>3. AnswerIsCurrent /\ AnswerEndsUnsafeCall
  BY DEF AnswerIsCurrent, AnswerEndsUnsafeCall
<1>4. OutcomeOnlyWhenOver
  BY DEF OutcomeOnlyWhenOver, Ended
<1>5. SuccessMeansExecuted /\ ConnectionsGivenBack
  BY DEF SuccessMeansExecuted, ConnectionsGivenBack, Successes, Returned
<1> QED
  BY <1>1, <1>2, <1>3, <1>4, <1>5, <1>6, <1>7 DEF IInv

\* Each step of the transport, the caller and the network preserves the invariant.
LEMMA StepPreserves == IInv /\ [Next]_vars => IInv'
<1> SUFFICES ASSUME IInv, [Next]_vars PROVE IInv'
  OBVIOUS
<1>1. CASE UNCHANGED vars
  BY <1>1, StutterStep
<1>2. CASE Close
  BY <1>2, CloseStep
<1>3. CASE Terminated
  BY <1>3, StutterStep DEF Terminated
<1>4. ASSUME NEW c \in Calls, Progress(c)
      PROVE  IInv'
  BY <1>4, SendStep, SendOnClosedStep, ConnectionFailureStep, ReceiveStep,
     ReceiveUnusableStep, OpenStreamStep, MoveStep DEF Progress
<1>5. ASSUME NEW c \in Calls, User(c)
      PROVE  IInv'
  BY <1>5, CallStep, CancelStep, MoveStep DEF User
<1>6. ASSUME NEW c \in Calls, Environment(c)
      PROVE  IInv'
  BY <1>6, ServeStep, LoseRequestStep, MoveStep DEF Environment
<1> QED
  BY <1>1, <1>2, <1>3, <1>4, <1>5, <1>6 DEF Next

\* The invariant holds throughout every behaviour.
THEOREM Invariance == Spec => []IInv
<1>1. Init => IInv
  BY InitEstablishes
<1>2. IInv /\ [Next]_vars => IInv'
  BY StepPreserves
<1> QED
  BY <1>1, <1>2, PTL DEF Spec

-----------------------------------------------------------------------------
(* What follows from the invariant. *)

\* HttpClient keeps its types.
THEOREM TypeCorrect == Spec => []TypeOK
<1>1. IInv => TypeOK
  BY DEF IInv
<1> QED BY <1>1, Invariance, PTL

\* A mutating verb is executed again only in place of an attempt whose answer was lost.
THEOREM RepeatsOnlyLost == Spec => []RepeatsOnlyLostAttempts
<1>1. IInv => RepeatsOnlyLostAttempts
  <2> SUFFICES ASSUME IInv, NEW c \in Calls, Unsafe(c), NEW n \in executed[c]
               PROVE  n \in lost[c] \cup {num_retries[c]}
    BY DEF RepeatsOnlyLostAttempts
  <2>1. n \in sent[c]
    BY DEF IInv, WireOnce
  <2>2. n \in answered[c] => n = num_retries[c]
    BY DEF IInv, AnswerEndsUnsafeCall
  <2> QED
    BY <2>1, <2>2 DEF IInv, AttemptsInOrder
<1> QED BY <1>1, Invariance, PTL

\* A value is returned only for a call the server carried out.
THEOREM SuccessExecuted == Spec => []SuccessMeansExecuted
<1>1. IInv => SuccessMeansExecuted
  BY DEF IInv
<1> QED BY <1>1, Invariance, PTL

\* A stream is requested once.
THEOREM StreamsSentOnce == Spec => []StreamNeverReplayed
<1>1. IInv => StreamNeverReplayed
  <2> SUFFICES ASSUME IInv, NEW c \in Calls, params[c].kind = "stream", NEW n \in sent[c]
               PROVE  n = 0
    BY DEF StreamNeverReplayed
  <2>1. n \in Nat /\ n <= num_retries[c] /\ num_retries[c] = 0
    BY HttpClientAssumption
       DEF IInv, TypeOK, AttemptsInOrder, RetriesWithinLimit, Attempts
  <2> QED BY <2>1
<1> QED BY <1>1, Invariance, PTL

\* Connections go back to the pool.
THEOREM PoolRestored == Spec => []ConnectionsGivenBack
<1>1. IInv => ConnectionsGivenBack
  BY DEF IInv
<1> QED BY <1>1, Invariance, PTL

-----------------------------------------------------------------------------
(* Giving up: an invariant of its own, on top of IInv. *)

\* What GivesUpOnlyWhenExhausted says of one call.
GaveUpRightly(c) ==
  /\ pc[c] = "done" /\ params[c].kind = "request"
  /\ outcome[c] \notin ForeignErrors
  /\ \/ num_retries[c] \notin answered[c]
     \/ ~Unsafe(c) /\ response[c].status \in RETRIABLE_STATUS_CODES
  => num_retries[c] = params[c].max_retries

\* The iterator that ends in "done" is that of a stream.
ReadersAreStreams(c) == pc[c] \in {"open", "reading"} => params[c].kind = "stream"

GInv == \A c \in Calls : GaveUpRightly(c) /\ ReadersAreStreams(c)

\* A call whose state does not change, or only by an answer it waits for.
LEMMA Untouched ==
  ASSUME NEW d \in Calls, GaveUpRightly(d), ReadersAreStreams(d),
         pc'[d] = pc[d], params'[d] = params[d], num_retries'[d] = num_retries[d],
         outcome'[d] = outcome[d], answered'[d] = answered[d],
         response'[d] = response[d] \/ pc[d] = "waiting"
  PROVE  GaveUpRightly(d)' /\ ReadersAreStreams(d)'
BY DEF GaveUpRightly, ReadersAreStreams, Unsafe

\* A call that goes on is no reader, and did not give up.
LEMMA GoesOn ==
  ASSUME NEW d \in Calls, pc'[d] \in {"acquiring", "waiting", "sleeping", "broken", "abandoned"}
  PROVE  GaveUpRightly(d)' /\ ReadersAreStreams(d)'
BY DEF GaveUpRightly, ReadersAreStreams

\* The steps of a call leave the others alone.
LEMMA OthersUntouched ==
  ASSUME IInv, GInv, NEW c \in Calls,
         Progress(c) \/ User(c) \/ BreakReading(c), NEW d \in Calls \ {c}
  PROVE  GaveUpRightly(d)' /\ ReadersAreStreams(d)'
<1> USE DEF IInv, TypeOK
<1>1. /\ pc'[d] = pc[d] /\ params'[d] = params[d] /\ num_retries'[d] = num_retries[d]
      /\ outcome'[d] = outcome[d] /\ answered'[d] = answered[d]
      /\ response'[d] = response[d]
  <2>1. CASE Send(c) \/ SendOnClosed(c) \/ Wake(c) \/ BreakReading(c)
    BY <2>1 DEF Send, SendOnClosed, Wake, BreakReading
  <2>2. CASE ConnectionFailure(c)
    BY <2>2 DEF ConnectionFailure, Retry, Finish
  <2>3. CASE Receive(c)
    BY <2>3 DEF Receive, Retry, Finish
  <2>4. CASE ReceiveUnusable(c) \/ OpenStream(c)
    BY <2>4 DEF ReceiveUnusable, OpenStream, Finish
  <2>5. CASE User(c)
    BY <2>5 DEF User, Call, Cancel, StartReading, EndReading, Abandon
  <2> QED BY <2>1, <2>2, <2>3, <2>4, <2>5 DEF Progress
<1> QED BY <1>1, Untouched DEF GInv

\* A call that may not retry has used all its retries.
LEMMA RetriesUsedUp ==
  ASSUME IInv, NEW c \in Calls, ~(num_retries[c] < params[c].max_retries)
  PROVE  num_retries[c] = params[c].max_retries
<1>1. num_retries[c] \in Nat /\ params[c].max_retries \in Nat
  BY HttpClientAssumption DEF IInv, TypeOK, Attempts
<1>2. num_retries[c] <= params[c].max_retries
  BY DEF IInv, RetriesWithinLimit
<1> QED BY <1>1, <1>2

\* A call that ends gives up only when it may not retry.
LEMMA EndsRightly ==
  ASSUME IInv, GInv, NEW c \in Calls, Progress(c) \/ User(c) \/ BreakReading(c)
  PROVE  GaveUpRightly(c)' /\ ReadersAreStreams(c)'
<1> USE DEF IInv, TypeOK
<1>1. CASE Send(c) \/ Wake(c) \/ BreakReading(c) \/ Call(c) \/ Abandon(c)
  BY <1>1, GoesOn DEF Send, Wake, BreakReading, Call, Abandon
<1>2. CASE SendOnClosed(c) \/ ReceiveUnusable(c) \/ Cancel(c)
  <2>1. pc'[c] = "done" /\ outcome'[c] \in ForeignErrors
    BY <1>2 DEF SendOnClosed, ReceiveUnusable, Cancel, Finish, ForeignErrors
  <2> QED BY <2>1 DEF GaveUpRightly, ReadersAreStreams
<1>3. CASE ConnectionFailure(c)
  <2>1. CASE CanRetry(c, NoStatus)
    BY <1>3, <2>1, GoesOn DEF ConnectionFailure, Retry
  <2>2. CASE ~CanRetry(c, NoStatus)
    <3>1. /\ pc'[c] = "done" /\ params' = params /\ num_retries' = num_retries
      BY <1>3, <2>2 DEF ConnectionFailure, Finish
    <3>2. params[c].kind = "request" => num_retries[c] = params[c].max_retries
      BY <2>2, RetriesUsedUp DEF CanRetry, should_retry
    <3> QED BY <3>1, <3>2 DEF GaveUpRightly, ReadersAreStreams
  <2> QED BY <2>1, <2>2
<1>4. CASE Receive(c)
  <2>1. CASE CanRetry(c, response[c].status)
    BY <1>4, <2>1, GoesOn DEF Receive, Retry
  <2>2. CASE ~CanRetry(c, response[c].status)
    <3>1. /\ pc'[c] = "done" /\ params' = params /\ num_retries' = num_retries
          /\ response' = response /\ num_retries[c] \in answered'[c]
      BY <1>4, <2>2 DEF Receive, Finish
    <3>2. ~Unsafe(c) /\ response[c].status \in RETRIABLE_STATUS_CODES =>
            num_retries[c] = params[c].max_retries
      BY <1>4, <2>2, RetriesUsedUp DEF Receive, CanRetry, should_retry, Unsafe
    <3> QED BY <3>1, <3>2 DEF GaveUpRightly, ReadersAreStreams, Unsafe
  <2> QED BY <2>1, <2>2
<1>5. CASE OpenStream(c) \/ StartReading(c) \/ EndReading(c)
  <2>1. params' = params /\ params[c].kind = "stream"
    BY <1>5 DEF OpenStream, StartReading, EndReading, GInv, ReadersAreStreams
  <2> QED BY <2>1 DEF GaveUpRightly, ReadersAreStreams
<1> QED BY <1>1, <1>2, <1>3, <1>4, <1>5 DEF Progress, User

\* Every step preserves it.
LEMMA GInvPreserved == IInv /\ GInv /\ [Next]_vars => GInv'
<1> SUFFICES ASSUME IInv, GInv, [Next]_vars, NEW d \in Calls
             PROVE  GaveUpRightly(d)' /\ ReadersAreStreams(d)'
  BY DEF GInv
<1>1. ASSUME NEW c \in Calls, Progress(c) \/ User(c) \/ BreakReading(c)
      PROVE  GaveUpRightly(d)' /\ ReadersAreStreams(d)'
  BY <1>1, OthersUntouched, EndsRightly
<1>2. ASSUME NEW c \in Calls, NEW n \in Attempts, Serve(c, n) \/ LoseRequest(c, n)
      PROVE  GaveUpRightly(d)' /\ ReadersAreStreams(d)'
  <2>1. response'[d] = response[d] \/ pc[d] = "waiting"
    BY <1>2 DEF Serve, LoseRequest, IInv, TypeOK
  <2> QED BY <1>2, <2>1, Untouched DEF Serve, LoseRequest, clientVars, GInv
<1>3. CASE Close \/ Terminated \/ UNCHANGED vars
  BY <1>3, Untouched DEF Close, Terminated, vars, GInv
<1> QED BY <1>1, <1>2, <1>3 DEF Next, Environment

\* A failure that may be retried reaches the caller only after max_retries retries.
THEOREM GivesUpExhausted == Spec => []GivesUpOnlyWhenExhausted
<1>1. Init => GInv
  BY DEF Init, GInv, GaveUpRightly, ReadersAreStreams
<1>2. GInv => GivesUpOnlyWhenExhausted
  BY DEF GInv, GaveUpRightly, GivesUpOnlyWhenExhausted
<1> QED BY <1>1, <1>2, GInvPreserved, Invariance, PTL DEF Spec

-----------------------------------------------------------------------------
(* The retry loop implements the promise of Delivery. *)

phases == [d \in Calls |-> PhaseOf(d)]

\* A step that moves one call moves one phase.
LEMMA PhaseChange ==
  ASSUME IInv, NEW c \in Calls, NEW v, PhaseOf(c)' = v,
         \A d \in Calls \ {c} : pc'[d] = pc[d] /\ outcome'[d] = outcome[d]
  PROVE  phases' = [phases EXCEPT ![c] = v]
<1>1. \A d \in Calls \ {c} : PhaseOf(d)' = PhaseOf(d)
  BY DEF PhaseOf
<1> QED BY <1>1 DEF phases

\* Starting a call begins it; cancellation, a closed client and an unusable answer fail it.
LEMMA BeginsOrFails ==
  ASSUME IInv, NEW c \in Calls, Call(c) \/ Cancel(c) \/ SendOnClosed(c)
                                \/ ReceiveUnusable(c)
  PROVE  D!Begin(c) \/ D!Fail(c)
<1> USE DEF IInv, TypeOK
<1>1. \A d \in Calls \ {c} : pc'[d] = pc[d] /\ outcome'[d] = outcome[d]
  BY DEF Call, Cancel, SendOnClosed, ReceiveUnusable, Finish
<1>2. UNCHANGED <<sent, executed>>
  BY DEF Call, Cancel, SendOnClosed, ReceiveUnusable
<1>3. CASE Call(c)
  <2>1. phases[c] = "new" /\ PhaseOf(c)' = "pending"
    BY <1>3 DEF Call, PhaseOf, phases
  <2> QED BY <1>1, <1>2, <2>1, PhaseChange DEF D!Begin, phases
<1>4. CASE ~Call(c)
  <2>1. pc[c] \in {"acquiring", "waiting", "sleeping"} /\ pc'[c] = "done"
    BY <1>4 DEF Cancel, SendOnClosed, ReceiveUnusable, Finish
  <2>2. outcome'[c] \notin Successes
    BY <1>4 DEF Cancel, SendOnClosed, ReceiveUnusable, Finish, Successes, Returned
  <2>3. phases[c] = "pending" /\ PhaseOf(c)' = "failed"
    BY <2>1, <2>2 DEF PhaseOf, phases
  <2> QED BY <1>1, <1>2, <2>3, PhaseChange DEF D!Fail, phases
<1> QED BY <1>3, <1>4

\* Putting an attempt on the wire issues it.
LEMMA SendIssues ==
  ASSUME IInv, NEW c \in Calls, Send(c)
  PROVE  D!Issue(c)
<1> USE DEF IInv, TypeOK, Send
<1>1. phases' = phases
  BY DEF phases, PhaseOf
<1>2. phases[c] = "pending"
  BY DEF phases, PhaseOf
<1>3. num_retries[c] \in (0 .. MaxRetries) \ sent[c]
  BY DEF AttemptsInOrder, Attempts
<1> QED BY <1>1, <1>2, <1>3 DEF D!Issue, phases

\* The outcome of an attempt ends the call or is a retry, which Delivery does not see.
LEMMA EndsOrRetries ==
  ASSUME IInv, NEW c \in Calls, ConnectionFailure(c) \/ Receive(c) \/ OpenStream(c)
  PROVE  \/ D!Fail(c) \/ D!Succeed(c)
         \/ phases' = phases /\ UNCHANGED <<sent, executed>>
<1> USE DEF IInv, TypeOK, Retry, Finish
<1>1. UNCHANGED <<sent, executed>>
  BY DEF ConnectionFailure, Receive, OpenStream
<1>2. pc[c] \in {"acquiring", "waiting"}
  BY DEF ConnectionFailure, Receive, OpenStream
<1>3. \A d \in Calls \ {c} : pc'[d] = pc[d] /\ outcome'[d] = outcome[d]
  BY DEF ConnectionFailure, Receive, OpenStream
<1>4. \/ pc'[c] = "sleeping" /\ outcome' = outcome
      \/ pc'[c] \in {"done", "open"}
  BY DEF ConnectionFailure, Receive, OpenStream
<1>5. CASE pc'[c] = "sleeping"
  <2>1. PhaseOf(c)' = PhaseOf(c)
    BY <1>2, <1>5 DEF PhaseOf
  <2>2. \A d \in Calls : PhaseOf(d)' = PhaseOf(d)
    BY <1>3, <2>1 DEF PhaseOf
  <2> QED BY <1>1, <2>2 DEF phases
<1>6. CASE pc'[c] \in {"done", "open"}
  <2>1. phases[c] = "pending"
    BY <1>2 DEF phases, PhaseOf
  <2>2. CASE outcome'[c] \in Successes
    <3>1. executed'[c] # {}
      <4>1. IInv'
        BY ConnectionFailureStep, ReceiveStep, OpenStreamStep
      <4> QED BY <4>1, <2>2 DEF SuccessMeansExecuted
    <3>2. PhaseOf(c)' = "succeeded"
      BY <1>6, <2>2 DEF PhaseOf
    <3> QED BY <1>1, <1>3, <2>1, <3>1, <3>2, PhaseChange DEF D!Succeed, phases
  <2>3. CASE outcome'[c] \notin Successes
    <3>1. PhaseOf(c)' = "failed"
      BY <1>6, <2>3 DEF PhaseOf
    <3> QED BY <1>1, <1>3, <2>1, <3>1, PhaseChange DEF D!Fail, phases
  <2> QED BY <2>2, <2>3
<1> QED BY <1>4, <1>5, <1>6

\* Sleeping and reading are not visible to Delivery.
LEMMA MoveStutters ==
  ASSUME IInv, NEW c \in Calls,
         \/ StartReading(c) \/ EndReading(c) \/ Abandon(c) \/ BreakReading(c) \/ Wake(c)
  PROVE  phases' = phases /\ UNCHANGED <<sent, executed>>
<1> USE DEF IInv, TypeOK, StartReading, EndReading, Abandon, BreakReading, Wake
<1>1. UNCHANGED <<sent, executed, outcome>>
  OBVIOUS
<1>2. \A d \in Calls \ {c} : pc'[d] = pc[d]
  OBVIOUS
<1>3. \/ pc[c] = "sleeping" /\ pc'[c] = "acquiring"
      \/ pc[c] \in {"open", "reading"} /\ pc'[c] \in {"reading", "done", "abandoned", "broken"}
  OBVIOUS
<1>4. \A d \in Calls : PhaseOf(d)' = PhaseOf(d)
  BY <1>1, <1>2, <1>3 DEF PhaseOf
<1> QED BY <1>1, <1>4 DEF phases

\* Serving a request executes its attempt, or has no effect.
LEMMA ServeExecutes ==
  ASSUME IInv, NEW c \in Calls, NEW n \in Attempts, Serve(c, n)
  PROVE  D!Execute(c) \/ (phases' = phases /\ UNCHANGED <<sent, executed>>)
<1> USE DEF IInv, TypeOK, Serve, clientVars
<1>1. UNCHANGED <<pc, outcome, sent>> /\ <<c, n>> \in requests
  OBVIOUS
<1>2. phases' = phases
  BY <1>1 DEF phases, PhaseOf
<1>3. n \in sent[c] \ executed[c]
  BY <1>1 DEF WireOnce
<1>4. executed' = [executed EXCEPT ![c] = @ \cup {n}] \/ executed' = executed
  OBVIOUS
<1> QED BY <1>1, <1>2, <1>3, <1>4 DEF D!Execute, phases

\* The transport starts where Delivery starts.
LEMMA InitRefines == Init => D!Init
BY DEF Init, D!Init, PhaseOf

\* Each step of the transport is a step of Delivery or leaves it alone.
LEMMA StepRefines == IInv /\ [Next]_vars => [D!Next]_D!vars
<1> SUFFICES ASSUME IInv, [Next]_vars PROVE [D!Next]_D!vars
  OBVIOUS
<1> DEFINE Still == phases' = phases /\ UNCHANGED <<sent, executed>>
<1>0. Still => UNCHANGED D!vars
  BY DEF D!vars, phases
<1>1. CASE UNCHANGED vars
  BY <1>0, <1>1 DEF vars, phases, PhaseOf
<1>2. CASE Close
  BY <1>0, <1>2 DEF Close, phases, PhaseOf
<1>3. CASE Terminated
  BY <1>0, <1>3 DEF Terminated, vars, phases, PhaseOf
<1>4. ASSUME NEW c \in Calls, Progress(c)
      PROVE  [D!Next]_D!vars
  <2>1. D!Begin(c) \/ D!Issue(c) \/ D!Succeed(c) \/ D!Fail(c) \/ Still
    BY <1>4, SendIssues, BeginsOrFails, EndsOrRetries, MoveStutters DEF Progress
  <2> QED BY <1>0, <2>1 DEF D!Next
<1>5. ASSUME NEW c \in Calls, User(c)
      PROVE  [D!Next]_D!vars
  <2>1. D!Begin(c) \/ D!Fail(c) \/ Still
    BY <1>5, BeginsOrFails, MoveStutters DEF User
  <2> QED BY <1>0, <2>1 DEF D!Next
<1>6. ASSUME NEW c \in Calls, NEW n \in Attempts, Serve(c, n)
      PROVE  [D!Next]_D!vars
  <2>1. D!Execute(c) \/ Still
    BY <1>6, ServeExecutes
  <2> QED BY <1>0, <2>1 DEF D!Next
<1>7. ASSUME NEW c \in Calls, NEW n \in Attempts, LoseRequest(c, n)
      PROVE  [D!Next]_D!vars
  <2>1. Still
    BY <1>7 DEF LoseRequest, clientVars, phases, PhaseOf
  <2> QED BY <1>0, <2>1
<1>8. ASSUME NEW c \in Calls, BreakReading(c)
      PROVE  [D!Next]_D!vars
  BY <1>0, <1>8, MoveStutters
<1> QED
  BY <1>1, <1>2, <1>3, <1>4, <1>5, <1>6, <1>7, <1>8 DEF Next, Environment

\* Every behaviour of the transport is one that Delivery allows.
THEOREM TransportImplementsDelivery == Spec => ImplementsDelivery
<1>1. Init => D!Init
  BY InitRefines
<1>2. IInv /\ [Next]_vars => [D!Next]_D!vars
  BY StepRefines
<1> QED
  BY <1>1, <1>2, Invariance, PTL DEF Spec, ImplementsDelivery, D!Spec
=============================================================================
