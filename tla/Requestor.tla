----------------------------- MODULE Requestor -----------------------------
(***************************************************************************)
(* The pure decisions of one API call: which failures are worth another    *)
(* attempt (_api_requestor.py, _http_client.py), and what a completed HTTP *)
(* response becomes for the caller (_interpret_response, error_for_status).*)
(* Both requestors, APIRequestor and AsyncAPIRequestor, share them.        *)
(***************************************************************************)
EXTENDS Naturals

Methods == {"GET", "HEAD", "POST", "PUT", "PATCH", "DELETE"}

\* The `http_status is None` of should_retry: the attempt failed without one.
NoStatus == 0

RETRIABLE_STATUS_CODES == {408, 429, 500, 502, 503, 504}

SafeMethods == {"GET", "HEAD"}

\* Faulty variant of should_retry: a retryable status is retried whatever the method.
should_retry_any_method(method, status) ==
  status = NoStatus \/ status \in RETRIABLE_STATUS_CODES

\* Faulty variant of should_retry: a lost connection is retried for GET and HEAD only.
should_retry_safe_only(method, status) ==
  method \in SafeMethods /\ status \in RETRIABLE_STATUS_CODES \cup {NoStatus}

\* Any lost connection is retried; a status only for the safe methods.
should_retry(method, status) ==
  \/ status = NoStatus
  \/ method \in SafeMethods /\ status \in RETRIABLE_STATUS_CODES

-----------------------------------------------------------------------------
(***************************************************************************)
(* A completed response.  Its body is empty, a JSON object, another JSON   *)
(* value, or bytes that are no JSON; json says whether the content type    *)
(* declares application/json; code is the "code" of an object body.        *)
(***************************************************************************)
Codes == {"", "TOTP_REQUIRED", "SESSION_NOT_FOUND", "SESSION_EXPIRED", "DATA_LOCKED"}

ResponseType == [status : Nat, json : BOOLEAN,
                 body : {"empty", "object", "value", "text"}, code : Codes]

NoResponse == [status |-> NoStatus, json |-> FALSE, body |-> "empty", code |-> ""]

unauthorized(code) ==
  IF code = "TOTP_REQUIRED" THEN "TOTPRequiredError"
  ELSE IF code \in {"SESSION_NOT_FOUND", "SESSION_EXPIRED"} THEN "SessionExpiredError"
  ELSE "AuthenticationError"

\* The first match wins.
error_for_status(status, code) ==
  IF status = 401 THEN unauthorized(code)
  ELSE IF status = 403 THEN "PermissionError"
  ELSE IF status = 404 THEN "NotFoundError"
  ELSE IF status = 423 THEN "DataLockedError"
  ELSE IF status = 429 THEN "RateLimitError"
  ELSE IF status \in {400, 409, 422} THEN "InvalidRequestError"
  ELSE IF status >= 500 THEN "ServerError"
  ELSE "APIStatusError"

\* Faulty variant of raise_for_status: only server errors are raised.
raise_for_server_errors(status, code, value) ==
  IF status >= 500 THEN error_for_status(status, code) ELSE value

\* What the caller gets from a body that was parsed, or that is absent.
raise_for_status(status, code, value) ==
  IF status >= 400 THEN error_for_status(status, code) ELSE value

\* An undecodable body is an error only when it claimed to be JSON; then it is
\* a connection error, whatever the status was.
interpret_response(r) ==
  IF r.status = 204 \/ r.body = "empty" THEN raise_for_status(r.status, "", "None")
  ELSE IF r.body = "text" /\ r.json THEN "APIConnectionError"
  ELSE raise_for_status(r.status, IF r.body = "object" THEN r.code ELSE "",
                        "TermixResponse")

StatusErrors == {"TOTPRequiredError", "SessionExpiredError", "AuthenticationError",
                 "PermissionError", "NotFoundError", "DataLockedError",
                 "RateLimitError", "InvalidRequestError", "ServerError",
                 "APIStatusError"}

\* The exceptions a caller can catch as TermixError.
TermixErrors == StatusErrors \cup {"APIConnectionError"}

Returned == {"None", "TermixResponse"}
=============================================================================
