---------------------------- MODULE MCHttpClient ----------------------------
(* Instances of HttpClient small enough for TLC. *)
EXTENDS HttpClient

\* Success, a rejection, a retryable status, and a success that claims to be JSON
\* and is not.
MCAnswers ==
  { [status |-> 200, json |-> TRUE, body |-> "object", code |-> ""],
    [status |-> 404, json |-> TRUE, body |-> "object", code |-> ""],
    [status |-> 503, json |-> FALSE, body |-> "text", code |-> ""],
    [status |-> 200, json |-> TRUE, body |-> "text", code |-> ""] }

\* Success and a retryable status only.
MCTwoAnswers == {r \in MCAnswers : r.status = 503 \/ (r.status = 200 /\ r.body = "object")}
=============================================================================
