--------------------------- MODULE ServiceMethods ---------------------------
(***************************************************************************)
(* One generated service method (resources/*.py), as a record: the verb    *)
(* and path it requests, what becomes of its parameters, and what it makes *)
(* of the answer.  A path is the sequence of its segments; a segment that  *)
(* starts with a colon is an argument, interpolated as it is.              *)
(*                                                                         *)
(* payload: "none", or the **params sent as "query" or "json"; "file" for  *)
(* an upload alone and "form" for one with parameters.                     *)
(* result: "object" wraps the data in a model, "models" does so for a list *)
(* and puts [] for no answer, "list" returns the data as it is, or [];     *)
(* "stream" hands out the body, "events" its server-sent events.           *)
(***************************************************************************)
EXTENDS Sequences, TLC

PathParams ==
  {":id", ":host_id", ":session_id", ":container_id", ":user_id", ":transfer_id",
   ":access_id", ":handle", ":name", ":entity_type", ":token", ":protocol", ":share_id",
   ":key_id", ":run_id", ":connect_id", ":role_id", ":link_token", ":algo",
   ":tunnel_name", ":credential_id"}

Op(verb, path, payload, result) ==
  [verb |-> verb, path |-> path, payload |-> payload, result |-> result]

\* The arguments of a method that go into its path.
Arguments(op) == {op.path[i] : i \in DOMAIN op.path} \cap PathParams

\* Whether the method takes **params.
TakesParams(op) == op.payload \in {"query", "json", "form"}

Service(backend, methods) == [service |-> backend, methods |-> methods]

=============================================================================
