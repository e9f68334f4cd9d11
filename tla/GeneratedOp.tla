---------------------------- MODULE GeneratedOp -----------------------------
(***************************************************************************)
(* What tools/sdk-gen/generate.py makes of one operation of the OpenAPI    *)
(* document: the method, the classes it names and the contract test.       *)
(*                                                                         *)
(* An operation is a record: verb, path, service, query (the names of its  *)
(* query parameters), fields (the properties of its JSON body), and        *)
(*   body      "none", "json" (an object with the fields), "opaque" (JSON  *)
(*             without properties), "files" (nothing but file parts),      *)
(*             "form" (JSON and, as multipart, a file), "multipart"        *)
(*   response  "object", "items" (an array of typed objects), "alike"      *)
(*             (oneOf such arrays, all the same), "list" (another array),  *)
(*             "variants" (oneOf), "none" (no schema), "204", or "text"    *)
(*             (a success that is no JSON)                                 *)
(***************************************************************************)
EXTENDS ServiceMethods, SequencesExt, FiniteSets

CONSTANTS
  operations,   \* the operations of the document, by their operationId
  snake_case,   \* the Python name made of a path segment
  Keywords      \* the words Python reserves (soft ones, refused as method names only, aside)

\* A body without properties is "opaque".
ASSUME DocumentAssumption ==
  \A id \in DOMAIN operations :
    operations[id].body \in {"json", "form"} => operations[id].fields # {}

\* The name of a method the resource map does not name.
default_method_name(verb, path) ==
  LET trailing == path # <<>> /\ Last(path) \in PathParams
      segments == IF trailing THEN Front(path) ELSE path
  IN  CASE trailing /\ verb = "GET" -> "retrieve"
        [] trailing /\ verb \in {"PUT", "PATCH"} -> "update"
        [] trailing /\ verb = "DELETE" -> "delete"
        [] ~trailing /\ verb = "POST" /\ Len(segments) = 1 -> "create"
        [] OTHER -> IF segments = <<>> THEN "call" ELSE snake_case[Last(segments)]

\* An entry of the resource map: an operationId, the method's name if it is overridden,
\* and the "sse" flag.
NoOverride == ""

name_for(entry) ==
  IF entry.method # NoOverride THEN entry.method
  ELSE LET op == operations[entry.id] IN default_method_name(op.verb, op.path)

IsRefused(entry) == entry.id \notin DOMAIN operations \/ name_for(entry) \in Keywords

build_generated_ops(entries) ==
  [i \in DOMAIN entries |->
     [op |-> operations[entries[i].id], name |-> name_for(entries[i]), sse |-> entries[i].sse]]

-----------------------------------------------------------------------------
(***************************************************************************)
(* Parameters.                                                             *)
(***************************************************************************)
file_fields(op) == IF op.body \in {"files", "form"} THEN {"file"} ELSE {}

has_body_schema(op) == op.body \in {"json", "form", "opaque"}

has_params(g) == has_body_schema(g.op) \/ g.op.query # {}

python_path_args(op) == {snake_case[p] : p \in Arguments(op)}

params_class_name(g) == <<g.name, "Params">>

\* The fields of the TypedDict; none is written if there are no fields.
typed_fields(g) == g.op.query \cup g.op.fields

-----------------------------------------------------------------------------
(***************************************************************************)
(* Models.  The names a method uses, the classes the models module gets    *)
(* and those the resources module imports are worked out in three places.  *)
(***************************************************************************)
Result(g) == <<g.name, "Result">>
Item(g) == <<g.name, "Item">>

ModelUsed(g) ==
  IF g.sse THEN {}
  ELSE IF g.op.response = "object" THEN {Result(g)}
  ELSE IF g.op.response \in {"items", "alike"} THEN {Item(g)} ELSE {}

emit_model_class(g) ==
  IF g.op.response = "object" THEN {Result(g)}
  ELSE IF g.op.response \in {"items", "alike"} THEN {Item(g)} ELSE {}

ModelImported(g) ==
  IF g.op.response = "object" THEN {Result(g)}
  ELSE IF g.op.response = "items" THEN {Item(g)} ELSE {}

-----------------------------------------------------------------------------
(***************************************************************************)
(* The method, a record of the catalogue with what its signature says.     *)
(* payload "split" sends the names of the query as query, others as JSON.  *)
(***************************************************************************)
payload_of(op) ==
  IF op.query # {} THEN IF op.fields # {} THEN "split" ELSE "query"
  ELSE IF has_body_schema(op) THEN "json" ELSE "none"

return_type(op) ==
  CASE op.response = "204" -> "nothing"
    [] op.response \in {"items", "alike"} -> "models"
    [] op.response = "list" -> "list"
    [] op.response \in {"object", "variants", "none"} -> "object"

emit_method(g) ==
  LET result == IF g.op.response = "text" THEN "stream"
                ELSE IF g.sse THEN "events" ELSE return_type(g.op)
  IN  [verb |-> g.op.verb, path |-> g.op.path, payload |-> payload_of(g.op),
       result |-> result, name |-> g.name, query_names |-> g.op.query,
       takes |-> has_params(g), uses |-> ModelUsed(g),
       named |-> {"options"} \cup python_path_args(g.op) \cup file_fields(g.op)]

\* The keywords that a method sends, and where: the body of what emit_method writes.
Sent(m, keywords) ==
  [query |-> IF m.payload = "split" THEN keywords \cap m.query_names
             ELSE IF m.payload = "query" THEN keywords ELSE {},
   json |-> IF m.payload = "split" THEN keywords \ m.query_names
            ELSE IF m.payload = "json" THEN keywords ELSE {}]

-----------------------------------------------------------------------------
(***************************************************************************)
(* The contract test: a call with every parameter the document has, and    *)
(* what it asserts of the request and of the result.                       *)
(***************************************************************************)
\* Faulty variant of emit_contract_test: the body is looked at if there is no query.
emit_contract_test_lax(g) ==
  [name |-> g.name, verb |-> g.op.verb, path |-> g.op.path, query |-> g.op.query,
   fields |-> g.op.fields, json |-> IF g.op.query = {} THEN g.op.fields ELSE {},
   expects |-> IF g.sse THEN "events"
               ELSE IF g.op.response = "text" THEN "stream" ELSE return_type(g.op)]

emit_contract_test(g) ==
  [name |-> g.name, verb |-> g.op.verb, path |-> g.op.path, query |-> g.op.query,
   fields |-> g.op.fields, json |-> g.op.fields,
   expects |-> IF g.sse THEN "events"
               ELSE IF g.op.response = "text" THEN "stream" ELSE return_type(g.op)]

\* Whether a call can name these keywords: a parameter of the signature, or one Python
\* reserves, cannot be one of **params.
Accepts(m, keywords) ==
  keywords \cap m.named = {} /\ keywords \cap Keywords = {} /\ (keywords # {} => m.takes)

\* What a contract test finds of the method it calls, in a module with these imports.
Passes(t, m, imported) ==
  LET keywords == t.query \cup t.fields
      sent == Sent(m, keywords)
  IN  /\ Accepts(m, keywords)
      /\ m.uses \subseteq imported
      /\ t.verb = m.verb /\ t.path = m.path
      /\ t.query # {} => sent.query = t.query
      /\ t.json # {} => sent.json = t.json
      /\ t.expects = m.result

=============================================================================
