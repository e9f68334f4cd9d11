--------------------------- MODULE ServiceRequests --------------------------
(***************************************************************************)
(* The request of a generated method (resources/*.py, _service.py,         *)
(* _api_requestor.py), called on the service or through the SessionHandle  *)
(* of a with-block (_session.py), and the route of the server it reaches.  *)
(*                                                                         *)
(* An argument is the sequence of path segments it turns into when it is   *)
(* interpolated raw: <<"7">> for 7, <<"">> for "", <<"a", "b">> for "a/b", *)
(* and <<"a", Cut>> for a name with "?" or "#" in it, which ends the path. *)
(***************************************************************************)
EXTENDS Resources, Requestor, SequencesExt, FiniteSetsExt

CONSTANTS
  Ids,           \* the unusual arguments
  ServiceUrls    \* backends that have a URL of their own (service_urls)

VARIABLES phase, call, request, reached

requestVars == <<phase, call, request, reached>>

Empty == ""                      \* the segment between two slashes, or after the last
NoNames == {Empty, ".", ".."}    \* segments that urljoin does not keep
Cut == "?"
Own == <<"own">>        \* the session id of a handle
Theirs == <<"theirs">>  \* one the caller passes
Usual == <<"7">>

\* An argument that is interpolated has a text, which is one segment or more.
ASSUME IdsAssumption == Ids \cup {Own, Usual} \subseteq Seq(STRING) \ {<<>>}

NoCall == [op |-> <<"", "">>, via |-> "client", args |-> <<>>, params |-> <<>>]
NoRequest == [verb |-> "", base |-> "", path |-> <<>>, payload |-> <<>>]

RequestInit ==
  phase = "idle" /\ call = NoCall /\ request = NoRequest /\ reached = {}

-----------------------------------------------------------------------------
(***************************************************************************)
(* The URL.                                                                *)
(***************************************************************************)
\* Faulty variant of base_url_for: any configured URL serves.
base_url_for_any(service) ==
  IF ServiceUrls # {} THEN CHOOSE s \in ServiceUrls : TRUE ELSE "base_url"

base_url_for(service) == IF service \in ServiceUrls THEN service ELSE "base_url"

\* Without dot segments and empty ones: what is left of the first n segments, for each n.
resolved(path) ==
  LET done[n \in 0..Len(path)] ==
        IF n = 0 THEN <<>>
        ELSE IF path[n] = ".." /\ done[n - 1] # <<>> THEN Front(done[n - 1])
        ELSE IF path[n] \in NoNames THEN done[n - 1]
        ELSE Append(done[n - 1], path[n])
  IN  done

\* urljoin(base + "/", path.lstrip("/")): what follows a cut is no path; empty segments
\* but the last go; dot segments are resolved, and one at the end leaves a slash.
url_for(parts) ==
  LET cuts == {i \in DOMAIN parts : parts[i] = Cut}
      path == IF cuts = {} THEN parts ELSE SubSeq(parts, 1, Min(cuts) - 1)
      whole == resolved(path)[Len(path)]
  IN  IF Last(path) \in NoNames THEN Append(whole, Empty) ELSE whole

PathOf(op, args) ==
  FlattenSeq([i \in DOMAIN op.path |->
    IF op.path[i] \in PathParams THEN args[op.path[i]] ELSE <<op.path[i]>>])

-----------------------------------------------------------------------------
(***************************************************************************)
(* The call.                                                               *)
(***************************************************************************)
\* kwargs.setdefault(name, id)
setdefault(kwargs, name, id) ==
  [k \in DOMAIN kwargs \cup {name} |-> IF k \in DOMAIN kwargs THEN kwargs[k] ELSE id]

\* Faulty variant of with_session: the handle's id wins over the caller's.
with_session_always(op, c) ==
  IF ":session_id" \in Arguments(op)
  THEN [c EXCEPT !.args = (":session_id" :> Own) @@ @]
  ELSE IF TakesParams(op) THEN [c EXCEPT !.params = ("sessionId" :> Own) @@ @]
  ELSE c

\* Faulty variant of with_session: every method is given the sessionId keyword.
with_session_keyword(op, c) ==
  [c EXCEPT !.args = [p \in Arguments(op) |-> IF p \in DOMAIN @ THEN @[p] ELSE Own],
            !.params = setdefault(@, "sessionId", Own)]

\* Faulty variant of with_session: the keyword is spelt like the argument.
with_session_spelt(op, c) ==
  IF ":session_id" \in Arguments(op)
  THEN [c EXCEPT !.args = setdefault(@, ":session_id", Own)]
  ELSE IF TakesParams(op) THEN [c EXCEPT !.params = setdefault(@, "session_id", Own)]
  ELSE c

\* SessionHandle.__getattr__: the signature says how the id is passed, if at all.
with_session(op, c) ==
  IF ":session_id" \in Arguments(op)
  THEN [c EXCEPT !.args = setdefault(@, ":session_id", Own)]
  ELSE IF TakesParams(op) THEN [c EXCEPT !.params = setdefault(@, "sessionId", Own)]
  ELSE c

\* The body of a generated method, up to its request.
RequestOf(o, c) ==
  [verb |-> method(o).verb,
   base |-> base_url_for(resources[o[1]].service),
   path |-> url_for(PathOf(method(o), c.args)),
   payload |-> c.params]

Made(c) ==
  RequestOf(c.op, IF c.via = "handle" THEN with_session(method(c.op), c) ELSE c)

\* The parameters that a caller may pass to a method, of which it may leave out any.
Fields(o) ==
  IF ~TakesParams(method(o)) THEN {}
  ELSE {"field"} \cup (IF DeclaresSession(o) THEN {"sessionId"} ELSE {})

\* Through a handle the session id may be left out of the arguments too.
Calls(o) ==
  LET given == [Arguments(method(o)) -> Ids \cup {Usual}]
      open == [Arguments(method(o)) \ {":session_id"} -> Ids \cup {Usual}]
      params == {[f \in s |-> Theirs] : s \in SUBSET Fields(o)}
  IN  [op : {o}, via : {"client"}, args : given, params : params] \cup
      (IF o[1] \in SessionServiceNames
       THEN [op : {o}, via : {"handle"}, args : given \cup open, params : params]
       ELSE {})

Invoke ==
  /\ phase = "idle"
  /\ \E o \in Operations : call' \in Calls(o)
  /\ request' = Made(call')
  /\ phase' = "sent"
  /\ UNCHANGED reached

-----------------------------------------------------------------------------
(***************************************************************************)
(* The server (external).  Its routes are those of the methods.  A         *)
(* parameter matches any one segment; a slash at the end does not count.   *)
(* Behind the base URL the gateway offers every backend.                   *)
(***************************************************************************)
Matches(template, path) ==
  LET p == IF path # <<>> /\ Last(path) = Empty THEN Front(path) ELSE path
  IN  /\ Len(p) = Len(template)
      /\ \A i \in DOMAIN p : template[i] = p[i] \/ (template[i] \in PathParams /\ p[i] # Empty)

Routes == [v \in Methods |-> {o \in Operations : method(o).verb = v}]

Routed(r) ==
  {o \in Routes[r.verb] : /\ r.base \in {"base_url", resources[o[1]].service}
                          /\ Matches(method(o).path, r.path)}

Arrive ==
  /\ phase = "sent"
  /\ reached' = Routed(request)
  /\ phase' = "answered"
  /\ UNCHANGED <<call, request>>

\* What becomes of the answer leaves the request alone.
Later ==
  /\ phase \in {"answered", "listening"}
  /\ phase' \in {"listening", "done"}
  /\ UNCHANGED <<call, request, reached>>

RequestNext == Invoke \/ Arrive \/ Later

RequestSpec == RequestInit /\ [][RequestNext]_requestVars

-----------------------------------------------------------------------------
(***************************************************************************)
(* What holds of the catalogue.                                            *)
(***************************************************************************)
\* A segment that is a name of its own.
IsPlain(segment) == segment \notin NoNames \cup {Cut}

IsWord(id) == Len(id) = 1 /\ IsPlain(id[1])

\* Words with which an argument meets the fixed segment of another route.
ReservedWords ==
  {"folders", "reorder", "retention", "export", "tombstones", "ca", "stream"}

\* Where automations.run("webhook") meets automations.trigger_webhook("run").
CrossedPath == <<"automations", "webhook", "run">>

\* No path matches both templates, unless it has a reserved word or is the crossed one.
ToldApart(a, b) ==
  \/ \E i \in DOMAIN a : {a[i], b[i]} \cap ReservedWords # {}
  \/ \E i \in DOMAIN a : a[i] # b[i] /\ {a[i], b[i]} \cap PathParams = {}
  \/ Len(a) = Len(CrossedPath) /\ \A i \in DOMAIN a : CrossedPath[i] \in {a[i], b[i]}

ASSUME PathsAssumption ==
  \A o \in Operations :
    /\ method(o).verb \in Methods
    /\ method(o).path \in Seq(STRING) \ {<<>>}
    /\ \A i \in DOMAIN method(o).path : IsPlain(method(o).path[i])

ASSUME RoutesAssumption ==
  \A o, other \in Operations :
    method(o).verb = method(other).verb /\ Len(method(o).path) = Len(method(other).path) =>
      o = other \/ ToldApart(method(o).path, method(other).path)

\* The methods whose parameters are not for a session and that take one nevertheless.
TakeAnyField ==
  {<<"file_manager", m>> :
     m \in {"set_trash_retention", "transfer_method_preview", "transfer_to_host"}}

ASSUME SessionsAssumption ==
  \A o \in Operations :
    /\ DeclaresSession(o) =>
         TakesParams(method(o)) /\ ":session_id" \notin Arguments(method(o))
    /\ o[1] \in SessionServiceNames /\ ~KnowsSession(o) =>
         (TakesParams(method(o)) <=> o \in TakeAnyField)

-----------------------------------------------------------------------------
(***************************************************************************)
(* Properties.                                                             *)
(***************************************************************************)
RequestTypeOK ==
  /\ phase \in {"idle", "sent", "answered", "listening", "done"}
  /\ phase # "idle" =>
       /\ call.op \in Operations
       /\ request.verb \in Methods
       /\ request.base \in ServiceUrls \cup {"base_url"}
       /\ DOMAIN request.payload \subseteq {"field", "sessionId"}
  /\ reached \subseteq Operations

Worded == \A p \in DOMAIN call.args : IsWord(call.args[p])

\* A request whose arguments are words reaches the route of its method, and no other but
\* where the order of the server's routes decides.
WordsReachTheirMethod ==
  phase \notin {"idle", "sent"} /\ Worded =>
    /\ call.op \in reached
    /\ reached # {call.op} =>
         \/ \E i \in DOMAIN request.path : request.path[i] \in ReservedWords
         \/ request.path = CrossedPath

\* What a DELETE may reach instead, with an empty name, dots, or a name that is cut.
OtherDeletes ==
  {<<"collab", "delete_control_request", "delete_room">>,
   <<"collab", "remove_member", "delete_room">>,
   <<"file_manager", "delete_trash_item", "empty_trash">>,
   <<"fleets", "remove_member", "delete">>,
   <<"rbac", "revoke_role", "delete_role">>,
   <<"snippets", "delete_folder", "delete">>,
   <<"termix_id", "delete_key", "delete">>}

DeletesNothingElse ==
  phase # "sent" /\ request.verb = "DELETE" =>
    \A o \in reached \ {call.op} : <<call.op[1], call.op[2], o[2]>> \in OtherDeletes

(***************************************************************************)
(* A request reaches the route of the method it was made with.  Arguments  *)
(* that are words always do, and reach nothing else unless one of seven    *)
(* words is in the path, or it is the one path on which two templates      *)
(* cross; then the order of the server's routes decides.                   *)
(* Other arguments may reach nothing or, since they are interpolated raw,  *)
(* another method; for a DELETE there are seven pairs of methods so        *)
(* connected and no other, among them delete_trash_item("") that empties   *)
(* the trash and delete_key("..") that deletes the whole identity.         *)
(***************************************************************************)
RoutedToItself == WordsReachTheirMethod /\ DeletesNothingElse

\* The session id a request carries, in its path or among its parameters.
SessionSent ==
  LET op == method(call.op)
  IN  IF ":session_id" \in Arguments(op)
      THEN {<<request.path[i]>> : i \in {k \in DOMAIN op.path : op.path[k] = ":session_id"}}
      ELSE {request.payload[f] : f \in DOMAIN request.payload \cap {"sessionId"}}

\* Through a handle, every method that knows a session gets exactly one id: the one the
\* caller passed, in the spelling the method has for it, or else the handle's.  (Where it
\* goes into the path, other arguments that are no words may displace it.)
HandleCarriesSession ==
  /\ phase # "idle" /\ call.via = "handle" /\ KnowsSession(call.op)
  /\ ":session_id" \in Arguments(method(call.op)) => Worded
  => SessionSent =
       IF ":session_id" \in DOMAIN call.args THEN {call.args[":session_id"]}
       ELSE IF "sessionId" \in DOMAIN call.params THEN {Theirs} ELSE {Own}

\* A handle adds a sessionId that the method does not declare to three requests, whose
\* **params are others; the methods of the trash and of transfers without **params get
\* none.  Called on the service, a method sends no session id of its own accord.
SessionOnlyWhereDeclared ==
  phase # "idle" =>
    /\ call.via = "client" => DOMAIN request.payload = DOMAIN call.params
    /\ call.via = "handle" /\ ~KnowsSession(call.op) =>
         (SessionSent # {} <=> call.op \in TakeAnyField)

=============================================================================
