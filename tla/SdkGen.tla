------------------------------- MODULE SdkGen -------------------------------
(***************************************************************************)
(* The SDK generator (tools/sdk-gen/generate.py), one run after another    *)
(* over the same working tree.  A run goes through the modules of the      *)
(* resource map and overwrites four files of each, rewrites the marked     *)
(* regions of the two clients and of the README, and has ruff format and   *)
(* check what it wrote.  It may be refused on the way by its input, and it *)
(* may be interrupted; a file being written then is left empty.            *)
(*                                                                         *)
(* tree maps each kind of file to its content: a function of the module    *)
(* name for the four kinds, a function of the class for the two clients.   *)
(* What a file contains is kept as far as another file depends on it.      *)
(***************************************************************************)
EXTENDS GeneratedOp, Integers, FiniteSetsExt

CONSTANTS
  Committed,    \* resource maps the tree may be generated from when it all begins
  Maps,         \* resource maps a developer may go on with
  LiveCalls,    \* the <<module, method>> pairs that tests/live calls
  MaxRuns,      \* runs of the generator (bound)
  MaxFailures   \* interruptions (bound)

\* A map is a JSON object: its modules have different names.
Entries == Seq([id : STRING, method : STRING, sse : BOOLEAN])
ResourceMaps == Seq([name : STRING, ops : Entries])

ASSUME MapsAssumption ==
  /\ Committed \cup Maps \subseteq ResourceMaps
  /\ \A m \in Committed \cup Maps :
       \A i, j \in DOMAIN m : m[i].name = m[j].name => i = j

\* The generator has accepted what it made the committed tree of.
ASSUME CommittedAssumption ==
  \A m \in Committed : \A i \in DOMAIN m : \A e \in ToSet(m[i].ops) : ~IsRefused(e)

ASSUME LiveCallsAssumption == IsFiniteSet(LiveCalls)

ASSUME BoundsAssumption == MaxRuns \in Nat /\ MaxFailures \in Nat

VARIABLES
  resource_map,   \* a sequence of modules with their entries
  ruff,           \* whether ruff is on the PATH
  tree,
  phase,          \* the file being written, or how the run ended
  at,             \* the module, or the region of a client, it is written for
  runs, failures,
  torn,           \* history: modules that a run that stopped left half written
  half_wired      \* history: whether a run that stopped left the clients so

vars == <<resource_map, ruff, tree, phase, at, runs, failures, torn, half_wired>>

Kinds == {"models", "types", "resources", "tests"}
Clients == {"_client.py", "_async_client.py"}

\* Faulty variant of Regions: the asynchronous client is forgotten.
SyncRegions == <<<<"_client.py", "imports">>, <<"_client.py", "attributes">>>>

\* What wire_client rewrites, in its order.
Regions == <<<<"_client.py", "imports">>, <<"_client.py", "attributes">>,
             <<"_async_client.py", "imports">>, <<"_async_client.py", "attributes">>>>

ModuleNames == {resource_map[i].name : i \in DOMAIN resource_map}
generated_ops(i) == build_generated_ops(resource_map[i].ops)

\* Functions with one more, or another, value.
With(f, x, y) == [z \in DOMAIN f \cup {x} |-> IF z = x THEN y ELSE f[z]]

-----------------------------------------------------------------------------
(***************************************************************************)
(* The content of the files.                                               *)
(***************************************************************************)
models_module(gs) == UNION {emit_model_class(gs[i]) : i \in DOMAIN gs}

types_module(gs) ==
  LET typed == {i \in DOMAIN gs : has_params(gs[i]) /\ typed_fields(gs[i]) # {}}
  IN  {<<params_class_name(gs[i]), typed_fields(gs[i])>> : i \in typed}

\* Both classes, TermixService and AsyncTermixService, get the same methods.
resources_module(gs) ==
  [service |-> IF gs = <<>> THEN "database" ELSE gs[1].op.service,
   models |-> UNION {ModelImported(gs[i]) : i \in DOMAIN gs},
   types |-> {params_class_name(gs[i]) : i \in {k \in DOMAIN gs : has_params(gs[k])}},
   methods |-> [i \in DOMAIN gs |-> emit_method(gs[i])]]

contract_test_module(gs) == [i \in DOMAIN gs |-> emit_contract_test(gs[i])]

Content(kind, gs) ==
  IF kind = "models" THEN models_module(gs)
  ELSE IF kind = "types" THEN types_module(gs)
  ELSE IF kind = "resources" THEN resources_module(gs) ELSE contract_test_module(gs)

\* A file of which nothing was written.
Nothing(kind) ==
  CASE kind \in {"models", "types"} -> {}
    [] kind = "resources" -> [service |-> "", models |-> {}, types |-> {}, methods |-> <<>>]
    [] kind = "tests"     -> <<>>

\* Faulty variant of routes: the names are those of the naming rule.
routes_by_rule ==
  UNION {{[module |-> resource_map[i].name,
           name |-> default_method_name(g.op.verb, g.op.path),
           verb |-> g.op.verb, path |-> g.op.path,
           live |-> <<resource_map[i].name, g.name>> \in LiveCalls] :
          g \in ToSet(generated_ops(i))} : i \in DOMAIN resource_map}

\* The rows of the README's table.
routes ==
  UNION {{[module |-> resource_map[i].name, name |-> g.name,
           verb |-> g.op.verb, path |-> g.op.path,
           live |-> <<resource_map[i].name, g.name>> \in LiveCalls] :
          g \in ToSet(generated_ops(i))} : i \in DOMAIN resource_map}

routes_section ==
  [rows |-> routes,
   covered |-> Cardinality(UNION {{e.id : e \in ToSet(resource_map[i].ops)} :
                                  i \in DOMAIN resource_map}),
   live_tested |-> Cardinality({c \in LiveCalls : c[1] \in ModuleNames}),
   marked |-> TRUE]

-----------------------------------------------------------------------------
(***************************************************************************)
(* A run.                                                                  *)
(***************************************************************************)
\* The tree that the map stands for.
GeneratedTree ==
  LET File(kind) ==
        [n \in ModuleNames |->
           Content(kind, generated_ops(CHOOSE i \in DOMAIN resource_map :
                                         resource_map[i].name = n))]
      client == [imports |-> ModuleNames, attributes |-> ModuleNames, marked |-> TRUE]
  IN  [models |-> File("models"), types |-> File("types"), resources |-> File("resources"),
       tests |-> File("tests"), clients |-> [c \in Clients |-> client],
       readme |-> routes_section]

Init ==
  /\ resource_map \in Committed
  /\ ruff \in BOOLEAN
  /\ tree = GeneratedTree
  /\ phase = "committed" /\ at = 1
  /\ runs = 0 /\ failures = 0 /\ torn = {} /\ half_wired = FALSE

Ended ==
  {"committed", "done", "failed", "KeyError", "ValueError", "NotImplementedError",
   "CalledProcessError"}

\* main(), after the map was edited or not.
Start ==
  /\ phase \in Ended /\ runs < MaxRuns
  /\ runs' = runs + 1
  /\ resource_map' \in Maps
  /\ phase' = "build" /\ at' = 1
  /\ UNCHANGED <<ruff, tree, failures, torn, half_wired>>

\* The loop of main() over the modules; after the last of them the clients are wired.
Build ==
  /\ phase = "build" /\ at \in DOMAIN resource_map
  /\ LET entries == ToSet(resource_map[at].ops)
     IN  \/ /\ \A e \in entries : ~IsRefused(e)
            /\ phase' = "models"
         \/ /\ \E e \in entries : e.id \notin DOMAIN operations
            /\ phase' = "KeyError"
         \/ /\ \E e \in entries : e.id \in DOMAIN operations /\ IsRefused(e)
            /\ phase' = "ValueError"
  /\ UNCHANGED <<resource_map, ruff, tree, at, runs, failures, torn, half_wired>>

BuildEnds ==
  /\ phase = "build" /\ at \notin DOMAIN resource_map
  /\ phase' = "clients" /\ at' = 1
  /\ UNCHANGED <<resource_map, ruff, tree, runs, failures, torn, half_wired>>

Written(kind) ==
  [tree EXCEPT ![kind] =
     With(@, resource_map[at].name, Content(kind, generated_ops(at)))]

WriteModels ==
  /\ phase = "models"
  /\ tree' = Written("models")
  /\ phase' = "types"
  /\ UNCHANGED <<resource_map, ruff, at, runs, failures, torn, half_wired>>

\* Faulty variant of WriteTypes: a module without parameters keeps its old file.
WriteTypesIfAny ==
  /\ phase = "types"
  /\ \A g \in ToSet(generated_ops(at)) : g.op.body # "multipart"
  /\ tree' = IF types_module(generated_ops(at)) = {} THEN tree ELSE Written("types")
  /\ phase' = "resources"
  /\ UNCHANGED <<resource_map, ruff, at, runs, failures, torn, half_wired>>

\* The body of an operation is first looked at here.
WriteTypes ==
  /\ phase = "types"
  /\ \A g \in ToSet(generated_ops(at)) : g.op.body # "multipart"
  /\ tree' = Written("types")
  /\ phase' = "resources"
  /\ UNCHANGED <<resource_map, ruff, at, runs, failures, torn, half_wired>>

RefuseBody ==
  /\ phase = "types"
  /\ \E g \in ToSet(generated_ops(at)) : g.op.body = "multipart"
  /\ phase' = "NotImplementedError"
  /\ torn' = torn \cup {resource_map[at].name}
  /\ UNCHANGED <<resource_map, ruff, tree, at, runs, failures, half_wired>>

WriteResources ==
  /\ phase = "resources"
  /\ tree' = Written("resources")
  /\ phase' = "tests"
  /\ torn' = torn \ {resource_map[at].name}
  /\ UNCHANGED <<resource_map, ruff, at, runs, failures, half_wired>>

\* Faulty variant of WriteContractTests: the next module is written unseen.
WriteContractTestsAndGoOn ==
  /\ phase = "tests"
  /\ tree' = Written("tests")
  /\ phase' = "models" /\ at' = at + 1
  /\ UNCHANGED <<resource_map, ruff, runs, failures, torn, half_wired>>

\* Faulty variant of WriteContractTests: the clients are wired inside the loop.
WriteContractTestsAndWire ==
  /\ phase = "tests"
  /\ tree' = Written("tests")
  /\ phase' = "clients" /\ at' = 1
  /\ UNCHANGED <<resource_map, ruff, runs, failures, torn, half_wired>>

WriteContractTests ==
  /\ phase = "tests"
  /\ tree' = Written("tests")
  /\ phase' = "build" /\ at' = at + 1
  /\ UNCHANGED <<resource_map, ruff, runs, failures, torn, half_wired>>

\* rewrite_region, on a file whose markers are still there.
WireClient ==
  /\ phase = "clients"
  /\ LET file == Regions[at][1]
         region == Regions[at][2]
     IN  /\ tree.clients[file].marked
         /\ tree' = [tree EXCEPT !.clients[file][region] = ModuleNames]
  /\ IF at < Len(Regions) THEN at' = at + 1 /\ UNCHANGED <<phase, half_wired>>
     ELSE at' = 1 /\ phase' = "readme" /\ half_wired' = FALSE
  /\ UNCHANGED <<resource_map, ruff, runs, failures, torn>>

WriteReadme ==
  /\ phase = "readme" /\ tree.readme.marked
  /\ tree' = [tree EXCEPT !.readme = routes_section]
  /\ phase' = "ruff"
  /\ UNCHANGED <<resource_map, ruff, at, runs, failures, torn, half_wired>>

MarkersLost ==
  /\ \/ phase = "clients" /\ ~tree.clients[Regions[at][1]].marked
     \/ phase = "readme" /\ ~tree.readme.marked
  /\ phase' = "ValueError"
  /\ half_wired' = (half_wired \/ phase = "clients")
  /\ UNCHANGED <<resource_map, ruff, tree, at, runs, failures, torn>>

-----------------------------------------------------------------------------
(***************************************************************************)
(* ruff (external): of what it checks, that files parse, that names are    *)
(* defined (F821) and that none is defined twice in a scope (F811).        *)
(***************************************************************************)
Parses(n) == \A t \in tree.types[n] : t[2] \cap Keywords = {}

DefinesNamesOnce(n) ==
  LET ms == tree.resources[n].methods
  IN  \A i, j \in DOMAIN ms : ms[i].name = ms[j].name => i = j

RuffAccepts(n) ==
  /\ Parses(n)
  /\ DefinesNamesOnce(n)
  /\ \A i \in DOMAIN tree.resources[n].methods :
       tree.resources[n].methods[i].uses \subseteq tree.resources[n].models

\* format_generated_files: nothing happens without ruff, and any failure of it ends the run.
Format ==
  /\ phase = "ruff"
  /\ phase' = IF ruff => \A n \in ModuleNames : RuffAccepts(n)
              THEN "done" ELSE "CalledProcessError"
  /\ UNCHANGED <<resource_map, ruff, tree, at, runs, failures, torn, half_wired>>

-----------------------------------------------------------------------------
(***************************************************************************)
(* A run is killed, or the disk is full, before a step or in it.           *)
(***************************************************************************)
Truncated ==
  IF phase \in Kinds THEN [tree EXCEPT ![phase] =
                            With(@, resource_map[at].name, Nothing(phase))]
  ELSE IF phase = "clients" THEN [tree EXCEPT !.clients[Regions[at][1]] =
                                   [imports |-> {}, attributes |-> {}, marked |-> FALSE]]
  ELSE IF phase = "readme" THEN [tree EXCEPT !.readme =
                                  [rows |-> {}, covered |-> 0, live_tested |-> 0,
                                   marked |-> FALSE]]
  ELSE tree

Interrupt ==
  /\ phase \notin Ended /\ failures < MaxFailures
  /\ failures' = failures + 1
  /\ tree' \in {tree, Truncated}
  /\ torn' = IF phase \in {"types", "resources"} \/ (phase = "models" /\ tree' # tree)
             THEN torn \cup {resource_map[at].name} ELSE torn
  /\ half_wired' = (half_wired \/ (phase = "clients" /\ (at > 1 \/ tree' # tree)))
  /\ phase' = "failed"
  /\ UNCHANGED <<resource_map, ruff, at, runs>>

Terminated == phase \in Ended /\ runs = MaxRuns /\ UNCHANGED vars

Next ==
  \/ Start \/ Build \/ BuildEnds
  \/ WriteModels \/ WriteTypes \/ RefuseBody \/ WriteResources \/ WriteContractTests
  \/ WireClient \/ WriteReadme \/ MarkersLost \/ Format \/ Interrupt \/ Terminated

Spec == Init /\ [][Next]_vars

-----------------------------------------------------------------------------
(***************************************************************************)
(* Properties.                                                             *)
(***************************************************************************)
\* Every variable has its type.
TypeOK ==
  /\ resource_map \in Committed \cup Maps
  /\ phase \in Ended \cup Kinds \cup {"build", "clients", "readme", "ruff"}
  /\ phase \in Kinds => at \in DOMAIN resource_map
  /\ phase = "clients" => at \in DOMAIN Regions
  /\ \A kind \in Kinds : ModuleNames \subseteq DOMAIN tree[kind] \/ phase # "done"
  /\ DOMAIN tree.clients = Clients
  /\ runs \in 0..MaxRuns /\ failures \in 0..MaxFailures

\* A params class that nobody writes: its body is JSON without properties.
Untyped(n, class) ==
  \E m \in ToSet(tree.resources[n].methods) :
    /\ class = <<m.name, "Params">>
    /\ \E id \in DOMAIN operations :
         /\ operations[id].verb = m.verb /\ operations[id].path = m.path
         /\ operations[id].body = "opaque" /\ operations[id].query = {}

TypesDefine(n) == {t[1] : t \in tree.types[n]}

\* However a run ends, each resources module finds in its models and types modules the
\* names it imports, and the two clients have the same attributes, all imported, of
\* modules that exist.  Excepted is what a run stopped in the middle of, as long as no
\* other run has come past it, and the class of parameters that have no names.
EndsConsistent ==
  phase \in Ended =>
    /\ \A n \in DOMAIN tree.resources \ torn :
         /\ tree.resources[n].models \subseteq tree.models[n]
         /\ \A c \in tree.resources[n].types \ TypesDefine(n) : Untyped(n, c)
    /\ ~half_wired =>
         \A c \in Clients :
           /\ tree.clients[c].attributes = tree.clients["_client.py"].attributes
           /\ tree.clients[c].attributes = tree.clients[c].imports
           /\ tree.clients[c].imports \subseteq DOMAIN tree.resources

\* A run that touches a client has written the files of every module of the map: a map
\* that is refused, at whatever module, leaves the clients as they were.
ClientsWiredLast ==
  [][tree'.clients # tree.clients =>
       \A kind \in Kinds, n \in ModuleNames :
         /\ n \in DOMAIN tree[kind]
         /\ tree[kind][n] = GeneratedTree[kind][n]]_vars

\* A run that is not stopped leaves what the map stands for, whatever earlier runs over
\* other maps left, the interrupted ones included: nothing stale is in a file of the
\* map, and no client or README without its markers passes for a generated one.
Converges ==
  phase = "done" =>
    /\ \A kind \in Kinds, n \in ModuleNames : tree[kind][n] = GeneratedTree[kind][n]
    /\ tree.clients = GeneratedTree.clients
    /\ tree.readme = GeneratedTree.readme

-----------------------------------------------------------------------------
\* In a Python namespace the last definition of a name counts.
LastNamed(seq, name) == seq[Max({i \in DOMAIN seq : seq[i].name = name})]

TestsPass ==
  \A n \in ModuleNames :
    LET tests == tree.tests[n]
        r == tree.resources[n]
    IN  /\ Parses(n)
        /\ r.models \subseteq tree.models[n] /\ r.types \subseteq TypesDefine(n)
        /\ \A i \in DOMAIN tests :
             Passes(LastNamed(tests, tests[i].name), LastNamed(r.methods, tests[i].name),
                    r.models)

\* The method does what the document and the map say of the operation: the request, the
\* place of every parameter in whatever combination, the kind of result.
Faithful(m, g) ==
  /\ m.verb = g.op.verb /\ m.path = g.op.path
  /\ \A keywords \in SUBSET (g.op.query \cup g.op.fields) :
       /\ Accepts(m, keywords)
       /\ Sent(m, keywords) =
            [query |-> keywords \cap g.op.query, json |-> keywords \cap g.op.fields]
  /\ m.result = IF g.sse THEN "events"
                ELSE IF g.op.response = "text" THEN "stream" ELSE return_type(g.op)

SharesName(i, g) ==
  Cardinality({k \in DOMAIN resource_map[i].ops : generated_ops(i)[k].name = g.name}) > 1

\* What the generator's checks are worth: when a run is done and the contract tests it
\* wrote pass, the method of every operation does what the document says, although one
\* operation may hide another of its module where ruff did not run: methods of one name
\* have contract tests of one name too.
TestedMeansFaithful ==
  phase = "done" /\ TestsPass =>
    \A i \in DOMAIN resource_map : \A g \in ToSet(generated_ops(i)) :
      \/ Faithful(LastNamed(tree.resources[resource_map[i].name].methods, g.name), g)
      \/ ~ruff /\ SharesName(i, g)

\* The README lists calls that exist and request what it says they do, unless two share
\* a name and ruff did not run.  It counts more live-tested calls than it marks exactly
\* by those whose method is gone from a module that is still there.
ReadmeListsWhatExists ==
  phase = "done" =>
    /\ \A row \in tree.readme.rows :
         LET ms == tree.resources[row.module].methods
         IN  \E i \in DOMAIN ms :
               /\ ms[i].name = row.name /\ ms[i].verb = row.verb /\ ms[i].path = row.path
               /\ ruff => ms[i] = LastNamed(ms, row.name)
    /\ ruff =>
         tree.readme.live_tested =
           Cardinality({row \in tree.readme.rows : row.live}) +
           Cardinality({c \in LiveCalls : /\ c[1] \in ModuleNames
                                          /\ \A row \in tree.readme.rows :
                                               c # <<row.module, row.name>>})

=============================================================================
