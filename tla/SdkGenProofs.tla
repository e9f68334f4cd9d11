---------------------------- MODULE SdkGenProofs ----------------------------
(***************************************************************************)
(* Theorems about SdkGen, for every document, all resource maps and any    *)
(* number of runs, refused, interrupted or not: how far a run has come,    *)
(* and what the generated files say of each other.                         *)
(***************************************************************************)
EXTENDS SdkGen, FiniteSetTheorems, TLAPS

-----------------------------------------------------------------------------
(***************************************************************************)
(* The inductive invariant.                                                *)
(***************************************************************************)
MapKnown == resource_map \in Committed \cup Maps

\* Where a run stands.
Position ==
  /\ phase \in Ended \cup Kinds \cup {"build", "clients", "readme", "ruff"}
  /\ phase \in Kinds => at \in DOMAIN resource_map
  /\ phase = "build" => at \in 1..Len(resource_map) + 1
  /\ phase = "clients" => at \in 1..4
  /\ runs \in 0..MaxRuns /\ failures \in 0..MaxFailures

\* The tree has its files, and each client its two regions.
TreeShape ==
  /\ tree = [models |-> tree.models, types |-> tree.types, resources |-> tree.resources,
             tests |-> tree.tests, clients |-> tree.clients, readme |-> tree.readme]
  /\ tree.clients = [c \in Clients |-> tree.clients[c]]
  /\ \A c \in Clients :
       /\ tree.clients[c] = [imports |-> tree.clients[c].imports,
                             attributes |-> tree.clients[c].attributes,
                             marked |-> tree.clients[c].marked]
       /\ tree.clients[c].marked \in BOOLEAN

\* A file of module i is what the map stands for.
FileIs(kind, i) ==
  /\ resource_map[i].name \in DOMAIN tree[kind]
  /\ tree[kind][resource_map[i].name] = Content(kind, generated_ops(i))

AllFiles == \A kind \in Kinds, i \in DOMAIN resource_map : FileIs(kind, i)

\* The files of the modules before the present one, and some of this one's.
FilesWritten ==
  /\ phase \in Kinds \cup {"build"} =>
       \A kind \in Kinds, i \in DOMAIN resource_map : i < at => FileIs(kind, i)
  /\ phase \in {"types", "resources", "tests"} => FileIs("models", at)
  /\ phase \in {"resources", "tests"} => FileIs("types", at)
  /\ phase = "tests" => FileIs("resources", at)
  /\ phase \in {"clients", "readme", "ruff", "done"} => AllFiles

\* A region was rewritten, in a file that has its markers.
Wired(j) ==
  /\ tree.clients[Regions[j][1]].marked
  /\ tree.clients[Regions[j][1]][Regions[j][2]] = ModuleNames

RegionsWritten ==
  /\ phase = "clients" => \A j \in 1..4 : j < at => Wired(j)
  /\ phase \in {"readme", "ruff", "done"} => \A j \in 1..4 : Wired(j)

ReadmeWritten == phase \in {"ruff", "done"} => tree.readme = routes_section

IInv == MapKnown /\ Position /\ TreeShape /\ FilesWritten /\ RegionsWritten /\ ReadmeWritten

-----------------------------------------------------------------------------
(***************************************************************************)
(* The map and the tree.                                                   *)
(***************************************************************************)
\* A map is a sequence of modules, each of its own name.
LEMMA MapFacts ==
  ASSUME MapKnown
  PROVE  /\ Len(resource_map) \in Nat /\ DOMAIN resource_map = 1..Len(resource_map)
         /\ \A i, j \in DOMAIN resource_map :
              resource_map[i].name = resource_map[j].name => i = j
BY MapsAssumption DEF MapKnown, ResourceMaps

\* The four regions, two of each client.
LEMMA RegionFacts ==
  /\ Len(Regions) = 4
  /\ Regions[1] = <<"_client.py", "imports">> /\ Regions[2] = <<"_client.py", "attributes">>
  /\ Regions[3] = <<"_async_client.py", "imports">>
  /\ Regions[4] = <<"_async_client.py", "attributes">>
BY DEF Regions

\* Writing one file of one module leaves everything else as it was.
LEMMA WrittenFacts ==
  ASSUME TreeShape, MapKnown, NEW kind \in Kinds, NEW m \in DOMAIN resource_map, m = at,
         tree' = Written(kind), UNCHANGED resource_map
  PROVE  /\ TreeShape'
         /\ tree'.clients = tree.clients /\ tree'.readme = tree.readme
         /\ FileIs(kind, m)'
         /\ \A k \in Kinds, i \in DOMAIN resource_map :
              FileIs(k, i) /\ (k # kind \/ i # m) => FileIs(k, i)'
<1> DEFINE new == With(tree[kind], resource_map[m].name, Content(kind, generated_ops(m)))
<1>1. tree' = [tree EXCEPT ![kind] = new]
  BY DEF Written
<1> HIDE DEF new
<1>2. TreeShape'
  BY <1>1 DEF TreeShape, Kinds
<1>3. /\ tree'[kind] = new /\ \A k \in Kinds \ {kind} : tree'[k] = tree[k]
      /\ tree'.clients = tree.clients /\ tree'.readme = tree.readme
  BY <1>1 DEF TreeShape, Kinds
<1>4. /\ DOMAIN new = DOMAIN tree[kind] \cup {resource_map[m].name}
      /\ new[resource_map[m].name] = Content(kind, generated_ops(m))
      /\ \A n \in DOMAIN tree[kind] : n # resource_map[m].name => new[n] = tree[kind][n]
  BY DEF new, With
<1>5. \A i \in DOMAIN resource_map, k \in Kinds :
        Content(k, generated_ops(i))' = Content(k, generated_ops(i))
  BY DEF Content, generated_ops
<1>6. FileIs(kind, m)'
  BY <1>3, <1>4, <1>5 DEF FileIs
<1>7. ASSUME NEW k \in Kinds, NEW i \in DOMAIN resource_map, FileIs(k, i), k # kind \/ i # m
      PROVE  FileIs(k, i)'
  <2>1. CASE k # kind
    BY <1>3, <1>5, <1>7, <2>1 DEF FileIs
  <2>2. CASE k = kind /\ i # m
    BY <1>3, <1>4, <1>5, <1>7, <2>2, MapFacts DEF FileIs
  <2> QED BY <1>7, <2>1, <2>2
<1> QED BY <1>2, <1>3, <1>6, <1>7

\* Rewriting one of the regions of a client.
LEMMA ClientRecord ==
  ASSUME NEW old, NEW new, NEW region \in {"imports", "attributes"}, NEW value,
         old = [imports |-> old.imports, attributes |-> old.attributes, marked |-> old.marked],
         new = [old EXCEPT ![region] = value]
  PROVE  /\ new = [imports |-> new.imports, attributes |-> new.attributes,
                   marked |-> new.marked]
         /\ new.marked = old.marked
         /\ new[region] = value
         /\ \A r \in {"imports", "attributes"} : r # region => new[r] = old[r]
<1>1. DOMAIN old = {"imports", "attributes", "marked"}
  OBVIOUS
<1>2. /\ DOMAIN new = DOMAIN old /\ new = [z \in DOMAIN new |-> new[z]]
      /\ new.marked = old.marked /\ new[region] = value
      /\ \A r \in {"imports", "attributes"} : r # region => new[r] = old[r]
  BY <1>1
<1> QED BY <1>1, <1>2

\* The clients after region j was rewritten.
Rewired(j) ==
  [tree.clients EXCEPT ![Regions[j][1]] = [@ EXCEPT ![Regions[j][2]] = ModuleNames]]

\* clients differ from those of the tree in region j only.
RegionRewritten(clients, j) ==
  LET file == Regions[j][1]
      region == Regions[j][2]
  IN  /\ clients = [c \in Clients |-> clients[c]]
      /\ \A c \in Clients \ {file} : clients[c] = tree.clients[c]
      /\ clients[file] = [imports |-> clients[file].imports,
                          attributes |-> clients[file].attributes,
                          marked |-> clients[file].marked]
      /\ clients[file].marked = tree.clients[file].marked
      /\ clients[file][region] = ModuleNames
      /\ \A r \in {"imports", "attributes"} :
           r # region => clients[file][r] = tree.clients[file][r]

\* Rewriting one region of one client leaves the rest of the clients as it was.
LEMMA RewiredFacts ==
  ASSUME TreeShape, NEW m \in 1..4, NEW clients, clients = Rewired(m)
  PROVE  RegionRewritten(clients, m)
<1> DEFINE file == Regions[m][1]
           region == Regions[m][2]
           old == tree.clients[file]
           new == [old EXCEPT ![region] = ModuleNames]
<1>1. /\ file \in Clients /\ region \in {"imports", "attributes"}
      /\ old = [imports |-> old.imports, attributes |-> old.attributes, marked |-> old.marked]
  BY RegionFacts DEF Clients, TreeShape
<1>2. clients = [tree.clients EXCEPT ![file] = new] /\ old = tree.clients[file]
  BY DEF Rewired
<1> HIDE DEF old, file, region
<1>3. /\ new = [imports |-> new.imports, attributes |-> new.attributes, marked |-> new.marked]
      /\ new.marked = old.marked
      /\ new[region] = ModuleNames
      /\ \A r \in {"imports", "attributes"} : r # region => new[r] = old[r]
  BY <1>1, ClientRecord
<1> HIDE DEF new
<1>4. /\ clients[file] = new
      /\ \A c \in Clients \ {file} : clients[c] = tree.clients[c]
      /\ clients = [c \in Clients |-> clients[c]]
  BY <1>1, <1>2 DEF TreeShape
<1> QED BY <1>2, <1>3, <1>4 DEF RegionRewritten, file, region

\* Replacing the clients leaves the rest of the tree as it was.
LEMMA ClientsReplaced ==
  ASSUME TreeShape, NEW clients, tree' = [tree EXCEPT !.clients = clients]
  PROVE  /\ tree'.clients = clients
         /\ \A kind \in Kinds : tree'[kind] = tree[kind]
         /\ tree' = [models |-> tree'.models, types |-> tree'.types,
                     resources |-> tree'.resources, tests |-> tree'.tests,
                     clients |-> tree'.clients, readme |-> tree'.readme]
BY DEF TreeShape, Kinds

\* Rewriting one region keeps the others.
LEMMA WireFacts ==
  ASSUME TreeShape, NEW m \in 1..4, UNCHANGED resource_map,
         tree.clients[Regions[m][1]].marked,
         NEW clients, clients = Rewired(m), tree'.clients = clients,
         tree' = [models |-> tree'.models, types |-> tree'.types,
                  resources |-> tree'.resources, tests |-> tree'.tests,
                  clients |-> tree'.clients, readme |-> tree'.readme]
  PROVE  /\ TreeShape' /\ Wired(m)'
         /\ \A j \in 1..4 : Wired(j) => Wired(j)'
<1> DEFINE file == Regions[m][1]
           region == Regions[m][2]
<1>1. UNCHANGED ModuleNames
  BY DEF ModuleNames
<1>2. /\ clients = [c \in Clients |-> clients[c]]
      /\ \A c \in Clients \ {file} : clients[c] = tree.clients[c]
      /\ clients[file] = [imports |-> clients[file].imports,
                          attributes |-> clients[file].attributes,
                          marked |-> clients[file].marked]
      /\ clients[file].marked = tree.clients[file].marked
      /\ clients[file][region] = ModuleNames
      /\ \A r \in {"imports", "attributes"} :
           r # region => clients[file][r] = tree.clients[file][r]
  BY RewiredFacts DEF RegionRewritten
<1>3. clients = tree'.clients
  OBVIOUS
<1>4. \A j \in 1..4 : Regions[j][1] \in Clients /\ Regions[j][2] \in {"imports", "attributes"}
  BY RegionFacts DEF Clients
<1>5. file \in Clients /\ tree.clients[file].marked /\ tree.clients[file].marked \in BOOLEAN
  BY <1>4 DEF TreeShape
<1> HIDE DEF file, region
<1>6. TreeShape'
  <2>1. \A c \in Clients :
          /\ clients[c] = [imports |-> clients[c].imports,
                           attributes |-> clients[c].attributes,
                           marked |-> clients[c].marked]
          /\ clients[c].marked \in BOOLEAN
    <3> TAKE c \in Clients
    <3>1. CASE c = file
      BY <1>2, <1>5, <3>1
    <3>2. CASE c # file
      BY <1>2, <3>2 DEF TreeShape
    <3> QED BY <3>1, <3>2
  <2> QED BY <1>2, <1>3, <2>1 DEF TreeShape
<1>7. Wired(m)'
  BY <1>1, <1>2, <1>3, <1>5 DEF Wired, file, region
<1>8. ASSUME NEW j \in 1..4, Wired(j) PROVE Wired(j)'
  <2>1. CASE Regions[j][1] # file
    BY <1>1, <1>2, <1>3, <1>4, <1>8, <2>1 DEF Wired
  <2>2. CASE Regions[j][1] = file
    BY <1>1, <1>2, <1>3, <1>4, <1>5, <1>8, <2>2, ZenonT(40) DEF Wired
  <2> QED BY <2>1, <2>2
<1> QED BY <1>6, <1>7, <1>8

\* The files of all modules depend on the tree and the map alone.
LEMMA FilesStay ==
  ASSUME NEW kind \in Kinds, tree'[kind] = tree[kind], UNCHANGED resource_map
  PROVE  \A i \in DOMAIN resource_map : FileIs(kind, i) => FileIs(kind, i)'
BY DEF FileIs, Content, generated_ops

\* The regions depend on the clients and the map alone.
LEMMA RegionsStay ==
  ASSUME tree'.clients = tree.clients, UNCHANGED resource_map
  PROVE  \A j \in 1..4 : Wired(j) => Wired(j)'
BY DEF Wired, ModuleNames

-----------------------------------------------------------------------------
(***************************************************************************)
(* The steps.                                                              *)
(***************************************************************************)
\* The tree of a committed map has its shape.
LEMMA InitEstablishes == Init => IInv
<1> SUFFICES ASSUME Init PROVE IInv
  OBVIOUS
<1>1. TreeShape
  BY DEF Init, GeneratedTree, TreeShape
<1>2. Position
  BY BoundsAssumption DEF Init, Position, Ended, Kinds
<1> QED BY <1>1, <1>2
    DEF Init, IInv, MapKnown, FilesWritten, RegionsWritten, ReadmeWritten, Kinds

\* A run starts with nothing written.
LEMMA StartStep == IInv /\ Start => IInv'
<1> SUFFICES ASSUME IInv, Start PROVE IInv'
  OBVIOUS
<1>1. MapKnown' /\ phase' = "build" /\ at' = 1 /\ tree' = tree
  BY DEF Start, MapKnown
<1>2. Len(resource_map') \in Nat /\ DOMAIN resource_map' = 1..Len(resource_map')
  BY <1>1, MapsAssumption DEF MapKnown, ResourceMaps
<1>3. Position'
  BY <1>1, <1>2, BoundsAssumption DEF IInv, Position, Start, Kinds, Ended
<1>4. TreeShape'
  BY <1>1 DEF IInv, TreeShape
<1>5. FilesWritten'
  BY <1>1, <1>2 DEF FilesWritten, Kinds
<1> QED BY <1>1, <1>3, <1>4, <1>5 DEF IInv, RegionsWritten, ReadmeWritten

\* A step that ends the run early, whatever it does to the content of the tree.
LEMMA StopStep ==
  ASSUME IInv, phase' \in Ended \ {"done"}, UNCHANGED <<resource_map, runs>>,
         failures' \in 0..MaxFailures, TreeShape'
  PROVE  IInv'
<1>1. MapKnown' /\ Position'
  BY DEF IInv, MapKnown, Position, Ended, Kinds
<1>2. FilesWritten' /\ RegionsWritten' /\ ReadmeWritten'
  BY DEF FilesWritten, RegionsWritten, ReadmeWritten, Ended, Kinds
<1> QED BY <1>1, <1>2 DEF IInv

\* The map is refused, or the files of its next module are due.
LEMMA BuildStep == IInv /\ Build => IInv'
<1> SUFFICES ASSUME IInv, Build PROVE IInv'
  OBVIOUS
<1>1. UNCHANGED <<resource_map, tree, at, runs, failures>> /\ at \in DOMAIN resource_map
  BY DEF Build
<1>2. TreeShape' /\ failures' \in 0..MaxFailures
  BY <1>1 DEF IInv, TreeShape, Position
<1>3. CASE phase' = "models"
  <2>1. MapKnown' /\ Position'
    BY <1>1, <1>3 DEF IInv, MapKnown, Position, Kinds
  <2>2. FilesWritten'
    BY <1>1, <1>3, FilesStay DEF IInv, FilesWritten, Kinds, Build
  <2> QED BY <1>2, <1>3, <2>1, <2>2 DEF IInv, RegionsWritten, ReadmeWritten
<1>4. CASE phase' \in {"KeyError", "ValueError"}
  BY <1>1, <1>2, <1>4, StopStep DEF Ended
<1> QED BY <1>3, <1>4 DEF Build

\* After the last module all files are written.
LEMMA BuildEndsStep == IInv /\ BuildEnds => IInv'
<1> SUFFICES ASSUME IInv, BuildEnds PROVE IInv'
  OBVIOUS
<1>1. /\ UNCHANGED <<resource_map, tree, runs, failures>>
      /\ phase = "build" /\ phase' = "clients" /\ at' = 1
  BY DEF BuildEnds
<1>2. \A i \in DOMAIN resource_map : i < at
  BY <1>1, MapFacts DEF IInv, Position, BuildEnds
<1>3. AllFiles
  BY <1>1, <1>2 DEF IInv, FilesWritten, AllFiles
<1>4. FilesWritten'
  BY <1>1, <1>3, FilesStay DEF FilesWritten, AllFiles, Kinds
<1>5. MapKnown' /\ Position' /\ TreeShape' /\ RegionsWritten' /\ ReadmeWritten'
  BY <1>1 DEF IInv, MapKnown, Position, TreeShape, RegionsWritten, ReadmeWritten, Kinds, Ended
<1> QED BY <1>4, <1>5 DEF IInv

\* One file of the present module is written, and the next is due.
LEMMA WriteStep == IInv /\ (WriteModels \/ WriteTypes \/ WriteResources) => IInv'
<1> SUFFICES ASSUME IInv, WriteModels \/ WriteTypes \/ WriteResources PROVE IInv'
  OBVIOUS
<1> DEFINE next(kind) == IF kind = "models" THEN "types"
                         ELSE IF kind = "types" THEN "resources" ELSE "tests"
<1>1. PICK kind \in {"models", "types", "resources"} :
        /\ phase = kind /\ phase' = next(kind) /\ tree' = Written(kind)
        /\ UNCHANGED <<resource_map, at, runs, failures>>
  BY DEF WriteModels, WriteTypes, WriteResources
<1>2. PICK m \in DOMAIN resource_map : m = at
  BY <1>1 DEF IInv, Position, Kinds
<1>3. kind \in Kinds /\ "models" \in Kinds /\ "types" \in Kinds /\ "resources" \in Kinds
  BY <1>1 DEF Kinds
<1>4. /\ TreeShape' /\ FileIs(kind, m)' /\ tree'.clients = tree.clients
      /\ \A k \in Kinds, i \in DOMAIN resource_map :
           FileIs(k, i) /\ (k # kind \/ i # m) => FileIs(k, i)'
  BY <1>1, <1>2, <1>3, WrittenFacts DEF IInv
<1>5. FilesWritten'
  <2>1. \A k \in Kinds, i \in DOMAIN resource_map : i < at => FileIs(k, i)'
    BY <1>1, <1>2, <1>3, <1>4, MapFacts DEF IInv, FilesWritten
  <2>2. CASE kind = "models"
    BY <1>1, <1>2, <1>4, <2>1, <2>2 DEF FilesWritten, Kinds
  <2>3. CASE kind = "types"
    BY <1>1, <1>2, <1>3, <1>4, <2>1, <2>3 DEF IInv, FilesWritten, Kinds
  <2>4. CASE kind = "resources"
    BY <1>1, <1>2, <1>3, <1>4, <2>1, <2>4 DEF IInv, FilesWritten, Kinds
  <2> QED BY <1>1, <2>2, <2>3, <2>4
<1>6. MapKnown' /\ Position' /\ RegionsWritten' /\ ReadmeWritten'
  BY <1>1, <1>2 DEF IInv, MapKnown, Position, RegionsWritten, ReadmeWritten, Kinds, Ended
<1> QED BY <1>4, <1>5, <1>6 DEF IInv

\* The last file of a module is written.
LEMMA WriteContractTestsStep == IInv /\ WriteContractTests => IInv'
<1> SUFFICES ASSUME IInv, WriteContractTests PROVE IInv'
  OBVIOUS
<1>1. /\ phase = "tests" /\ tree' = Written("tests")
      /\ phase' = "build" /\ at' = at + 1
      /\ UNCHANGED <<resource_map, runs, failures>>
  BY DEF WriteContractTests
<1>2. PICK m \in DOMAIN resource_map : m = at
  BY <1>1 DEF IInv, Position, Kinds
<1>3. "tests" \in Kinds /\ Len(resource_map) \in Nat /\ DOMAIN resource_map = 1..Len(resource_map)
  BY MapFacts DEF IInv, Kinds
<1>4. /\ TreeShape' /\ FileIs("tests", m)'
      /\ \A k \in Kinds, i \in DOMAIN resource_map :
           FileIs(k, i) /\ (k # "tests" \/ i # m) => FileIs(k, i)'
  BY <1>1, <1>2, <1>3, WrittenFacts DEF IInv
<1>5. \A k \in Kinds, i \in DOMAIN resource_map : i < at + 1 => FileIs(k, i)'
  <2> SUFFICES ASSUME NEW k \in Kinds, NEW i \in DOMAIN resource_map, i < at + 1
               PROVE  FileIs(k, i)'
    OBVIOUS
  <2>1. CASE i < at
    BY <1>1, <1>2, <1>3, <1>4, <2>1 DEF IInv, FilesWritten
  <2>2. CASE i = m
    BY <1>1, <1>2, <1>4, <2>2 DEF IInv, FilesWritten, Kinds
  <2> QED BY <1>2, <1>3, <2>1, <2>2
<1>6. FilesWritten'
  BY <1>1, <1>5 DEF FilesWritten, Kinds
<1>7. MapKnown' /\ Position' /\ RegionsWritten' /\ ReadmeWritten'
  BY <1>1, <1>2, <1>3
     DEF IInv, MapKnown, Position, RegionsWritten, ReadmeWritten, Kinds, Ended
<1> QED BY <1>4, <1>6, <1>7 DEF IInv

\* One region of a client is rewritten; after the last of them the README is due.
LEMMA WireClientStep == IInv /\ WireClient => IInv'
<1> SUFFICES ASSUME IInv, WireClient PROVE IInv'
  OBVIOUS
<1>1. /\ phase = "clients" /\ at \in 1..4
      /\ UNCHANGED <<resource_map, runs, failures>>
      /\ \/ at < 4 /\ at' = at + 1 /\ phase' = "clients"
         \/ at = 4 /\ at' = 1 /\ phase' = "readme"
  BY RegionFacts DEF IInv, Position, WireClient
<1>2. PICK m \in 1..4 : m = at
  BY <1>1
<1>3. /\ TreeShape' /\ Wired(m)'
      /\ \A j \in 1..4 : Wired(j) => Wired(j)'
      /\ \A kind \in Kinds : tree'[kind] = tree[kind]
  <2>1. PICK clients : clients = Rewired(m)
    OBVIOUS
  <2>2. tree.clients[Regions[m][1]].marked /\ tree' = [tree EXCEPT !.clients = clients]
    BY <1>2, <2>1 DEF WireClient, Rewired
  <2>3. /\ tree'.clients = clients
        /\ \A kind \in Kinds : tree'[kind] = tree[kind]
        /\ tree' = [models |-> tree'.models, types |-> tree'.types,
                    resources |-> tree'.resources, tests |-> tree'.tests,
                    clients |-> tree'.clients, readme |-> tree'.readme]
    BY <2>2, ClientsReplaced DEF IInv
  <2> QED BY <1>1, <2>1, <2>2, <2>3, WireFacts DEF IInv
<1>4. FilesWritten'
  BY <1>1, <1>3, FilesStay DEF IInv, FilesWritten, AllFiles, Kinds
<1>5. RegionsWritten'
  BY <1>1, <1>2, <1>3 DEF IInv, RegionsWritten
<1>6. MapKnown' /\ Position' /\ ReadmeWritten'
  BY <1>1 DEF IInv, MapKnown, Position, ReadmeWritten, Kinds, Ended
<1> QED BY <1>3, <1>4, <1>5, <1>6 DEF IInv

\* The README's section is rewritten.
LEMMA WriteReadmeStep == IInv /\ WriteReadme => IInv'
<1> SUFFICES ASSUME IInv, WriteReadme PROVE IInv'
  OBVIOUS
<1>1. /\ phase = "readme" /\ phase' = "ruff"
      /\ tree' = [tree EXCEPT !.readme = routes_section]
      /\ UNCHANGED <<resource_map, at, runs, failures>>
  BY DEF WriteReadme
<1>2. /\ TreeShape' /\ tree'.readme = routes_section /\ tree'.clients = tree.clients
      /\ \A kind \in Kinds : tree'[kind] = tree[kind]
  BY <1>1 DEF IInv, TreeShape, Kinds
<1>3. FilesWritten'
  BY <1>1, <1>2, FilesStay DEF IInv, FilesWritten, AllFiles, Kinds
<1>4. RegionsWritten'
  BY <1>1, <1>2, RegionsStay DEF IInv, RegionsWritten
<1>5. UNCHANGED routes_section
  BY <1>1 DEF routes_section, routes, ModuleNames, generated_ops
<1>6. MapKnown' /\ Position' /\ ReadmeWritten'
  BY <1>1, <1>2, <1>5 DEF IInv, MapKnown, Position, ReadmeWritten, Kinds, Ended
<1> QED BY <1>2, <1>3, <1>4, <1>6 DEF IInv

\* What ruff says decides how the run ends.
LEMMA FormatStep == IInv /\ Format => IInv'
<1> SUFFICES ASSUME IInv, Format PROVE IInv'
  OBVIOUS
<1>1. /\ phase = "ruff" /\ phase' \in {"done", "CalledProcessError"}
      /\ UNCHANGED <<resource_map, ruff, tree, at, runs, failures>>
  BY DEF Format
<1>2. FilesWritten'
  BY <1>1, FilesStay DEF IInv, FilesWritten, AllFiles, Kinds
<1>3. RegionsWritten'
  BY <1>1, RegionsStay DEF IInv, RegionsWritten
<1>4. UNCHANGED routes_section
  BY <1>1 DEF routes_section, routes, ModuleNames, generated_ops
<1>5. MapKnown' /\ Position' /\ TreeShape' /\ ReadmeWritten'
  BY <1>1, <1>4 DEF IInv, MapKnown, Position, TreeShape, ReadmeWritten, Kinds, Ended
<1> QED BY <1>2, <1>3, <1>5 DEF IInv

\* A file of which nothing is left is a file.
LEMMA TruncatedShape ==
  ASSUME IInv, tree' = Truncated
  PROVE  /\ TreeShape'
         /\ phase # "clients" => tree'.clients = tree.clients
<1>1. CASE phase \in Kinds
  BY <1>1 DEF IInv, TreeShape, Truncated, Kinds
<1>2. CASE phase = "clients"
  <2>1. Regions[at][1] \in Clients
    BY <1>2, RegionFacts DEF IInv, Position, Clients
  <2> QED BY <1>2, <2>1 DEF IInv, TreeShape, Truncated, Kinds
<1>3. CASE phase = "readme"
  BY <1>3 DEF IInv, TreeShape, Truncated, Kinds
<1>4. CASE phase \notin Kinds \cup {"clients", "readme"}
  BY <1>4 DEF IInv, TreeShape, Truncated
<1> QED BY <1>1, <1>2, <1>3, <1>4

\* A run is stopped, by its input or from outside.
LEMMA AbortStep == IInv /\ (RefuseBody \/ MarkersLost \/ Interrupt) => IInv'
<1> SUFFICES ASSUME IInv, RefuseBody \/ MarkersLost \/ Interrupt PROVE IInv'
  OBVIOUS
<1>1. CASE RefuseBody \/ MarkersLost
  <2>1. /\ phase' \in Ended \ {"done"} /\ UNCHANGED <<resource_map, runs, failures, tree>>
    BY <1>1 DEF RefuseBody, MarkersLost, Ended
  <2>2. TreeShape' /\ failures' \in 0..MaxFailures
    BY <2>1 DEF IInv, TreeShape, Position
  <2> QED BY <2>1, <2>2, StopStep
<1>2. CASE Interrupt
  <2>1. /\ phase' = "failed" /\ UNCHANGED <<resource_map, runs>>
        /\ failures < MaxFailures /\ failures' = failures + 1
        /\ tree' = tree \/ tree' = Truncated
    BY <1>2 DEF Interrupt
  <2>2. TreeShape'
    BY <2>1, TruncatedShape DEF IInv, TreeShape
  <2>3. failures' \in 0..MaxFailures /\ phase' \in Ended \ {"done"}
    BY <2>1, BoundsAssumption DEF IInv, Position, Ended
  <2> QED BY <2>1, <2>2, <2>3, StopStep
<1> QED BY <1>1, <1>2

\* Nothing happens.
LEMMA StutterStep == IInv /\ UNCHANGED vars => IInv'
<1> SUFFICES ASSUME IInv, UNCHANGED vars PROVE IInv'
  OBVIOUS
<1>1. UNCHANGED <<resource_map, tree, phase, at, runs, failures>>
  BY DEF vars
<1>2. UNCHANGED routes_section
  BY <1>1 DEF routes_section, routes, ModuleNames, generated_ops
<1>3. \A kind \in Kinds, i \in DOMAIN resource_map : FileIs(kind, i) => FileIs(kind, i)'
  BY <1>1, FilesStay
<1>4. FilesWritten'
  <2>1. CASE phase \in Kinds
    <3>1. PICK m \in DOMAIN resource_map : m = at
      BY <2>1 DEF IInv, Position
    <3>2. \A kind \in Kinds : FileIs(kind, m) => FileIs(kind, at)'
      BY <1>1, <1>3, <3>1
    <3> QED BY <1>1, <1>3, <2>1, <3>1, <3>2 DEF IInv, FilesWritten, Kinds
  <2>2. CASE phase \notin Kinds
    BY <1>1, <1>3, <2>2 DEF IInv, FilesWritten, AllFiles, Kinds
  <2> QED BY <2>1, <2>2
<1>5. RegionsWritten'
  BY <1>1, RegionsStay DEF IInv, RegionsWritten
<1> QED BY <1>1, <1>2, <1>4, <1>5
    DEF IInv, MapKnown, Position, TreeShape, ReadmeWritten

\* Every step preserves the invariant.
LEMMA StepPreserves == IInv /\ [Next]_vars => IInv'
BY StartStep, BuildStep, BuildEndsStep, WriteStep, WriteContractTestsStep, WireClientStep,
   WriteReadmeStep, FormatStep, AbortStep, StutterStep DEF Next, Terminated

\* IInv is an invariant of SdkGen.
THEOREM Invariance == Spec => []IInv
BY InitEstablishes, StepPreserves, PTL DEF Spec

-----------------------------------------------------------------------------
(***************************************************************************)
(* The properties.                                                         *)
(***************************************************************************)
\* The files of the tree that the map stands for.
LEMMA FilesOfTheMap ==
  ASSUME MapKnown, AllFiles, NEW kind \in Kinds, NEW n \in ModuleNames
  PROVE  n \in DOMAIN tree[kind] /\ tree[kind][n] = GeneratedTree[kind][n]
<1>1. PICK i \in DOMAIN resource_map : resource_map[i].name = n
  BY DEF ModuleNames
<1>2. (CHOOSE j \in DOMAIN resource_map : resource_map[j].name = n) = i
  BY <1>1, MapFacts
<1>3. GeneratedTree[kind][n] = Content(kind, generated_ops(i))
  BY <1>2 DEF GeneratedTree, Kinds
<1> QED BY <1>1, <1>3 DEF AllFiles, FileIs

\* Every variable has its type, and a run that is done has files for all modules.
THEOREM TypeCorrect == Spec => []TypeOK
<1>1. ASSUME IInv PROVE TypeOK
  <2>1. phase = "done" => \A kind \in Kinds : ModuleNames \subseteq DOMAIN tree[kind]
    BY <1>1, FilesOfTheMap DEF IInv, FilesWritten
  <2>2. DOMAIN tree.clients = Clients
    BY <1>1 DEF IInv, TreeShape
  <2> QED BY <1>1, <2>1, <2>2, RegionFacts DEF IInv, MapKnown, Position, TypeOK
<1> QED BY <1>1, Invariance, PTL

\* Whatever earlier runs left, a run that is done leaves what its map stands for.
THEOREM RunsConverge == Spec => []Converges
<1>1. ASSUME IInv, phase = "done"
      PROVE  /\ \A kind \in Kinds, n \in ModuleNames : tree[kind][n] = GeneratedTree[kind][n]
             /\ tree.clients = GeneratedTree.clients
             /\ tree.readme = GeneratedTree.readme
  <2>1. \A kind \in Kinds, n \in ModuleNames : tree[kind][n] = GeneratedTree[kind][n]
    BY <1>1, FilesOfTheMap DEF IInv, FilesWritten
  <2>2. \A c \in Clients :
          tree.clients[c] = [imports |-> ModuleNames, attributes |-> ModuleNames, marked |-> TRUE]
    <3>1. Wired(1) /\ Wired(2) /\ Wired(3) /\ Wired(4)
      BY <1>1 DEF IInv, RegionsWritten
    <3>2. \A c \in Clients : /\ tree.clients[c].marked = TRUE
                             /\ tree.clients[c].imports = ModuleNames
                             /\ tree.clients[c].attributes = ModuleNames
      <4>1. /\ tree.clients["_client.py"].marked
            /\ tree.clients["_client.py"].imports = ModuleNames
            /\ tree.clients["_client.py"].attributes = ModuleNames
        BY <3>1, RegionFacts DEF Wired
      <4>2. /\ tree.clients["_async_client.py"].marked
            /\ tree.clients["_async_client.py"].imports = ModuleNames
            /\ tree.clients["_async_client.py"].attributes = ModuleNames
        BY <3>1, RegionFacts DEF Wired
      <4>3. \A c \in Clients : tree.clients[c].marked \in BOOLEAN
        BY <1>1 DEF IInv, TreeShape
      <4> QED BY <4>1, <4>2, <4>3 DEF Clients
    <3>3. \A c \in Clients :
            tree.clients[c] = [imports |-> tree.clients[c].imports,
                               attributes |-> tree.clients[c].attributes,
                               marked |-> tree.clients[c].marked]
      BY <1>1 DEF IInv, TreeShape
    <3> QED BY <3>2, <3>3
  <2>3. tree.clients = GeneratedTree.clients
    BY <1>1, <2>2 DEF IInv, TreeShape, GeneratedTree
  <2>4. tree.readme = GeneratedTree.readme
    BY <1>1 DEF IInv, ReadmeWritten, GeneratedTree
  <2> QED BY <2>1, <2>3, <2>4
<1>2. IInv => Converges
  BY <1>1 DEF Converges
<1> QED BY <1>2, Invariance, PTL

\* A run touches the clients only after the files of every module were written.
THEOREM ClientsAreLast == Spec => ClientsWiredLast
<1> DEFINE WiredAfterFiles ==
      tree'.clients # tree.clients =>
        \A kind \in Kinds, n \in ModuleNames :
          /\ n \in DOMAIN tree[kind]
          /\ tree[kind][n] = GeneratedTree[kind][n]
<1>1. ASSUME IInv, [Next]_vars, tree'.clients # tree.clients PROVE phase = "clients"
  <2>1. CASE Start \/ Build \/ BuildEnds \/ RefuseBody \/ MarkersLost \/ Format \/ Terminated
    BY <1>1, <2>1 DEF Start, Build, BuildEnds, RefuseBody, MarkersLost, Format, Terminated, vars
  <2>2. CASE WriteModels \/ WriteTypes \/ WriteResources \/ WriteContractTests
    <3>1. PICK kind \in Kinds : tree' = Written(kind)
      BY <2>2 DEF WriteModels, WriteTypes, WriteResources, WriteContractTests, Kinds
    <3>2. tree'.clients = tree.clients
      BY <1>1, <3>1 DEF Written, Kinds, IInv, TreeShape
    <3> QED BY <1>1, <3>2
  <2>3. CASE WireClient
    BY <2>3 DEF WireClient
  <2>4. CASE WriteReadme
    BY <1>1, <2>4 DEF WriteReadme, IInv, TreeShape
  <2>5. CASE Interrupt
    BY <1>1, <2>5, TruncatedShape DEF Interrupt
  <2> QED BY <1>1, <2>1, <2>2, <2>3, <2>4, <2>5 DEF Next, vars
<1>2. IInv /\ [Next]_vars => [WiredAfterFiles]_vars
  BY <1>1, FilesOfTheMap DEF IInv, FilesWritten
<1> QED BY <1>2, Invariance, PTL DEF Spec, ClientsWiredLast

-----------------------------------------------------------------------------
(***************************************************************************)
(* The files.  The invariant here stands on IInv.                          *)
(***************************************************************************)
Accepted(ops) == \A e \in ToSet(ops) : ~IsRefused(e)

\* The files of a module are written once all of its entries were accepted.
WritesAccepted == phase \in Kinds => Accepted(resource_map[at].ops)

\* What a resources module imports is in these models and types, or is the class of
\* parameters that have no names.
Finds(resources, models, types) ==
  /\ resources.models \subseteq models
  /\ \A c \in resources.types :
       \/ \E t \in types : t[1] = c
       \/ \E m \in ToSet(resources.methods) :
            /\ c = <<m.name, "Params">>
            /\ \E id \in DOMAIN operations :
                 /\ operations[id].verb = m.verb /\ operations[id].path = m.path
                 /\ operations[id].body = "opaque" /\ operations[id].query = {}

Agrees(n) ==
  /\ n \in DOMAIN tree.models /\ n \in DOMAIN tree.types
  /\ Finds(tree.resources[n], tree.models[n], tree.types[n])

\* That holds of every module but the one whose files are partly new.
BeingWritten(n) == phase \in {"types", "resources"} /\ n = resource_map[at].name

ModulesAgree ==
  \A n \in DOMAIN tree.resources \ torn : BeingWritten(n) \/ Agrees(n)

\* Each client imports what its attributes use, and the other one the same.
ClientsAlike ==
  \A c \in Clients :
    /\ tree.clients[c].attributes = tree.clients["_client.py"].attributes
    /\ tree.clients[c].attributes = tree.clients[c].imports
    /\ tree.clients[c].imports \subseteq DOMAIN tree.resources

\* They are, but for the time between the first region and the last.
ClientsAgree == ~half_wired /\ (phase = "clients" => at = 1) => ClientsAlike

\* A run that is done was accepted by ruff, if there is one.
Checked == phase = "done" /\ ruff => \A n \in ModuleNames : RuffAccepts(n)

Flags == half_wired \in BOOLEAN /\ ruff \in BOOLEAN

FInv == WritesAccepted /\ ModulesAgree /\ ClientsAgree /\ Checked /\ Flags

-----------------------------------------------------------------------------
(***************************************************************************)
(* What the generator makes of one module.                                 *)
(***************************************************************************)
\* A class that the resources module imports is in the models module: the import list
\* and the classes are worked out in two places.
LEMMA ImportedIsEmitted ==
  ASSUME NEW g
  PROVE  ModelImported(g) \subseteq emit_model_class(g)
BY DEF ModelImported, emit_model_class

\* All models that a resources module imports are in the models module.
LEMMA ModelsFound ==
  ASSUME NEW gs
  PROVE  resources_module(gs).models \subseteq models_module(gs)
BY ImportedIsEmitted DEF resources_module, models_module

\* A params class that is imported and that the types module does not define is one
\* without fields.
LEMMA ParamsFound ==
  ASSUME NEW gs, NEW c \in resources_module(gs).types,
         \A t \in types_module(gs) : t[1] # c
  PROVE  \E i \in DOMAIN gs : /\ c = params_class_name(gs[i])
                              /\ has_params(gs[i]) /\ typed_fields(gs[i]) = {}
<1>1. PICK i \in DOMAIN gs : c = params_class_name(gs[i]) /\ has_params(gs[i])
  BY DEF resources_module
<1>2. ASSUME typed_fields(gs[i]) # {} PROVE FALSE
  <2> DEFINE t == <<params_class_name(gs[i]), typed_fields(gs[i])>>
  <2>1. t \in types_module(gs)
    BY <1>1, <1>2 DEF types_module
  <2>2. t[1] = c
    BY <1>1
  <2> QED BY <2>1, <2>2
<1> QED BY <1>1, <1>2

\* A method without fields but with parameters has an opaque body.
LEMMA FieldlessIsOpaque ==
  ASSUME NEW id \in DOMAIN operations, NEW g, g.op = operations[id],
         has_params(g), typed_fields(g) = {}
  PROVE  operations[id].body = "opaque" /\ operations[id].query = {}
BY DocumentAssumption DEF has_params, has_body_schema, typed_fields

\* The operations of accepted entries are those of the document.
LEMMA AcceptedAreDocumented ==
  ASSUME NEW ops, Accepted(ops), NEW i \in DOMAIN ops
  PROVE  \E id \in DOMAIN operations : build_generated_ops(ops)[i].op = operations[id]
<1>1. ops[i] \in ToSet(ops)
  BY DEF ToSet
<1> QED BY <1>1 DEF Accepted, IsRefused, build_generated_ops

\* A resources module finds what it imports in what is generated with it.
LEMMA GeneratedFinds ==
  ASSUME NEW ops, Accepted(ops)
  PROVE  LET gs == build_generated_ops(ops)
         IN  Finds(resources_module(gs), models_module(gs), types_module(gs))
<1> DEFINE gs == build_generated_ops(ops)
           r == resources_module(gs)
<1>1. ASSUME NEW c \in r.types, \A t \in types_module(gs) : t[1] # c
      PROVE  \E m \in ToSet(r.methods) :
               /\ c = <<m.name, "Params">>
               /\ \E id \in DOMAIN operations :
                    /\ operations[id].verb = m.verb /\ operations[id].path = m.path
                    /\ operations[id].body = "opaque" /\ operations[id].query = {}
  <2>1. PICK k \in DOMAIN gs : /\ c = params_class_name(gs[k])
                              /\ has_params(gs[k]) /\ typed_fields(gs[k]) = {}
    BY <1>1, ParamsFound
  <2>2. k \in DOMAIN ops
    BY <2>1 DEF build_generated_ops
  <2>3. PICK id \in DOMAIN operations : gs[k].op = operations[id]
    BY <2>2, AcceptedAreDocumented
  <2>4. operations[id].body = "opaque" /\ operations[id].query = {}
    BY <2>1, <2>3, FieldlessIsOpaque
  <2>5. emit_method(gs[k]) \in ToSet(r.methods)
    BY <2>1 DEF resources_module, ToSet
  <2>6. /\ c = <<emit_method(gs[k]).name, "Params">>
        /\ operations[id].verb = emit_method(gs[k]).verb
        /\ operations[id].path = emit_method(gs[k]).path
    BY <2>1, <2>3 DEF emit_method, params_class_name
  <2> QED BY <2>4, <2>5, <2>6
<1> QED BY <1>1, ModelsFound DEF Finds

-----------------------------------------------------------------------------
(***************************************************************************)
(* What a step leaves as it was.                                           *)
(***************************************************************************)
\* Whether a module agrees is said by its three files.
LEMMA AgreesStays ==
  ASSUME NEW n, Agrees(n), n \in DOMAIN tree'.models, n \in DOMAIN tree'.types,
         tree'.models[n] = tree.models[n], tree'.types[n] = tree.types[n],
         tree'.resources[n] = tree.resources[n]
  PROVE  Agrees(n)'
BY DEF Agrees

\* A step that writes none of these files.
LEMMA ModulesStay ==
  ASSUME ModulesAgree, torn \subseteq torn',
         tree'.models = tree.models, tree'.types = tree.types,
         tree'.resources = tree.resources,
         \A n \in DOMAIN tree.resources \ torn' : BeingWritten(n) => BeingWritten(n)'
  PROVE  ModulesAgree'
<1> SUFFICES ASSUME NEW n \in DOMAIN tree.resources \ torn', ~BeingWritten(n)'
             PROVE  Agrees(n)'
  BY DEF ModulesAgree
<1>1. Agrees(n)
  BY DEF ModulesAgree
<1> QED BY <1>1, AgreesStays DEF Agrees

\* Putting one file into its place touches no other.
LEMMA OthersStay ==
  ASSUME TreeShape, NEW kind \in Kinds, NEW name, NEW content,
         tree' = [tree EXCEPT ![kind] = With(tree[kind], name, content)]
  PROVE  /\ \A k \in Kinds : k # kind => tree'[k] = tree[k]
         /\ tree'.clients = tree.clients
         /\ DOMAIN tree'[kind] = DOMAIN tree[kind] \cup {name}
         /\ \A n \in DOMAIN tree[kind] : n # name => tree'[kind][n] = tree[kind][n]
<1>1. /\ tree'[kind] = With(tree[kind], name, content)
      /\ \A k \in Kinds : k # kind => tree'[k] = tree[k]
      /\ tree'.clients = tree.clients
  BY DEF TreeShape, Kinds
<1>2. /\ DOMAIN With(tree[kind], name, content) = DOMAIN tree[kind] \cup {name}
      /\ \A n \in DOMAIN tree[kind] : n # name =>
           With(tree[kind], name, content)[n] = tree[kind][n]
  BY DEF With
<1> QED BY <1>1, <1>2

\* A step that writes one file of one module, or empties it.
LEMMA OtherModulesStay ==
  ASSUME TreeShape, ModulesAgree, NEW kind \in Kinds, NEW name, NEW content,
         tree' = [tree EXCEPT ![kind] = With(tree[kind], name, content)],
         torn' \cup {name} = torn \cup {name},
         \A n \in DOMAIN tree.resources : n # name => ~BeingWritten(n)
  PROVE  \A n \in DOMAIN tree'.resources \ torn' : n # name => Agrees(n)'
<1> SUFFICES ASSUME NEW n \in DOMAIN tree'.resources \ torn', n # name
             PROVE  Agrees(n)'
  OBVIOUS
<1>1. /\ \A k \in Kinds : k # kind => tree'[k] = tree[k]
      /\ DOMAIN tree'[kind] = DOMAIN tree[kind] \cup {name}
      /\ \A j \in DOMAIN tree[kind] : j # name => tree'[kind][j] = tree[kind][j]
  BY OthersStay
<1>2. \A k \in Kinds : /\ n \in DOMAIN tree'[k] <=> n \in DOMAIN tree[k]
                       /\ n \in DOMAIN tree[k] => tree'[k][n] = tree[k][n]
  BY <1>1
<1>3. /\ n \in DOMAIN tree'.models <=> n \in DOMAIN tree.models
      /\ n \in DOMAIN tree.models => tree'.models[n] = tree.models[n]
      /\ n \in DOMAIN tree'.types <=> n \in DOMAIN tree.types
      /\ n \in DOMAIN tree.types => tree'.types[n] = tree.types[n]
      /\ n \in DOMAIN tree.resources /\ tree'.resources[n] = tree.resources[n]
  BY <1>2 DEF Kinds
<1>4. Agrees(n)
  BY <1>3 DEF ModulesAgree
<1> QED BY <1>3, <1>4, AgreesStays DEF Agrees

\* The clients stay alike as long as no module goes.
LEMMA ClientsStay ==
  ASSUME tree'.clients = tree.clients, DOMAIN tree.resources \subseteq DOMAIN tree'.resources,
         ClientsAgree, half_wired' = half_wired,
         (phase' = "clients" => at' = 1) => (phase = "clients" => at = 1)
  PROVE  ClientsAgree'
<1>1. ClientsAlike => ClientsAlike'
  BY DEF ClientsAlike
<1> QED BY <1>1 DEF ClientsAgree

-----------------------------------------------------------------------------
(***************************************************************************)
(* The steps.                                                              *)
(***************************************************************************)
\* The committed tree agrees with itself.
LEMMA FilesAtFirst == Init => FInv
<1> SUFFICES ASSUME Init PROVE FInv
  OBVIOUS
<1>1. MapKnown /\ phase = "committed" /\ tree = GeneratedTree
  BY DEF Init, MapKnown
<1>2. \A i \in DOMAIN resource_map : Accepted(resource_map[i].ops)
  BY CommittedAssumption DEF Init, Accepted
<1>3. ASSUME NEW kind \in Kinds, NEW i \in DOMAIN resource_map PROVE FileIs(kind, i)
  <2>1. (CHOOSE j \in DOMAIN resource_map :
           resource_map[j].name = resource_map[i].name) = i
    BY <1>1, MapFacts
  <2>2. /\ resource_map[i].name \in DOMAIN GeneratedTree[kind]
        /\ GeneratedTree[kind][resource_map[i].name] = Content(kind, generated_ops(i))
    BY <2>1 DEF GeneratedTree, ModuleNames, Kinds
  <2> QED BY <1>1, <2>2 DEF FileIs
<1>4. ModulesAgree
  <2>1. DOMAIN tree.resources = ModuleNames
    BY <1>1 DEF GeneratedTree
  <2>2. \A i \in DOMAIN resource_map : Agrees(resource_map[i].name)
    BY <1>2, <1>3, GeneratedFinds DEF Kinds, FileIs, Content, Agrees, generated_ops
  <2> QED BY <2>1, <2>2 DEF ModulesAgree, ModuleNames
<1>5. ClientsAgree
  BY <1>1 DEF ClientsAgree, ClientsAlike, GeneratedTree, Clients
<1> QED BY <1>1, <1>4, <1>5 DEF Init, FInv, WritesAccepted, Checked, Flags, Kinds

\* The writing of a module begins when all of its entries were accepted.
LEMMA AcceptedStep ==
  ASSUME FInv, [Next]_vars PROVE WritesAccepted'
<1>1. CASE Build
  BY <1>1 DEF Build, WritesAccepted, Accepted, Kinds
<1>2. CASE WriteModels \/ WriteTypes \/ WriteResources
  BY <1>2 DEF WriteModels, WriteTypes, WriteResources, FInv, WritesAccepted, Kinds
<1>3. CASE UNCHANGED vars
  BY <1>3 DEF vars, FInv, WritesAccepted
<1>4. CASE phase' \notin Kinds
  BY <1>4 DEF WritesAccepted
<1>5. Start \/ BuildEnds \/ RefuseBody \/ WriteContractTests \/ WireClient \/ WriteReadme
        \/ MarkersLost \/ Format \/ Interrupt => phase' \notin Kinds
  BY DEF Start, BuildEnds, RefuseBody, WriteContractTests, WireClient, WriteReadme,
         MarkersLost, Format, Interrupt, Kinds
<1> QED BY <1>1, <1>2, <1>3, <1>4, <1>5 DEF Next, Terminated

\* A run is done when ruff has nothing against its files, and they stay so.
LEMMA CheckedStep ==
  ASSUME FInv, [Next]_vars PROVE Checked'
<1>1. UNCHANGED <<tree, resource_map>> =>
        UNCHANGED ModuleNames /\ \A n \in ModuleNames : RuffAccepts(n) => RuffAccepts(n)'
  BY DEF ModuleNames, RuffAccepts, Parses, DefinesNamesOnce
<1>2. CASE Format
  BY <1>1, <1>2 DEF Format, Checked
<1>3. CASE UNCHANGED vars
  BY <1>1, <1>3 DEF vars, FInv, Checked
<1>4. CASE phase' # "done"
  BY <1>4 DEF Checked
<1>5. Start \/ Build \/ BuildEnds \/ WriteModels \/ WriteTypes \/ RefuseBody \/ WriteResources
        \/ WriteContractTests \/ WireClient \/ WriteReadme \/ MarkersLost \/ Interrupt
        => phase' # "done"
  BY DEF Start, Build, BuildEnds, WriteModels, WriteTypes, RefuseBody, WriteResources,
         WriteContractTests, WireClient, WriteReadme, MarkersLost, Interrupt
<1> QED BY <1>2, <1>3, <1>4, <1>5 DEF Next, Terminated

\* Whether ruff is there does not change, and the history variable is one.
LEMMA FlagsStep ==
  ASSUME IInv, FInv, [Next]_vars PROVE Flags'
<1>1. ruff' = ruff
  BY DEF Next, Start, Build, BuildEnds, WriteModels, WriteTypes, RefuseBody, WriteResources,
         WriteContractTests, WireClient, WriteReadme, MarkersLost, Format, Interrupt,
         Terminated, vars
<1>2. half_wired' \in BOOLEAN
  <2>1. CASE WireClient
    BY <2>1, RegionFacts DEF WireClient, FInv, Flags
  <2>2. CASE MarkersLost \/ Interrupt
    BY <2>2 DEF MarkersLost, Interrupt
  <2>3. CASE half_wired' = half_wired
    BY <2>3 DEF FInv, Flags
  <2> QED
    BY <2>1, <2>2, <2>3
       DEF Next, Start, Build, BuildEnds, WriteModels, WriteTypes, RefuseBody,
           WriteResources, WriteContractTests, WriteReadme, Format, Terminated, vars
<1> QED BY <1>1, <1>2 DEF FInv, Flags

\* Steps outside the files of the modules, and those that stop a run.
LEMMA ModulesStayStep ==
  ASSUME IInv, FInv,
         \/ Start \/ Build \/ BuildEnds \/ RefuseBody \/ WireClient \/ WriteReadme
         \/ MarkersLost \/ Format \/ UNCHANGED vars \/ (Interrupt /\ tree' = tree)
         \/ (Interrupt /\ phase \notin Kinds)
  PROVE  ModulesAgree'
<1>1. tree'.models = tree.models /\ tree'.types = tree.types /\ tree'.resources = tree.resources
  <2>1. CASE WireClient
    <3>1. tree' = [tree EXCEPT !.clients = Rewired(at)]
      BY <2>1 DEF WireClient, Rewired
    <3> QED BY <3>1, ClientsReplaced DEF IInv, Kinds
  <2>2. CASE WriteReadme
    BY <2>2 DEF WriteReadme, IInv, TreeShape
  <2>3. CASE Interrupt /\ phase \notin Kinds
    BY <2>3 DEF Interrupt, Truncated, IInv, TreeShape
  <2>4. CASE tree' = tree
    BY <2>4
  <2> QED BY <2>1, <2>2, <2>3, <2>4
          DEF Start, Build, BuildEnds, RefuseBody, MarkersLost, Format, vars
<1>2. torn \subseteq torn'
  BY DEF Start, Build, BuildEnds, RefuseBody, WireClient, WriteReadme, MarkersLost, Format,
         Interrupt, vars
<1>3. ASSUME NEW n \in DOMAIN tree.resources \ torn', BeingWritten(n)
      PROVE  BeingWritten(n)'
  BY <1>3 DEF BeingWritten, Start, Build, BuildEnds, RefuseBody, WireClient, WriteReadme,
              MarkersLost, Format, Interrupt, vars, Ended
<1> QED BY <1>1, <1>2, <1>3, ModulesStay DEF FInv

\* Steps that write a file of the present module, or leave it empty.
LEMMA ModuleWrittenStep ==
  ASSUME IInv, FInv,
         \/ WriteModels \/ WriteTypes \/ WriteResources \/ WriteContractTests
         \/ (Interrupt /\ phase \in Kinds /\ tree' # tree)
  PROVE  ModulesAgree'
<1>1. PICK m \in DOMAIN resource_map : m = at
  BY DEF WriteModels, WriteTypes, WriteResources, WriteContractTests, IInv, Position, Kinds
<1>0. PICK name : name = resource_map[m].name
  OBVIOUS
<1>2. PICK kind, content :
        /\ kind \in Kinds
        /\ phase = kind
        /\ tree' = [tree EXCEPT ![kind] = With(tree[kind], name, content)]
        /\ ~Interrupt => content = Content(kind, generated_ops(m)) /\ tree' = Written(kind)
  <2>1. CASE WriteModels \/ WriteTypes \/ WriteResources \/ WriteContractTests
    <3>1. PICK kind \in Kinds : phase = kind /\ tree' = Written(kind)
      BY <2>1 DEF WriteModels, WriteTypes, WriteResources, WriteContractTests, Kinds
    <3> QED BY <1>0, <1>1, <3>1 DEF Written
  <2>2. CASE Interrupt /\ phase \in Kinds /\ tree' # tree
    BY <1>0, <1>1, <2>2 DEF Interrupt, Truncated
  <2> QED BY <2>1, <2>2
<1>3. torn' \cup {name} = torn \cup {name}
  BY <1>0, <1>1 DEF WriteModels, WriteTypes, WriteResources, WriteContractTests, Interrupt
<1>4. \A n \in DOMAIN tree.resources : n # name => ~BeingWritten(n)
  BY <1>0, <1>1 DEF BeingWritten
<1>5. \A n \in DOMAIN tree'.resources \ torn' : n # name => Agrees(n)'
  BY <1>2, <1>3, <1>4, OtherModulesStay DEF IInv, FInv
<1>6. UNCHANGED resource_map
  BY DEF WriteModels, WriteTypes, WriteResources, WriteContractTests, Interrupt
<1>7. name \in DOMAIN tree'.resources \ torn' => BeingWritten(name)' \/ Agrees(name)'
  <2>1. CASE WriteModels \/ WriteTypes
    BY <1>0, <1>1, <2>1 DEF WriteModels, WriteTypes, BeingWritten
  <2>2. CASE WriteResources
    <3>1. phase = "resources" /\ tree' = Written("resources")
      BY <2>2 DEF WriteResources
    <3>2. FileIs("models", m) /\ FileIs("types", m) /\ "resources" \in Kinds
          /\ "models" \in Kinds /\ "types" \in Kinds
      BY <1>1, <3>1 DEF IInv, FilesWritten, Kinds
    <3>3. /\ FileIs("resources", m)'
          /\ \A k \in Kinds, i \in DOMAIN resource_map :
               FileIs(k, i) /\ (k # "resources" \/ i # m) => FileIs(k, i)'
      BY <1>1, <1>6, <3>1, <3>2, WrittenFacts DEF IInv
    <3>4. Accepted(resource_map[m].ops)
      BY <1>1, <3>1 DEF FInv, WritesAccepted, Kinds
    <3>5. FileIs("models", m)' /\ FileIs("types", m)' /\ FileIs("resources", m)'
      BY <3>2, <3>3
    <3>6. Agrees(name)'
      BY <1>0, <1>6, <3>4, <3>5, GeneratedFinds DEF FileIs, Content, Agrees, generated_ops
    <3> QED BY <3>6
  <2>3. CASE WriteContractTests
    <3>1. kind = "tests"
      BY <1>2, <2>3 DEF WriteContractTests
    <3>2. tree'.models = tree.models /\ tree'.types = tree.types
          /\ tree'.resources = tree.resources
      BY <1>2, <3>1, OthersStay DEF IInv, Kinds
    <3>3. torn' = torn /\ ~BeingWritten(name)
      BY <2>3 DEF WriteContractTests, BeingWritten
    <3>4. name \in DOMAIN tree'.resources \ torn' => Agrees(name)
      BY <3>2, <3>3 DEF FInv, ModulesAgree
    <3>5. Agrees(name) => Agrees(name)'
      BY <3>2 DEF Agrees
    <3> QED BY <3>4, <3>5
  <2>4. CASE Interrupt /\ phase \in {"models", "types", "resources"} /\ tree' # tree
    BY <1>0, <1>1, <2>4 DEF Interrupt
  <2>5. CASE Interrupt /\ phase = "tests"
    <3>1. kind = "tests"
      BY <1>2, <2>5
    <3>2. tree'.models = tree.models /\ tree'.types = tree.types
          /\ tree'.resources = tree.resources
      BY <1>2, <3>1, OthersStay DEF IInv, Kinds
    <3>3. torn' = torn /\ ~BeingWritten(name)
      BY <2>5 DEF Interrupt, BeingWritten
    <3>4. name \in DOMAIN tree'.resources \ torn' => Agrees(name)
      BY <3>2, <3>3 DEF FInv, ModulesAgree
    <3>5. Agrees(name) => Agrees(name)'
      BY <3>2 DEF Agrees
    <3> QED BY <3>4, <3>5
  <2> QED BY <2>1, <2>2, <2>3, <2>4, <2>5 DEF Kinds
<1> QED BY <1>5, <1>7 DEF ModulesAgree

\* Files only come to the tree, and only the steps of wire_client, and what stops one of
\* them, touch the clients.
LEMMA ClientsUntouched ==
  ASSUME IInv, [Next]_vars, ~WireClient, ~(Interrupt /\ phase = "clients" /\ tree' # tree)
  PROVE  tree'.clients = tree.clients /\ DOMAIN tree.resources \subseteq DOMAIN tree'.resources
<1>1. CASE tree' = tree
  BY <1>1
<1>2. CASE WriteReadme
  BY <1>2 DEF WriteReadme, IInv, TreeShape
<1>3. CASE Interrupt /\ phase = "readme" /\ tree' = Truncated
  BY <1>3 DEF Truncated, IInv, TreeShape, Kinds
<1>4. CASE \E kind \in Kinds : \E name, content :
             tree' = [tree EXCEPT ![kind] = With(tree[kind], name, content)]
  <2>1. PICK kind \in Kinds : \E name, content :
          tree' = [tree EXCEPT ![kind] = With(tree[kind], name, content)]
    BY <1>4
  <2>2. PICK name, content : tree' = [tree EXCEPT ![kind] = With(tree[kind], name, content)]
    BY <2>1
  <2> QED BY <2>2, OthersStay DEF IInv, Kinds
<1>5. WriteModels \/ WriteTypes \/ WriteResources \/ WriteContractTests
        => \E kind \in Kinds : tree' = Written(kind)
  BY DEF WriteModels, WriteTypes, WriteResources, WriteContractTests, Kinds
<1>6. CASE Interrupt /\ phase \in Kinds /\ tree' = Truncated
  BY <1>4, <1>6 DEF Truncated
<1>7. CASE Interrupt
  BY <1>1, <1>3, <1>6, <1>7 DEF Interrupt, Truncated
<1>8. CASE \E kind \in Kinds : tree' = Written(kind)
  BY <1>4, <1>8 DEF Written
<1> QED
  BY <1>1, <1>2, <1>5, <1>7, <1>8
     DEF Next, Start, Build, BuildEnds, RefuseBody, MarkersLost, Format, Terminated, vars

\* Between its first region and its last, wire_client leaves the clients unlike; a run
\* that is stopped there says so.
LEMMA ClientsStep ==
  ASSUME IInv, FInv, [Next]_vars
  PROVE  ClientsAgree'
<1>1. CASE WireClient
  <2>1. CASE at < 4
    <3>1. phase' = "clients" /\ at' = at + 1 /\ at \in 1..4
      BY <1>1, <2>1, RegionFacts DEF WireClient, IInv, Position
    <3> QED BY <3>1 DEF ClientsAgree
  <2>2. CASE ~(at < 4)
    <3>1. phase' = "readme" /\ IInv'
      BY <1>1, <2>2, RegionFacts, WireClientStep DEF WireClient
    <3>2. \A j \in 1..4 : Wired(j)'
      BY <3>1 DEF IInv, RegionsWritten
    <3>3. /\ tree'.clients["_client.py"].imports = ModuleNames'
          /\ tree'.clients["_client.py"].attributes = ModuleNames'
          /\ tree'.clients["_async_client.py"].imports = ModuleNames'
          /\ tree'.clients["_async_client.py"].attributes = ModuleNames'
      BY <3>2, RegionFacts DEF Wired
    <3>4. ModuleNames' \subseteq DOMAIN tree'.resources
      BY <3>1 DEF IInv, FilesWritten, AllFiles, FileIs, ModuleNames, Kinds
    <3> QED BY <3>3, <3>4 DEF ClientsAgree, ClientsAlike, Clients
  <2> QED BY <2>1, <2>2
<1>2. CASE Interrupt /\ phase = "clients" /\ tree' # tree
  BY <1>2 DEF Interrupt, ClientsAgree
<1>3. CASE ~WireClient /\ ~(Interrupt /\ phase = "clients" /\ tree' # tree)
  <2>1. tree'.clients = tree.clients /\ DOMAIN tree.resources \subseteq DOMAIN tree'.resources
    BY <1>3, ClientsUntouched
  <2>2. CASE MarkersLost \/ Interrupt
    <3>1. CASE phase = "clients" /\ at # 1
      <4>1. at \in 1..4
        BY <3>1 DEF IInv, Position
      <4>2. at > 1
        BY <3>1, <4>1
      <4>3. half_wired'
        BY <2>2, <3>1, <4>2, Zenon DEF MarkersLost, Interrupt
      <4> QED BY <4>3 DEF ClientsAgree
    <3>2. CASE ~(phase = "clients" /\ at # 1)
      <4>1. ~half_wired' => ~half_wired
        BY <2>2 DEF MarkersLost, Interrupt
      <4>2. ClientsAlike => ClientsAlike'
        BY <2>1 DEF ClientsAlike
      <4> QED BY <3>2, <4>1, <4>2 DEF FInv, ClientsAgree
    <3> QED BY <3>1, <3>2
  <2>3. CASE ~MarkersLost /\ ~Interrupt
    <3>1. half_wired' = half_wired
      BY <1>3, <2>3
         DEF Next, Start, Build, BuildEnds, WriteModels, WriteTypes, RefuseBody,
             WriteResources, WriteContractTests, WriteReadme, Format, Terminated, vars
    <3>2. (phase' = "clients" => at' = 1) => (phase = "clients" => at = 1)
      BY <1>3, <2>3
         DEF Next, Start, Build, BuildEnds, WriteModels, WriteTypes, RefuseBody,
             WriteResources, WriteContractTests, WriteReadme, Format, Terminated, vars, Ended
    <3> QED BY <2>1, <3>1, <3>2, ClientsStay DEF FInv
  <2> QED BY <2>2, <2>3
<1> QED BY <1>1, <1>2, <1>3

\* Every step preserves the invariant.
LEMMA FilesStepPreserves == IInv /\ FInv /\ [Next]_vars => FInv'
<1> SUFFICES ASSUME IInv, FInv, [Next]_vars PROVE FInv'
  OBVIOUS
<1>1. ModulesAgree'
  <2>1. CASE Interrupt
    BY <2>1, ModulesStayStep, ModuleWrittenStep
  <2>2. CASE ~Interrupt
    BY <2>2, ModulesStayStep, ModuleWrittenStep DEF Next, Terminated
  <2> QED BY <2>1, <2>2
<1> QED BY <1>1, AcceptedStep, CheckedStep, FlagsStep, ClientsStep DEF FInv

\* FInv is an invariant of SdkGen.
THEOREM FilesInvariance == Spec => []FInv
<1>1. IInv /\ FInv /\ [Next]_vars => FInv'
  BY FilesStepPreserves
<1> QED BY <1>1, FilesAtFirst, Invariance, PTL DEF Spec

-----------------------------------------------------------------------------
(***************************************************************************)
(* The properties.                                                         *)
(***************************************************************************)
\* However a run ends, a resources module finds what it imports and the clients are
\* alike, but for what a run was stopped in the middle of.
THEOREM EndsAreConsistent == Spec => []EndsConsistent
<1>1. ASSUME FInv, phase \in Ended PROVE EndsConsistent
  <2>1. ASSUME NEW n \in DOMAIN tree.resources \ torn
        PROVE  /\ tree.resources[n].models \subseteq tree.models[n]
               /\ \A c \in tree.resources[n].types \ TypesDefine(n) : Untyped(n, c)
    <3>1. Agrees(n)
      BY <1>1 DEF FInv, ModulesAgree, BeingWritten, Ended
    <3> QED BY <3>1 DEF Agrees, Finds, TypesDefine, Untyped
  <2>2. ~half_wired => ClientsAlike
    BY <1>1 DEF FInv, ClientsAgree, Ended
  <2> QED BY <2>1, <2>2 DEF EndsConsistent, ClientsAlike
<1>2. FInv => EndsConsistent
  BY <1>1 DEF EndsConsistent
<1> QED BY <1>2, FilesInvariance, PTL

-----------------------------------------------------------------------------
(***************************************************************************)
(* The methods, tests and rows of a run that is done.                      *)
(***************************************************************************)
NamesOnce(gs) == \A j, k \in DOMAIN gs : gs[j].name = gs[k].name => j = k

\* If no other has its name, a definition is the last of that name.
LEMMA OnlyOneNamed ==
  ASSUME NEW seq, DOMAIN seq \subseteq Nat, NEW k \in DOMAIN seq,
         \A j \in DOMAIN seq : seq[j].name = seq[k].name => j = k
  PROVE  LastNamed(seq, seq[k].name) = seq[k]
<1>1. {j \in DOMAIN seq : seq[j].name = seq[k].name} = {k}
  OBVIOUS
<1>2. Max({k}) = k
  BY DEF Max
<1> QED BY <1>1, <1>2 DEF LastNamed

\* What a sequence has at a place is of its set.
LEMMA ElementOf ==
  ASSUME NEW S, NEW seq \in Seq(S), NEW i \in DOMAIN seq
  PROVE  seq[i] \in S
OBVIOUS

\* The files of a module that was generated are made of its operations.
LEMMA DoneFiles ==
  ASSUME IInv, phase = "done", NEW i \in DOMAIN resource_map
  PROVE  LET gs == generated_ops(i)
             n == resource_map[i].name
         IN  /\ DOMAIN gs = DOMAIN resource_map[i].ops /\ DOMAIN gs \subseteq Nat
             /\ IsFiniteSet(DOMAIN gs)
             /\ tree.resources[n].methods = [k \in DOMAIN gs |-> emit_method(gs[k])]
             /\ tree.tests[n] = [k \in DOMAIN gs |-> emit_contract_test(gs[k])]
<1> DEFINE gs == generated_ops(i)
           n == resource_map[i].name
<1>1. DOMAIN gs = DOMAIN resource_map[i].ops
  BY DEF generated_ops, build_generated_ops
<1>2. resource_map[i].ops \in Entries
  <2>1. resource_map \in Seq([name : STRING, ops : Entries])
    BY MapsAssumption DEF IInv, MapKnown, ResourceMaps
  <2>2. resource_map[i] \in [name : STRING, ops : Entries]
    BY <2>1, ElementOf
  <2> QED BY <2>2
<1>3. Len(resource_map[i].ops) \in Nat /\ DOMAIN gs = 1..Len(resource_map[i].ops)
  BY <1>1, <1>2 DEF Entries
<1>4. DOMAIN gs \subseteq Nat /\ IsFiniteSet(DOMAIN gs)
  BY <1>3, FS_Interval
<1>5. tree.resources[n] = resources_module(gs) /\ tree.tests[n] = contract_test_module(gs)
  BY DEF IInv, FilesWritten, AllFiles, FileIs, Content, Kinds
<1> QED BY <1>1, <1>4, <1>5 DEF resources_module, contract_test_module

\* Where ruff ran, the methods of a module have different names.
LEMMA RuffFindsOneName ==
  ASSUME IInv, FInv, phase = "done", ruff, NEW i \in DOMAIN resource_map
  PROVE  NamesOnce(generated_ops(i))
<1> DEFINE gs == generated_ops(i)
           ms == tree.resources[resource_map[i].name].methods
<1>1. DefinesNamesOnce(resource_map[i].name)
  BY DEF FInv, Checked, RuffAccepts, ModuleNames
<1>2. ms = [k \in DOMAIN gs |-> emit_method(gs[k])]
  BY DoneFiles
<1>3. \A k \in DOMAIN gs : ms[k].name = gs[k].name
  BY <1>2 DEF emit_method
<1> QED BY <1>1, <1>2, <1>3 DEF DefinesNamesOnce, NamesOnce

CallsOf(modules) == {c \in LiveCalls : c[1] \in modules}
Marked(rows) == {row \in rows : row.live}
Unlisted(modules, rows) ==
  {c \in LiveCalls : c[1] \in modules /\ \A row \in rows : c # <<row.module, row.name>>}

\* The live-tested calls are those that a row marks and those that none does.
LEMMA LiveCallsCounted ==
  ASSUME NEW rows, NEW modules,
         \A row \in rows : /\ row.module \in modules
                           /\ row.live <=> <<row.module, row.name>> \in LiveCalls,
         \A r, s \in rows : r.module = s.module /\ r.name = s.name => r = s
  PROVE  Cardinality(CallsOf(modules)) =
           Cardinality(Marked(rows)) + Cardinality(Unlisted(modules, rows))
<1> USE DEF CallsOf, Marked, Unlisted
<1> DEFINE A == CallsOf(modules)
           C == Unlisted(modules, rows)
           B == A \ C
           R == Marked(rows)
           f == [row \in R |-> <<row.module, row.name>>]
<1>1. IsFiniteSet(A) /\ IsFiniteSet(B) /\ IsFiniteSet(C)
  BY LiveCallsAssumption, FS_Subset
<1>2. f \in Injection(R, B)
  <2>1. \A row \in R : <<row.module, row.name>> \in B
    OBVIOUS
  <2>2. f \in [R -> B]
    BY <2>1
  <2>3. \A r, s \in R : f[r] = f[s] => r = s
    OBVIOUS
  <2> QED BY <2>2, <2>3 DEF Injection, IsInjective
<1>3. f \in Surjection(R, B)
  <2>1. ASSUME NEW c \in B PROVE \E row \in R : f[row] = c
    <3>1. PICK row \in rows : c = <<row.module, row.name>>
      OBVIOUS
    <3> QED BY <3>1
  <2> QED BY <1>2, <2>1 DEF Surjection, Injection
<1>4. Cardinality(R) = Cardinality(B)
  BY <1>1, <1>2, <1>3, FS_Injection
<1>5. A = B \cup C /\ B \cap C = {}
  OBVIOUS
<1> HIDE DEF A, B, C, R
<1>6. Cardinality(A) = Cardinality(B) + Cardinality(C)
  <2>1. Cardinality(B \cup C) = Cardinality(B) + Cardinality(C) - Cardinality(B \cap C)
    BY <1>1, FS_Union
  <2>2. Cardinality(B) \in Nat /\ Cardinality(C) \in Nat /\ Cardinality({}) = 0
    BY <1>1, FS_CardinalityType, FS_EmptySet
  <2>3. Cardinality(A) = Cardinality(B) + Cardinality(C) - Cardinality({})
    BY <1>5, <2>1, Zenon
  <2> QED BY <2>2, <2>3
<1> QED BY <1>4, <1>6 DEF A, C, R

\* The row of one operation.
Row(i, g) ==
  [module |-> resource_map[i].name, name |-> g.name, verb |-> g.op.verb, path |-> g.op.path,
   live |-> <<resource_map[i].name, g.name>> \in LiveCalls]

\* What a row says.
LEMMA RowFields ==
  ASSUME NEW i, NEW g
  PROVE  /\ Row(i, g).module = resource_map[i].name /\ Row(i, g).name = g.name
         /\ Row(i, g).verb = g.op.verb /\ Row(i, g).path = g.op.path
         /\ Row(i, g).live <=> <<Row(i, g).module, Row(i, g).name>> \in LiveCalls
BY DEF Row

\* A method has the name, the verb and the path of its operation.
LEMMA MethodFields ==
  ASSUME NEW g
  PROVE  /\ emit_method(g).name = g.name
         /\ emit_method(g).verb = g.op.verb /\ emit_method(g).path = g.op.path
BY DEF emit_method

\* Every row is that of an operation.
LEMMA RowOrigin ==
  ASSUME NEW row \in routes
  PROVE  \E i \in DOMAIN resource_map :
           \E k \in DOMAIN generated_ops(i) : row = Row(i, generated_ops(i)[k])
<1>1. PICK i \in DOMAIN resource_map :
        row \in {Row(i, g) : g \in ToSet(generated_ops(i))}
  BY DEF routes, Row
<1>2. PICK g \in ToSet(generated_ops(i)) : row = Row(i, g)
  BY <1>1
<1>3. PICK k \in DOMAIN generated_ops(i) : g = generated_ops(i)[k]
  BY DEF ToSet
<1> QED BY <1>2, <1>3

\* The README lists calls that exist, each of which requests what its row says, and counts
\* the live-tested ones that are gone.
THEOREM ReadmeIsTrue == Spec => []ReadmeListsWhatExists
<1>1. ASSUME IInv, FInv, phase = "done" PROVE ReadmeListsWhatExists
  <2>1. tree.readme.rows = routes
        /\ tree.readme.live_tested = Cardinality({c \in LiveCalls : c[1] \in ModuleNames})
    BY <1>1, SMTT(30) DEF IInv, ReadmeWritten, routes_section
  <2>2. ASSUME NEW row \in routes
        PROVE  LET ms == tree.resources[row.module].methods
               IN  \E i \in DOMAIN ms :
                     /\ ms[i].name = row.name /\ ms[i].verb = row.verb
                     /\ ms[i].path = row.path
                     /\ ruff => ms[i] = LastNamed(ms, row.name)
    <3> DEFINE ms == tree.resources[row.module].methods
    <3>1. PICK i \in DOMAIN resource_map :
            \E k \in DOMAIN generated_ops(i) : row = Row(i, generated_ops(i)[k])
      BY RowOrigin
    <3>0. PICK k \in DOMAIN generated_ops(i) : row = Row(i, generated_ops(i)[k])
      BY <3>1
    <3> DEFINE gs == generated_ops(i)
    <3>2. row.module = resource_map[i].name /\ row.name = gs[k].name
          /\ row.verb = gs[k].op.verb /\ row.path = gs[k].op.path
      BY <3>0 DEF Row
    <3>3. DOMAIN ms = DOMAIN gs /\ DOMAIN gs \subseteq Nat
          /\ \A j \in DOMAIN gs : ms[j] = emit_method(gs[j])
      <4>1. DOMAIN gs \subseteq Nat
            /\ tree.resources[resource_map[i].name].methods =
                 [j \in DOMAIN gs |-> emit_method(gs[j])]
        BY <1>1, DoneFiles
      <4>2. ms = [j \in DOMAIN gs |-> emit_method(gs[j])]
        BY <3>2, <4>1
      <4> HIDE DEF ms, gs
      <4> QED BY <4>1, <4>2
    <3>4. \A j \in DOMAIN gs : ms[j].name = gs[j].name /\ ms[j].verb = gs[j].op.verb
                               /\ ms[j].path = gs[j].op.path
      <4> HIDE DEF ms, gs
      <4> QED BY <3>3, MethodFields
    <3>5. ASSUME ruff PROVE ms[k] = LastNamed(ms, row.name)
      <4>1. NamesOnce(gs)
        BY <1>1, <3>5, RuffFindsOneName
      <4>2. \A j \in DOMAIN ms : ms[j].name = ms[k].name => j = k
        BY <3>3, <3>4, <4>1 DEF NamesOnce
      <4>3. row.name = ms[k].name
        BY <3>2, <3>4
      <4> HIDE DEF ms
      <4> QED BY <3>3, <4>2, <4>3, OnlyOneNamed
    <3> QED BY <3>2, <3>3, <3>4, <3>5
  <2>3. ASSUME ruff
        PROVE  tree.readme.live_tested =
                 Cardinality({row \in tree.readme.rows : row.live}) +
                 Cardinality({c \in LiveCalls : /\ c[1] \in ModuleNames
                                                /\ \A row \in tree.readme.rows :
                                                     c # <<row.module, row.name>>})
    <3>1. ASSUME NEW row \in routes
          PROVE  /\ row.module \in ModuleNames
                 /\ row.live <=> <<row.module, row.name>> \in LiveCalls
      <4>1. PICK i \in DOMAIN resource_map :
              \E k \in DOMAIN generated_ops(i) : row = Row(i, generated_ops(i)[k])
        BY RowOrigin
      <4>2. PICK g : row = Row(i, g)
        BY <4>1
      <4> QED BY <4>2, RowFields DEF ModuleNames
    <3>2. ASSUME NEW r \in routes, NEW s \in routes, r.module = s.module, r.name = s.name
          PROVE  r = s
      <4>1. PICK i \in DOMAIN resource_map :
              \E k \in DOMAIN generated_ops(i) : r = Row(i, generated_ops(i)[k])
        BY RowOrigin
      <4>1a. PICK k \in DOMAIN generated_ops(i) : r = Row(i, generated_ops(i)[k])
        BY <4>1
      <4>2. PICK j \in DOMAIN resource_map :
              \E l \in DOMAIN generated_ops(j) : s = Row(j, generated_ops(j)[l])
        BY RowOrigin
      <4>2a. PICK l \in DOMAIN generated_ops(j) : s = Row(j, generated_ops(j)[l])
        BY <4>2
      <4>3. resource_map[i].name = resource_map[j].name
            /\ generated_ops(i)[k].name = generated_ops(j)[l].name
        BY <3>2, <4>1a, <4>2a DEF Row
      <4>4. i = j
        BY <1>1, <4>3, MapFacts DEF IInv
      <4>5. k = l
        BY <1>1, <2>3, <4>3, <4>4, RuffFindsOneName DEF NamesOnce
      <4> QED BY <4>1a, <4>2a, <4>4, <4>5
    <3>3. PICK rows, modules : rows = routes /\ modules = ModuleNames
      OBVIOUS
    <3>4. \A row \in rows : /\ row.module \in modules
                            /\ row.live <=> <<row.module, row.name>> \in LiveCalls
      BY <3>1, <3>3
    <3>5. \A r, s \in rows : r.module = s.module /\ r.name = s.name => r = s
      BY <3>2, <3>3
    <3>6. Cardinality(CallsOf(modules)) =
            Cardinality(Marked(rows)) + Cardinality(Unlisted(modules, rows))
      BY <3>4, <3>5, LiveCallsCounted
    <3> QED BY <2>1, <3>3, <3>6 DEF CallsOf, Marked, Unlisted
  <2> QED BY <2>1, <2>2, <2>3 DEF ReadmeListsWhatExists
<1>2. IInv /\ FInv => ReadmeListsWhatExists
  BY <1>1 DEF ReadmeListsWhatExists
<1> QED BY <1>2, Invariance, FilesInvariance, PTL

-----------------------------------------------------------------------------
(***************************************************************************)
(* What the contract tests prove.                                          *)
(***************************************************************************)
\* A method whose test passes has no name in its query and in its body.
LEMMA PassedSplits ==
  ASSUME NEW g, NEW imported, Passes(emit_contract_test(g), emit_method(g), imported),
         g.op.query # {}, g.op.fields # {}
  PROVE  g.op.query \cap g.op.fields = {}
<1> DEFINE m == emit_method(g)
<1>1. Sent(m, g.op.query \cup g.op.fields).json = g.op.fields
  BY DEF Passes, emit_contract_test
<1>2. m.payload = "split" /\ m.query_names = g.op.query
  BY DEF emit_method, payload_of
<1>3. Sent(m, g.op.query \cup g.op.fields).json = (g.op.query \cup g.op.fields) \ g.op.query
  BY <1>2 DEF Sent
<1> QED BY <1>1, <1>3

\* Nor does it lose the fields of a body without a query.
LEMMA PassedSendsBody ==
  ASSUME NEW g, NEW imported, Passes(emit_contract_test(g), emit_method(g), imported),
         g.op.query = {}, g.op.fields # {}
  PROVE  emit_method(g).payload = "json"
<1> DEFINE m == emit_method(g)
<1>1. Sent(m, g.op.fields).json # {}
  BY DEF Passes, emit_contract_test
<1>2. m.payload \in {"json", "none"}
  BY DEF emit_method, payload_of
<1>3. m.payload = "none" => Sent(m, g.op.fields).json = {}
  BY DEF Sent
<1> QED BY <1>1, <1>2, <1>3

\* What is sent, by what the method does with its parameters.
LEMMA SentOf ==
  ASSUME NEW m, NEW keywords
  PROVE  /\ m.payload = "split" =>
              Sent(m, keywords) = [query |-> keywords \cap m.query_names,
                                   json |-> keywords \ m.query_names]
         /\ m.payload = "query" => Sent(m, keywords) = [query |-> keywords, json |-> {}]
         /\ m.payload = "json" => Sent(m, keywords) = [query |-> {}, json |-> keywords]
         /\ m.payload = "none" => Sent(m, keywords) = [query |-> {}, json |-> {}]
BY DEF Sent

\* One call with all parameters tells how every combination of them is sent.
LEMMA PassedSendsAll ==
  ASSUME NEW g, NEW imported, Passes(emit_contract_test(g), emit_method(g), imported),
         NEW keywords \in SUBSET (g.op.query \cup g.op.fields)
  PROVE  Sent(emit_method(g), keywords) =
           [query |-> keywords \cap g.op.query, json |-> keywords \cap g.op.fields]
<1> DEFINE m == emit_method(g)
<1>1. m.query_names = g.op.query /\ m.payload = payload_of(g.op)
  BY DEF emit_method
<1>2. CASE g.op.query # {} /\ g.op.fields # {}
  <2>1. m.payload = "split" /\ g.op.query \cap g.op.fields = {}
    BY <1>1, <1>2, PassedSplits DEF payload_of
  <2>2. keywords \ g.op.query = keywords \cap g.op.fields
    BY <2>1
  <2>3. Sent(m, keywords) = [query |-> keywords \cap g.op.query, json |-> keywords \ g.op.query]
    BY <1>1, <2>1, SentOf
  <2> QED BY <2>2, <2>3
<1>3. CASE g.op.query # {} /\ g.op.fields = {}
  <2>1. m.payload = "query"
    BY <1>1, <1>3 DEF payload_of
  <2>2. keywords = keywords \cap g.op.query /\ keywords \cap g.op.fields = {}
    BY <1>3
  <2>3. Sent(m, keywords) = [query |-> keywords, json |-> {}]
    BY <2>1, SentOf
  <2> QED BY <2>2, <2>3
<1>4. CASE g.op.query = {} /\ g.op.fields # {}
  <2>1. m.payload = "json"
    BY <1>4, PassedSendsBody
  <2>2. keywords = keywords \cap g.op.fields /\ keywords \cap g.op.query = {}
    BY <1>4
  <2>3. Sent(m, keywords) = [query |-> {}, json |-> keywords]
    BY <2>1, SentOf
  <2> QED BY <2>2, <2>3
<1>5. CASE g.op.query = {} /\ g.op.fields = {}
  <2>1. m.payload \in {"json", "none"}
    BY <1>1, <1>5 DEF payload_of
  <2>2. keywords = {}
    BY <1>5
  <2>3. Sent(m, keywords) = [query |-> {}, json |-> {}]
    BY <2>1, <2>2, SentOf
  <2> QED BY <2>2, <2>3
<1> QED BY <1>2, <1>3, <1>4, <1>5

\* A method whose contract test passes does what the document and the map say.
LEMMA PassedIsFaithful ==
  ASSUME NEW g, NEW imported, Passes(emit_contract_test(g), emit_method(g), imported)
  PROVE  Faithful(emit_method(g), g)
<1> DEFINE m == emit_method(g)
           t == emit_contract_test(g)
<1>1. m.verb = g.op.verb /\ m.path = g.op.path
  BY MethodFields
<1>2. m.result = IF g.sse THEN "events"
                 ELSE IF g.op.response = "text" THEN "stream" ELSE return_type(g.op)
  BY DEF Passes, emit_contract_test
<1>3. ASSUME NEW keywords \in SUBSET (g.op.query \cup g.op.fields)
      PROVE  Accepts(m, keywords)
  <2>1. Accepts(m, g.op.query \cup g.op.fields)
    BY DEF Passes, emit_contract_test
  <2> HIDE DEF m
  <2> QED BY <2>1 DEF Accepts
<1> QED BY <1>1, <1>2, <1>3, PassedSendsAll DEF Faithful

\* An operation that shares its name with no other of its module is the only one of it.
LEMMA UnsharedIsOnly ==
  ASSUME IInv, phase = "done", NEW i \in DOMAIN resource_map,
         NEW k \in DOMAIN generated_ops(i), ~SharesName(i, generated_ops(i)[k]),
         NEW j \in DOMAIN generated_ops(i), generated_ops(i)[j].name = generated_ops(i)[k].name
  PROVE  j = k
<1> DEFINE gs == generated_ops(i)
           S == {l \in DOMAIN resource_map[i].ops : gs[l].name = gs[k].name}
<1>1. IsFiniteSet(S) /\ j \in S /\ k \in S
  BY DoneFiles, FS_Subset
<1>2. ~(Cardinality(S) > 1)
  BY DEF SharesName
<1> HIDE DEF S
<1>3. ASSUME j # k PROVE FALSE
  <2>1. IsFiniteSet({k}) /\ Cardinality({k}) = 1
    BY FS_Singleton
  <2>2. {k} \in SUBSET S /\ {k} # S
    BY <1>1, <1>3
  <2>3. Cardinality({k}) <= Cardinality(S) /\ Cardinality(S) # Cardinality({k})
    BY <1>1, <2>2, FS_Subset
  <2>4. Cardinality(S) \in Nat
    BY <1>1, FS_CardinalityType
  <2> QED BY <1>2, <2>1, <2>3, <2>4
<1> QED BY <1>3

\* When a run is done and its contract tests pass, every method does what the document
\* says of its operation, unless operations share a name and ruff did not run.
THEOREM TestsProveFaithful == Spec => []TestedMeansFaithful
<1>1. ASSUME IInv, FInv, phase = "done", TestsPass, NEW i \in DOMAIN resource_map,
             NEW g \in ToSet(generated_ops(i)), ruff \/ ~SharesName(i, g)
      PROVE  Faithful(LastNamed(tree.resources[resource_map[i].name].methods, g.name), g)
  <2> DEFINE gs == generated_ops(i)
             n == resource_map[i].name
             ms == tree.resources[n].methods
             ts == tree.tests[n]
  <2>1. PICK k \in DOMAIN gs : g = gs[k]
    BY <1>1 DEF ToSet
  <2>2. \A j \in DOMAIN gs : gs[j].name = gs[k].name => j = k
    BY <1>1, <2>1, RuffFindsOneName, UnsharedIsOnly DEF NamesOnce
  <2>3. /\ DOMAIN gs \subseteq Nat
        /\ ms = [j \in DOMAIN gs |-> emit_method(gs[j])]
        /\ ts = [j \in DOMAIN gs |-> emit_contract_test(gs[j])]
    BY <1>1, DoneFiles
  <2>4. Passes(LastNamed(ts, ts[k].name), LastNamed(ms, ts[k].name), tree.resources[n].models)
    BY <1>1, <2>3 DEF TestsPass, ModuleNames
  <2>5. /\ \A j \in DOMAIN gs : ms[j].name = gs[j].name
        /\ \A j \in DOMAIN gs : ts[j].name = gs[j].name
    <3> HIDE DEF gs, ms, ts
    <3>1. \A h : emit_contract_test(h).name = h.name
      BY DEF emit_contract_test
    <3> QED BY <2>3, <3>1, MethodFields
  <2> HIDE DEF gs, ms, ts
  <2>6. LastNamed(ms, ms[k].name) = ms[k] /\ LastNamed(ts, ts[k].name) = ts[k]
    BY <2>2, <2>3, <2>5, OnlyOneNamed
  <2>7. /\ LastNamed(ms, g.name) = emit_method(g)
        /\ Passes(emit_contract_test(g), emit_method(g), tree.resources[n].models)
    BY <2>1, <2>3, <2>4, <2>5, <2>6
  <2>8. Faithful(emit_method(g), g)
    BY <2>7, PassedIsFaithful
  <2> QED BY <2>7, <2>8 DEF ms
<1>2. IInv /\ FInv => TestedMeansFaithful
  BY <1>1 DEF TestedMeansFaithful
<1> QED BY <1>2, Invariance, FilesInvariance, PTL

=============================================================================
