---------------------------- MODULE ServicesProofs --------------------------
(***************************************************************************)
(* Theorems about one call of a generated method: its request, for all     *)
(* arguments and all service_urls; what the caller gets of the answer, for *)
(* all JSON of any nesting; what printing it shows; and the events of a    *)
(* stream, of which SseProofs knows.                                       *)
(***************************************************************************)
EXTENDS Services, SseProofs

-----------------------------------------------------------------------------
(***************************************************************************)
(* Paths.                                                                  *)
(***************************************************************************)
\* The sequence of the first elements of sequences.
Heads(seqs, n) == [j \in 1..n |-> seqs[j][1]]

\* They are a sequence.
LEMMA HeadsFacts ==
  ASSUME NEW S, NEW n \in Nat, NEW seqs, \A j \in 1..n : seqs[j][1] \in S
  PROVE  /\ Heads(seqs, n) \in Seq(S) /\ Len(Heads(seqs, n)) = n
         /\ \A j \in 1..n : Heads(seqs, n)[j] = seqs[j][1]
BY DEF Heads

\* Sequences of one element each, put together, are the sequence of these elements.
LEMMA FlattenSingles ==
  ASSUME NEW S, NEW seqs \in Seq(Seq(S)), seqs # <<>>, \A i \in DOMAIN seqs : Len(seqs[i]) = 1
  PROVE  FlattenSeq(seqs) = Heads(seqs, Len(seqs))
<1> DEFINE heads == [i \in 1..Len(seqs) |-> Heads(seqs, i)]
           N == Len(seqs)
<1>1. N \in Nat \ {0} /\ DOMAIN seqs = 1..N
  OBVIOUS
<1>2. \A i \in 1..N : seqs[i] \in Seq(S) /\ Len(seqs[i]) = 1
  BY <1>1, ElementOfSeq
<1>3. \A i \in 1..N : seqs[i] = <<seqs[i][1]>>
  <2>1. TAKE i \in 1..N
  <2>2. seqs[i] = [j \in 1..Len(seqs[i]) |-> seqs[i][j]]
    BY <1>2
  <2> QED BY <1>2, <2>2
<1>4. ASSUME NEW i \in 1..N, NEW k \in 1..N, i = k + 1
      PROVE  Heads(seqs, k) \o seqs[i] = Heads(seqs, i)
  <2>1. PICK x : x = seqs[i][1] /\ seqs[i] = <<x>>
    BY <1>1, <1>3
  <2>2. PICK h : h = Heads(seqs, k)
    OBVIOUS
  <2>3. h \in Seq(S) /\ Len(h) = k /\ \A j \in 1..k : h[j] = seqs[j][1]
    <3>1. \A j \in 1..k : seqs[j][1] \in S
      <4>1. \A j \in 1..k : j \in 1..N
        BY <1>1
      <4> QED BY <1>2, <4>1
    <3> QED BY <1>1, <2>2, <3>1, HeadsFacts
  <2>4. /\ h \o <<x>> \in Seq(S) /\ Len(h \o <<x>>) = i
        /\ \A j \in 1..i : (h \o <<x>>)[j] = seqs[j][1]
    BY <1>1, <1>2, <1>4, <2>1, <2>3
  <2>5. h \o <<x>> = [j \in 1..i |-> (h \o <<x>>)[j]]
    BY <2>4
  <2> QED BY <2>1, <2>2, <2>4, <2>5 DEF Heads
<1>5. Heads(seqs, 1) = seqs[1]
  BY <1>1, <1>3 DEF Heads
<1>6. Flattens(heads, seqs)
  <2>2. ASSUME NEW i \in 1..N
        PROVE  Heads(seqs, i) = IF i = 1 THEN seqs[i] ELSE heads[i - 1] \o seqs[i]
    <3>1. CASE i = 1
      BY <1>5, <3>1
    <3>2. CASE i # 1
      <4>1. PICK k \in 1..N : i = k + 1 /\ k = i - 1
        BY <1>1, <3>2
      <4> QED BY <1>4, <3>2, <4>1
    <3> QED BY <3>1, <3>2
  <2> QED BY <2>2 DEF Flattens
<1>7. FlattenSeq(seqs) = heads[N]
  <2> HIDE DEF heads
  <2> QED BY <1>1, <1>6, FlattensTo
<1> QED BY <1>1, <1>7

\* Dots are no name.
LEMMA DotsAreNoNames == Empty \in NoNames /\ ".." \in NoNames
BY Zenon DEF NoNames

\* What is left of the first n of plain segments are these segments.
LEMMA ResolvedPlain ==
  ASSUME NEW path \in Seq(STRING), \A i \in DOMAIN path : IsPlain(path[i]), NEW n \in 0..Len(path)
  PROVE  resolved(path)[n] = [i \in 1..n |-> path[i]]
<1> DEFINE N == Len(path)
           Kept(m) == [i \in 1..m |-> path[i]]
           Step(f, m) ==
             IF m = 0 THEN <<>>
             ELSE IF path[m] = ".." /\ f[m - 1] # <<>> THEN Front(f[m - 1])
             ELSE IF path[m] \in NoNames THEN f[m - 1]
             ELSE Append(f[m - 1], path[m])
           Resolves(f) == f = [m \in 0..N |-> Step(f, m)]
           kept == [m \in 0..N |-> Kept(m)]
           done == CHOOSE f : Resolves(f)
<1>1. N \in Nat
      /\ \A m \in 1..N : path[m] # ".." /\ path[m] \notin NoNames /\ path[m] \in STRING
  <2>1. N \in Nat /\ DOMAIN path = 1..N
    OBVIOUS
  <2>2. \A m \in 1..N : path[m] \in STRING
    BY ElementOfSeq
  <2> HIDE DEF N
  <2>3. ASSUME NEW m \in 1..N PROVE path[m] # ".." /\ path[m] \notin NoNames
    BY <2>1, DotsAreNoNames DEF IsPlain
  <2> QED BY <2>1, <2>2, <2>3
<1> HIDE DEF N
<1>2. ASSUME NEW m \in 1..N, NEW k \in 0..N, m = k + 1
      PROVE  Append(Kept(k), path[m]) = Kept(m)
  <2>1. k \in Nat /\ \A i \in 1..k : path[i] \in STRING
    BY <1>1
  <2>2. PICK h : h = Kept(k)
    OBVIOUS
  <2>6. h = [i \in 1..k |-> h[i]] /\ \A i \in 1..k : h[i] = path[i]
    BY <2>2
  <2>3. h \in Seq(STRING) /\ Len(h) = k /\ \A i \in 1..k : h[i] = path[i]
    BY <2>1, <2>6, IsSequence
  <2>4. /\ Append(h, path[m]) \in Seq(STRING) /\ Len(Append(h, path[m])) = m
        /\ \A i \in 1..m : Append(h, path[m])[i] = path[i]
    BY <1>1, <1>2, <2>3
  <2>5. Append(h, path[m]) = [i \in 1..m |-> Append(h, path[m])[i]]
    BY <2>4
  <2> QED BY <2>2, <2>4, <2>5
<1>3. Kept(0) = <<>>
  OBVIOUS
<1>4. Resolves(kept)
  <2>1. ASSUME NEW m \in 0..N PROVE Kept(m) = Step(kept, m)
    <3>1. CASE m = 0
      BY <1>3, <3>1
    <3>2. CASE m # 0
      <4>1. PICK k \in 0..N : m = k + 1 /\ k = m - 1 /\ m \in 1..N
        BY <1>1, <3>2
      <4> HIDE DEF Kept
      <4>2. kept[m - 1] = Kept(k)
        BY <4>1
      <4> HIDE DEF kept
      <4> QED BY <1>1, <1>2, <3>2, <4>1, <4>2
    <3> QED BY <3>1, <3>2
  <2> HIDE DEF Kept, Step
  <2> QED BY <2>1
<1>5. Resolves(done)
  <2> HIDE DEF Resolves, kept
  <2> QED BY <1>4
<1>6. resolved(path) = done
  BY DEF resolved, N
<1> HIDE DEF done, kept
<1>7. \A m \in 0..N : done[m] = Step(done, m)
  <2> HIDE DEF Step
  <2> QED BY <1>5
<1>8. \A m \in 0..N : done[m] = Kept(m)
  <2> DEFINE Wrong == {m \in 0..N : done[m] # Kept(m)}
  <2>1. SUFFICES ASSUME Wrong # {} PROVE FALSE
    OBVIOUS
  <2>2. Wrong \in SUBSET Nat
    BY <1>1
  <2>3. PICK m \in Wrong : \A j \in Wrong : m <= j
    <3> HIDE DEF Wrong
    <3> QED BY <2>1, <2>2, LeastOf
  <2> HIDE DEF Kept
  <2>4. m # 0
    BY <1>3, <1>7, <2>3
  <2>5. PICK k \in 0..N : m = k + 1 /\ k = m - 1 /\ ~(m <= k) /\ m \in 1..N
    BY <1>1, <2>4
  <2>6. done[k] = Kept(k)
    BY <2>3, <2>5
  <2>7. done[m] = Append(done[k], path[m])
    BY <1>1, <1>7, <2>4, <2>5
  <2>8. done[m] = Kept(m)
    BY <1>2, <2>5, <2>6, <2>7
  <2> QED BY <2>3, <2>8
<1> QED BY <1>6, <1>8 DEF N

\* A path of plain segments is requested as it is.
LEMMA PlainUrl ==
  ASSUME NEW path \in Seq(STRING) \ {<<>>}, \A i \in DOMAIN path : IsPlain(path[i])
  PROVE  url_for(path) = path
<1>1. Len(path) \in 1..Len(path) /\ DOMAIN path = 1..Len(path)
  OBVIOUS
<1>2. {i \in DOMAIN path : path[i] = Cut} = {}
  BY DEF IsPlain
<1>3. Last(path) \notin NoNames
  BY <1>1 DEF Last, IsPlain
<1>4. resolved(path)[Len(path)] = [i \in 1..Len(path) |-> path[i]]
  BY <1>1, ResolvedPlain
<1>5. [i \in 1..Len(path) |-> path[i]] = path
  BY <1>1
<1> QED BY <1>2, <1>3, <1>4, <1>5 DEF url_for

\* A method's path with each argument in its place.
Filled(op, args) ==
  [i \in DOMAIN op.path |->
    IF op.path[i] \in PathParams THEN args[op.path[i]][1] ELSE op.path[i]]

\* Arguments that are words take the place of one segment each.
LEMMA WordsFillPath ==
  ASSUME NEW o \in Operations, NEW args,
         \A p \in Arguments(method(o)) : args[p] \in Seq(STRING) /\ IsWord(args[p])
  PROVE  /\ Filled(method(o), args) \in Seq(STRING) \ {<<>>}
         /\ \A i \in DOMAIN Filled(method(o), args) : IsPlain(Filled(method(o), args)[i])
         /\ PathOf(method(o), args) = Filled(method(o), args)
<1> DEFINE path == method(o).path
           seqs == [i \in DOMAIN path |->
                     IF path[i] \in PathParams THEN args[path[i]] ELSE <<path[i]>>]
<1>1. path \in Seq(STRING) \ {<<>>} /\ \A i \in DOMAIN path : IsPlain(path[i])
  BY PathsAssumption
<1>2. \A i \in DOMAIN path : path[i] \in PathParams => path[i] \in Arguments(method(o))
  BY DEF Arguments
<1>3. \A i \in DOMAIN path : seqs[i] \in Seq(STRING) /\ Len(seqs[i]) = 1 /\ IsPlain(seqs[i][1])
  <2> TAKE i \in DOMAIN path
  <2>1. path[i] \in STRING
    BY <1>1
  <2>2. CASE path[i] \in PathParams
    BY <1>2, <2>2 DEF IsWord
  <2>3. CASE path[i] \notin PathParams
    <3>1. PICK x : x = path[i] /\ x \in STRING /\ IsPlain(x) /\ seqs[i] = <<x>>
      BY <1>1, <2>1, <2>3
    <3>2. <<x>> \in Seq(STRING) /\ Len(<<x>>) = 1 /\ <<x>>[1] = x
      BY <3>1, OneElement
    <3> QED BY <3>1, <3>2
  <2> QED BY <2>2, <2>3
<1>4. DOMAIN path = 1..Len(path) /\ Len(path) \in Nat \ {0}
  BY <1>1
<1>5. seqs \in Seq(Seq(STRING)) /\ seqs # <<>> /\ Len(seqs) = Len(path)
      /\ DOMAIN seqs = DOMAIN path
  <2> HIDE DEF path
  <2>1. seqs \in [1..Len(path) -> Seq(STRING)]
    BY <1>3, <1>4
  <2> HIDE DEF seqs
  <2> QED BY <1>4, <2>1
<1>6. Filled(method(o), args) = Heads(seqs, Len(seqs))
  BY <1>4, <1>5 DEF Filled, Heads
<1> HIDE DEF seqs
<1>7. FlattenSeq(seqs) = Heads(seqs, Len(seqs))
  BY <1>3, <1>5, FlattenSingles
<1>8. /\ Heads(seqs, Len(seqs)) \in Seq(STRING) /\ Len(Heads(seqs, Len(seqs))) = Len(path)
      /\ \A i \in 1..Len(path) : Heads(seqs, Len(seqs))[i] = seqs[i][1]
  <2>1. PICK n \in Nat : n = Len(seqs) /\ n = Len(path) /\ 1..n = DOMAIN path
    BY <1>4, <1>5
  <2>2. \A j \in 1..n : seqs[j][1] \in STRING
    <3> TAKE j \in 1..n
    <3>1. PICK s \in Seq(STRING) : s = seqs[j] /\ Len(s) = 1
      BY <1>3, <2>1
    <3>2. s[1] \in STRING
      BY <3>1, ElementOfSeq
    <3> QED BY <3>1, <3>2
  <2>3. /\ Heads(seqs, n) \in Seq(STRING) /\ Len(Heads(seqs, n)) = n
        /\ \A j \in 1..n : Heads(seqs, n)[j] = seqs[j][1]
    <3>1. PICK q : q = seqs
      OBVIOUS
    <3>2. \A j \in 1..n : q[j][1] \in STRING
      BY <2>2, <3>1
    <3>3. /\ Heads(q, n) \in Seq(STRING) /\ Len(Heads(q, n)) = n
          /\ \A j \in 1..n : Heads(q, n)[j] = q[j][1]
      BY <3>2, HeadsFacts
    <3> QED BY <3>1, <3>3
  <2> QED BY <2>1, <2>3
<1>9. PathOf(method(o), args) = FlattenSeq(seqs)
  BY DEF PathOf, seqs
<1> HIDE DEF path
<1> QED BY <1>3, <1>4, <1>5, <1>6, <1>7, <1>8, <1>9

-----------------------------------------------------------------------------
(***************************************************************************)
(* Calls.                                                                  *)
(***************************************************************************)
\* What a call is made of.
LEMMA CallFacts ==
  ASSUME NEW o \in Operations, NEW c \in Calls(o)
  PROVE  /\ c = [op |-> o, via |-> c.via, args |-> c.args, params |-> c.params]
         /\ c.op = o
         /\ c.via = "client" => DOMAIN c.args = Arguments(method(o))
         /\ c.via # "client" => /\ c.via = "handle" /\ o[1] \in SessionServiceNames
                                /\ DOMAIN c.args \in {Arguments(method(o)),
                                                      Arguments(method(o)) \ {":session_id"}}
         /\ DOMAIN c.args \subseteq Arguments(method(o))
         /\ \A p \in DOMAIN c.args : c.args[p] \in Ids \cup {Usual}
         /\ DOMAIN c.params \subseteq Fields(o)
<1> DEFINE given == [Arguments(method(o)) -> Ids \cup {Usual}]
           open == [Arguments(method(o)) \ {":session_id"} -> Ids \cup {Usual}]
           params == {[f \in s |-> Theirs] : s \in SUBSET Fields(o)}
<1>1. \/ c \in [op : {o}, via : {"client"}, args : given, params : params]
      \/ /\ c \in [op : {o}, via : {"handle"}, args : given \cup open, params : params]
         /\ o[1] \in SessionServiceNames
  BY DEF Calls
<1>2. /\ c = [op |-> o, via |-> c.via, args |-> c.args, params |-> c.params] /\ c.op = o
      /\ c.params \in params
      /\ \/ c.via = "client" /\ c.args \in given
         \/ c.via = "handle" /\ c.args \in given \cup open /\ o[1] \in SessionServiceNames
  <2> HIDE DEF given, open, params
  <2> QED BY <1>1
<1>3. DOMAIN c.params \subseteq Fields(o)
  BY <1>2
<1>4. \A p \in DOMAIN c.args : c.args[p] \in Ids \cup {Usual}
  BY <1>2
<1>5. /\ c.via = "client" => DOMAIN c.args = Arguments(method(o))
      /\ DOMAIN c.args \in {Arguments(method(o)), Arguments(method(o)) \ {":session_id"}}
      /\ DOMAIN c.args \subseteq Arguments(method(o))
  BY <1>2
<1> QED BY <1>2, <1>3, <1>4, <1>5

\* Every parameter a call passes is the caller's.
LEMMA CallParams ==
  ASSUME NEW o \in Operations, NEW c \in Calls(o)
  PROVE  \A f \in DOMAIN c.params : c.params[f] = Theirs
<1> DEFINE params == {[f \in s |-> Theirs] : s \in SUBSET Fields(o)}
<1>1. c.params \in params
  BY DEF Calls
<1> QED BY <1>1

\* The call as the method gets it.
Given(c) == IF c.via = "handle" THEN with_session(method(c.op), c) ELSE c

\* A handle completes the arguments or the parameters, and changes none.
LEMMA GivenFacts ==
  ASSUME NEW o \in Operations, NEW c \in Calls(o)
  PROVE  /\ Made(c) = RequestOf(o, Given(c))
         /\ DOMAIN Given(c).args = Arguments(method(o))
         /\ \A p \in DOMAIN c.args : Given(c).args[p] = c.args[p]
         /\ \A p \in Arguments(method(o)) \ DOMAIN c.args :
              p = ":session_id" /\ Given(c).args[p] = Own
         /\ Given(c).params =
              IF /\ c.via = "handle" /\ TakesParams(method(o))
                 /\ ":session_id" \notin Arguments(method(o))
              THEN setdefault(c.params, "sessionId", Own) ELSE c.params
<1>1. c = [op |-> o, via |-> c.via, args |-> c.args, params |-> c.params] /\ c.op = o
  BY CallFacts, Zenon
<1>2. Made(c) = RequestOf(o, Given(c))
  BY <1>1 DEF Made, Given
<1>3. CASE c.via # "handle"
  BY <1>2, <1>3, CallFacts DEF Given
<1>4. CASE c.via = "handle" /\ ":session_id" \in Arguments(method(o))
  <2>1. Given(c) = [c EXCEPT !.args = setdefault(c.args, ":session_id", Own)]
    BY <1>1, <1>4 DEF Given, with_session
  <2>2. Given(c).args = setdefault(c.args, ":session_id", Own) /\ Given(c).params = c.params
    BY <1>1, <2>1
  <2>3. DOMAIN c.args \in {Arguments(method(o)), Arguments(method(o)) \ {":session_id"}}
    BY <1>4, CallFacts
  <2> QED BY <1>2, <1>4, <2>2, <2>3 DEF setdefault
<1>5. CASE c.via = "handle" /\ ":session_id" \notin Arguments(method(o))
  <2>1. Given(c).args = c.args
    BY <1>1, <1>5 DEF Given, with_session
  <2>2. Given(c).params = IF TakesParams(method(o)) THEN setdefault(c.params, "sessionId", Own)
                          ELSE c.params
    BY <1>1, <1>5 DEF Given, with_session
  <2>3. DOMAIN c.args = Arguments(method(o))
    BY <1>5, CallFacts
  <2> QED BY <1>2, <1>5, <2>1, <2>2, <2>3
<1> QED BY <1>3, <1>4, <1>5

\* The handle's id and the usual argument are words.
LEMMA OwnIsWord == IsWord(Own) /\ Own \in Seq(STRING) /\ Usual \in Seq(STRING)
<1>1. IsPlain("own")
  BY Zenon DEF IsPlain, NoNames, Empty, Cut
<1>2. Len(Own) = 1 /\ Own[1] = "own"
  BY DEF Own
<1> QED BY <1>1, <1>2, IdsAssumption DEF IsWord

\* A call with words for arguments requests the method's path, with each word in its place.
LEMMA WordsRequested ==
  ASSUME NEW o \in Operations, NEW c \in Calls(o), \A p \in DOMAIN c.args : IsWord(c.args[p])
  PROVE  /\ Made(c).path = Filled(method(o), Given(c).args)
         /\ Made(c).path \in Seq(STRING) \ {<<>>}
         /\ \A i \in DOMAIN Made(c).path : IsPlain(Made(c).path[i])
         /\ \A p \in Arguments(method(o)) : IsWord(Given(c).args[p])
                                            /\ Given(c).args[p] \in Seq(STRING)
<1>1. ASSUME NEW p \in Arguments(method(o))
      PROVE  IsWord(Given(c).args[p]) /\ Given(c).args[p] \in Seq(STRING)
  <2>1. CASE p \in DOMAIN c.args
    <3>1. c.args[p] \in Ids \cup {Usual}
      BY <2>1, CallFacts, Zenon
    <3>2. Given(c).args[p] = c.args[p]
      BY <2>1, GivenFacts, Zenon
    <3> QED BY <2>1, <3>1, <3>2, OwnIsWord, IdsAssumption
  <2>2. CASE p \notin DOMAIN c.args
    BY <2>2, GivenFacts, OwnIsWord
  <2> QED BY <2>1, <2>2
<1>2. PICK args : args = Given(c).args
  OBVIOUS
<1>3. PICK path : path = Filled(method(o), args)
  OBVIOUS
<1>4. /\ path \in Seq(STRING) \ {<<>>} /\ \A i \in DOMAIN path : IsPlain(path[i])
      /\ PathOf(method(o), args) = path
  BY <1>1, <1>2, <1>3, WordsFillPath
<1>5. url_for(path) = path
  BY <1>4, PlainUrl
<1>6. Made(c).path = url_for(PathOf(method(o), args))
  BY <1>2, GivenFacts DEF RequestOf
<1> QED BY <1>1, <1>2, <1>3, <1>4, <1>5, <1>6

-----------------------------------------------------------------------------
(***************************************************************************)
(* Where a request of words goes.                                          *)
(***************************************************************************)
\* The segments of the path requested, by the template.
LEMMA PathSegments ==
  ASSUME NEW o \in Operations, NEW c \in Calls(o), \A p \in DOMAIN c.args : IsWord(c.args[p])
  PROVE  /\ DOMAIN Made(c).path = DOMAIN method(o).path
         /\ Len(Made(c).path) = Len(method(o).path)
         /\ \A i \in DOMAIN method(o).path :
              method(o).path[i] \notin PathParams => Made(c).path[i] = method(o).path[i]
<1>1. PICK path : path = Made(c).path
  OBVIOUS
<1>2. path = Filled(method(o), Given(c).args) /\ path \in Seq(STRING)
  BY <1>1, WordsRequested
<1>3. method(o).path \in Seq(STRING)
  BY PathsAssumption
<1>4. DOMAIN path = DOMAIN method(o).path
  BY <1>2 DEF Filled
<1>5. Len(path) = Len(method(o).path)
  BY <1>2, <1>3, <1>4
<1> QED BY <1>1, <1>2, <1>4, <1>5 DEF Filled

\* A path without odd segments matches a template of its length whose fixed segments it has.
LEMMA PlainMatches ==
  ASSUME NEW template, NEW path \in Seq(STRING) \ {<<>>}, \A i \in DOMAIN path : IsPlain(path[i])
  PROVE  Matches(template, path) <=>
           /\ Len(path) = Len(template)
           /\ \A i \in DOMAIN path : template[i] \notin PathParams => template[i] = path[i]
<1>1. \A i \in DOMAIN path : path[i] # Empty
  BY DotsAreNoNames DEF IsPlain
<1>2. Last(path) # Empty
  <2>1. Len(path) \in DOMAIN path
    OBVIOUS
  <2> QED BY <1>1, <2>1 DEF Last
<1> QED BY <1>1, <1>2 DEF Matches

\* It reaches the route of its method.
LEMMA ReachesOwnRoute ==
  ASSUME NEW o \in Operations, NEW c \in Calls(o), \A p \in DOMAIN c.args : IsWord(c.args[p])
  PROVE  o \in Routed(Made(c))
<1>1. Made(c).verb = method(o).verb /\ Made(c).base = base_url_for(resources[o[1]].service)
  BY GivenFacts DEF RequestOf
<1>2. method(o).verb \in Methods
  BY PathsAssumption
<1>3. o \in Routes[Made(c).verb]
  BY <1>1, <1>2 DEF Routes
<1>4. Made(c).base \in {"base_url", resources[o[1]].service}
  BY <1>1 DEF base_url_for
<1>5. Matches(method(o).path, Made(c).path)
  <2>1. PICK path, template : path = Made(c).path /\ template = method(o).path
    OBVIOUS
  <2>2. /\ path \in Seq(STRING) \ {<<>>} /\ \A i \in DOMAIN path : IsPlain(path[i])
        /\ Len(path) = Len(template) /\ DOMAIN path = DOMAIN template
        /\ \A i \in DOMAIN path : template[i] \notin PathParams => template[i] = path[i]
    BY <2>1, WordsRequested, PathSegments
  <2> QED BY <2>1, <2>2, PlainMatches
<1> QED BY <1>3, <1>4, <1>5 DEF Routed

\* Reserved words and the segments of the crossed path are no parameters.
LEMMA ReservedAreFixed ==
  /\ ReservedWords \cap PathParams = {}
  /\ Len(CrossedPath) = 3 /\ CrossedPath = [i \in 1..3 |-> CrossedPath[i]]
  /\ \A i \in 1..3 : CrossedPath[i] \notin PathParams
<1>1. ReservedWords \cap PathParams = {}
  BY DEF ReservedWords, PathParams
<1>2. Len(CrossedPath) = 3 /\ CrossedPath = [i \in 1..3 |-> CrossedPath[i]]
  BY DEF CrossedPath
<1>3. /\ CrossedPath[1] = "automations" /\ CrossedPath[2] = "webhook"
      /\ CrossedPath[3] = "run"
  BY DEF CrossedPath
<1>4. {"automations", "webhook", "run"} \cap PathParams = {}
  BY DEF PathParams
<1> QED BY <1>1, <1>2, <1>3, <1>4

\* And no other, but where templates cross.
LEMMA ReachesNoOther ==
  ASSUME NEW o \in Operations, NEW c \in Calls(o), \A p \in DOMAIN c.args : IsWord(c.args[p]),
         NEW other \in Routed(Made(c)), other # o
  PROVE  \/ \E i \in DOMAIN Made(c).path : Made(c).path[i] \in ReservedWords
         \/ Made(c).path = CrossedPath
<1>1. PICK path, a, b : path = Made(c).path /\ a = method(o).path /\ b = method(other).path
  OBVIOUS
<1>2. /\ path \in Seq(STRING) \ {<<>>} /\ \A i \in DOMAIN path : IsPlain(path[i])
      /\ Len(path) = Len(a) /\ DOMAIN path = DOMAIN a
      /\ \A i \in DOMAIN path : a[i] \notin PathParams => path[i] = a[i]
  BY <1>1, WordsRequested, PathSegments
<1>3. /\ other \in Operations /\ method(other).verb = method(o).verb /\ Matches(b, path)
  BY <1>1, GivenFacts, PathsAssumption DEF Routed, Routes, RequestOf
<1>4. Len(path) = Len(b) /\ \A i \in DOMAIN path : b[i] \notin PathParams => path[i] = b[i]
  BY <1>2, <1>3, PlainMatches
<1>5. ToldApart(a, b)
  BY <1>1, <1>2, <1>3, <1>4, RoutesAssumption
<1>6. CASE \E i \in DOMAIN a : {a[i], b[i]} \cap ReservedWords # {}
  <2>1. PICK i \in DOMAIN path : a[i] \in ReservedWords \/ b[i] \in ReservedWords
    BY <1>2, <1>6
  <2>2. path[i] \in ReservedWords
    BY <1>2, <1>4, <2>1, ReservedAreFixed
  <2> QED BY <1>1, <2>2
<1>7. CASE \E i \in DOMAIN a : a[i] # b[i] /\ {a[i], b[i]} \cap PathParams = {}
  <2>1. PICK i \in DOMAIN path : a[i] # b[i] /\ a[i] \notin PathParams /\ b[i] \notin PathParams
    BY <1>2, <1>7
  <2> QED BY <1>2, <1>4, <2>1
<1>8. CASE Len(a) = Len(CrossedPath) /\ \A i \in DOMAIN a : CrossedPath[i] \in {a[i], b[i]}
  <2>1. DOMAIN path = 1..3 /\ Len(path) = 3
    BY <1>2, <1>8, ReservedAreFixed
  <2>2. \A i \in 1..3 : path[i] = CrossedPath[i]
    BY <1>2, <1>4, <1>8, <2>1, ReservedAreFixed
  <2>3. path = CrossedPath
    BY <1>2, <2>1, <2>2, ReservedAreFixed
  <2> QED BY <1>1, <2>3
<1> QED BY <1>5, <1>6, <1>7, <1>8 DEF ToldApart

-----------------------------------------------------------------------------
(***************************************************************************)
(* The session a call carries.                                             *)
(***************************************************************************)
\* SessionSent, of any call and request.
SessionIn(c, r) ==
  LET op == method(c.op)
  IN  IF ":session_id" \in Arguments(op)
      THEN {<<r.path[i]>> : i \in {k \in DOMAIN op.path : op.path[k] = ":session_id"}}
      ELSE {r.payload[f] : f \in DOMAIN r.payload \cap {"sessionId"}}

\* In the path goes the id that was passed, or the handle's.
LEMMA SessionInPath ==
  ASSUME NEW o \in Operations, NEW c \in Calls(o), \A p \in DOMAIN c.args : IsWord(c.args[p]),
         ":session_id" \in Arguments(method(o))
  PROVE  SessionIn(c, Made(c)) =
           {IF ":session_id" \in DOMAIN c.args THEN c.args[":session_id"] ELSE Own}
<1>1. PICK path, template, id :
        path = Made(c).path /\ template = method(o).path /\ id = Given(c).args[":session_id"]
  OBVIOUS
<1>2. IsWord(id) /\ id \in Seq(STRING)
  BY <1>1, WordsRequested
<1>3. <<id[1]>> = id
  BY <1>2 DEF IsWord
<1>4. \A i \in DOMAIN template : template[i] = ":session_id" => path[i] = id[1]
  <2>1. path = Filled(method(o), Given(c).args)
    BY <1>1, WordsRequested
  <2>2. ":session_id" \in PathParams
    BY DEF PathParams
  <2> QED BY <1>1, <2>1, <2>2 DEF Filled
<1>5. \E i \in DOMAIN template : template[i] = ":session_id"
  BY <1>1 DEF Arguments
<1>6. {<<path[i]>> : i \in {k \in DOMAIN template : template[k] = ":session_id"}} = {id}
  BY <1>3, <1>4, <1>5
<1>7. c.op = o
  BY CallFacts, Zenon
<1>8. id = IF ":session_id" \in DOMAIN c.args THEN c.args[":session_id"] ELSE Own
  BY <1>1, GivenFacts
<1> QED BY <1>1, <1>6, <1>7, <1>8 DEF SessionIn

\* Among the parameters goes the one that was passed, or the handle's where the method
\* takes parameters.
LEMMA SessionInParams ==
  ASSUME NEW o \in Operations, NEW c \in Calls(o), ":session_id" \notin Arguments(method(o))
  PROVE  SessionIn(c, Made(c)) =
           IF "sessionId" \in DOMAIN c.params THEN {Theirs}
           ELSE IF c.via = "handle" /\ TakesParams(method(o)) THEN {Own} ELSE {}
<1>1. PICK payload : payload = Made(c).payload
  OBVIOUS
<1>2. payload = IF c.via = "handle" /\ TakesParams(method(o))
                THEN setdefault(c.params, "sessionId", Own) ELSE c.params
  BY <1>1, GivenFacts DEF RequestOf
<1>3. c.op = o
  BY CallFacts, Zenon
<1>4. SessionIn(c, Made(c)) = {payload[f] : f \in DOMAIN payload \cap {"sessionId"}}
  BY <1>1, <1>3 DEF SessionIn
<1>5. \A f \in DOMAIN c.params : c.params[f] = Theirs
  BY CallParams
<1> QED BY <1>2, <1>4, <1>5 DEF setdefault

-----------------------------------------------------------------------------
(***************************************************************************)
(* The invariant: the request is that of the call, and it has reached what *)
(* it is routed to.                                                        *)
(***************************************************************************)
CallMade ==
  phase # "idle" => \E o \in Operations : call \in Calls(o) /\ request = Made(call)

RouteTaken == reached = IF phase \in {"idle", "sent"} THEN {} ELSE Routed(request)

RequestInv ==
  /\ phase \in {"idle", "sent", "answered", "listening", "done"}
  /\ CallMade
  /\ RouteTaken

\* RequestInv is an invariant of RequestSpec.
THEOREM RequestInvariance == RequestSpec => []RequestInv
<1>1. RequestInit => RequestInv
  BY DEF RequestInit, RequestInv, CallMade, RouteTaken
<1>2. RequestInv /\ [RequestNext]_requestVars => RequestInv'
  <2> SUFFICES ASSUME RequestInv, [RequestNext]_requestVars PROVE RequestInv'
    OBVIOUS
  <2>1. CASE Invoke
    BY <2>1 DEF Invoke, RequestInv, CallMade, RouteTaken
  <2>2. CASE Arrive
    BY <2>2 DEF Arrive, RequestInv, CallMade, RouteTaken
  <2>3. CASE Later
    BY <2>3 DEF Later, RequestInv, CallMade, RouteTaken
  <2>4. CASE UNCHANGED requestVars
    BY <2>4 DEF requestVars, RequestInv, CallMade, RouteTaken
  <2> QED BY <2>1, <2>2, <2>3, <2>4 DEF RequestNext
<1> QED BY <1>1, <1>2, PTL DEF RequestSpec

-----------------------------------------------------------------------------
(***************************************************************************)
(* The theorems.                                                           *)
(***************************************************************************)
\* Every variable of the request has its type.
THEOREM RequestsTyped == RequestSpec => []RequestTypeOK
<1>1. ASSUME RequestInv PROVE RequestTypeOK
  <2>1. ASSUME phase # "idle"
        PROVE  /\ call.op \in Operations
               /\ request.verb \in Methods
               /\ request.base \in ServiceUrls \cup {"base_url"}
               /\ DOMAIN request.payload \subseteq {"field", "sessionId"}
    <3>1. PICK o \in Operations : call \in Calls(o) /\ request = Made(call)
      BY <1>1, <2>1 DEF RequestInv, CallMade
    <3>2. PICK c \in Calls(o) : c = call
      BY <3>1
    <3>3. c.op = o
      BY CallFacts, Zenon
    <3>4. /\ Made(c).verb = method(o).verb
          /\ Made(c).base = base_url_for(resources[o[1]].service)
          /\ Made(c).payload = Given(c).params
      BY GivenFacts DEF RequestOf
    <3>5. DOMAIN Given(c).params \subseteq DOMAIN c.params \cup {"sessionId"}
      BY GivenFacts DEF setdefault
    <3>6. DOMAIN c.params \subseteq {"field", "sessionId"}
      BY CallFacts DEF Fields
    <3>7. method(o).verb \in Methods
      BY PathsAssumption
    <3>8. c.op \in Operations
      BY <3>3
    <3> QED BY <3>1, <3>2, <3>4, <3>5, <3>6, <3>7, <3>8 DEF base_url_for
  <2>2. reached \subseteq Operations
    <3>1. CASE phase \in {"idle", "sent"}
      BY <1>1, <3>1 DEF RequestInv, RouteTaken
    <3>2. CASE phase \notin {"idle", "sent"}
      <4>1. request.verb \in Methods /\ reached = Routed(request)
        BY <1>1, <2>1, <3>2 DEF RequestInv, RouteTaken
      <4> QED BY <4>1 DEF Routed, Routes
    <3> QED BY <3>1, <3>2
  <2> QED BY <1>1, <2>1, <2>2 DEF RequestTypeOK, RequestInv
<1>2. RequestInv => RequestTypeOK
  BY <1>1
<1> QED BY <1>2, RequestInvariance, PTL

\* Whatever words the arguments are, the request reaches the route of its method, and no
\* other but where templates cross.
THEOREM WordsArrive == RequestSpec => []WordsReachTheirMethod
<1>1. ASSUME RequestInv, phase \notin {"idle", "sent"}, Worded
      PROVE  /\ call.op \in reached
             /\ reached # {call.op} =>
                  \/ \E i \in DOMAIN request.path : request.path[i] \in ReservedWords
                  \/ request.path = CrossedPath
  <2>1. PICK o \in Operations : call \in Calls(o) /\ request = Made(call)
    BY <1>1 DEF RequestInv, CallMade
  <2>2. PICK c \in Calls(o) : c = call
    BY <2>1
  <2>3. \A p \in DOMAIN c.args : IsWord(c.args[p])
    BY <1>1, <2>2 DEF Worded
  <2>4. request = Made(c) /\ reached = Routed(Made(c))
    BY <1>1, <2>1, <2>2 DEF RequestInv, RouteTaken
  <2>5. call.op = o
    BY <2>2, CallFacts, Zenon
  <2>6. o \in Routed(Made(c))
    BY <2>3, ReachesOwnRoute
  <2>7. ASSUME NEW other \in Routed(Made(c)), other # o
        PROVE  \/ \E i \in DOMAIN Made(c).path : Made(c).path[i] \in ReservedWords
               \/ Made(c).path = CrossedPath
    BY <2>3, <2>7, ReachesNoOther
  <2> QED BY <2>4, <2>5, <2>6, <2>7
<1>2. RequestInv => WordsReachTheirMethod
  BY <1>1 DEF WordsReachTheirMethod
<1> QED BY <1>2, RequestInvariance, PTL

\* A call through a handle carries exactly one session id, the caller's or the handle's.
THEOREM HandlesCarry == RequestSpec => []HandleCarriesSession
<1>1. ASSUME RequestInv, phase # "idle", call.via = "handle", KnowsSession(call.op),
             ":session_id" \in Arguments(method(call.op)) => Worded
      PROVE  SessionSent =
               IF ":session_id" \in DOMAIN call.args THEN {call.args[":session_id"]}
               ELSE IF "sessionId" \in DOMAIN call.params THEN {Theirs} ELSE {Own}
  <2>1. PICK o \in Operations : call \in Calls(o) /\ request = Made(call)
    BY <1>1 DEF RequestInv, CallMade
  <2>2. PICK c \in Calls(o) : c = call
    BY <2>1
  <2>3. SessionSent = SessionIn(c, Made(c))
    BY <2>1, <2>2 DEF SessionSent, SessionIn
  <2>4. c.op = o
    BY CallFacts, Zenon
  <2>5. DOMAIN c.params \subseteq Fields(o) /\ DOMAIN c.args \subseteq Arguments(method(o))
    BY CallFacts, Zenon
  <2>6. CASE ":session_id" \in Arguments(method(o))
    <3>1. "sessionId" \notin DOMAIN c.params
      BY <2>5, <2>6, SessionsAssumption DEF Fields
    <3>2. \A p \in DOMAIN c.args : IsWord(c.args[p])
      BY <1>1, <2>2, <2>4, <2>6 DEF Worded
    <3>3. SessionIn(c, Made(c)) =
            {IF ":session_id" \in DOMAIN c.args THEN c.args[":session_id"] ELSE Own}
      BY <2>6, <3>2, SessionInPath
    <3> QED BY <2>2, <2>3, <3>1, <3>3
  <2>7. CASE ":session_id" \notin Arguments(method(o))
    <3>1. DeclaresSession(o)
      BY <1>1, <2>2, <2>4, <2>7 DEF KnowsSession
    <3>2. TakesParams(method(o))
      BY <3>1, SessionsAssumption
    <3>3. SessionIn(c, Made(c)) = IF "sessionId" \in DOMAIN c.params THEN {Theirs}
                                  ELSE IF c.via = "handle" /\ TakesParams(method(o)) THEN {Own}
                                  ELSE {}
      BY <2>7, SessionInParams
    <3>4. ":session_id" \notin DOMAIN c.args
      BY <2>5, <2>7
    <3> QED BY <1>1, <2>2, <2>3, <3>2, <3>3, <3>4
  <2> QED BY <2>6, <2>7
<1>2. RequestInv => HandleCarriesSession
  BY <1>1 DEF HandleCarriesSession
<1> QED BY <1>2, RequestInvariance, PTL

\* A handle adds a session id that is not declared to the three methods and to no other;
\* without a handle the parameters are the caller's.
THEOREM OnlyDeclaredSessions == RequestSpec => []SessionOnlyWhereDeclared
<1>1. ASSUME RequestInv, phase # "idle"
      PROVE  /\ call.via = "client" => DOMAIN request.payload = DOMAIN call.params
             /\ call.via = "handle" /\ ~KnowsSession(call.op) =>
                  (SessionSent # {} <=> call.op \in TakeAnyField)
  <2>1. PICK o \in Operations : call \in Calls(o) /\ request = Made(call)
    BY <1>1 DEF RequestInv, CallMade
  <2>2. PICK c \in Calls(o) : c = call
    BY <2>1
  <2>3. c.op = o
    BY CallFacts, Zenon
  <2>4. SessionSent = SessionIn(c, Made(c))
    BY <2>1, <2>2 DEF SessionSent, SessionIn
  <2>5. ASSUME c.via = "client" PROVE Made(c).payload = c.params
    BY <2>5, GivenFacts DEF RequestOf
  <2>6. ASSUME c.via = "handle", ~KnowsSession(o)
        PROVE  SessionIn(c, Made(c)) # {} <=> o \in TakeAnyField
    <3>1. /\ o[1] \in SessionServiceNames /\ DOMAIN c.params \subseteq Fields(o)
      BY <2>6, CallFacts
    <3>2. ":session_id" \notin Arguments(method(o)) /\ ~DeclaresSession(o)
      BY <2>6, <3>1 DEF KnowsSession
    <3>3. "sessionId" \notin DOMAIN c.params
      BY <3>1, <3>2 DEF Fields
    <3>4. SessionIn(c, Made(c)) = IF TakesParams(method(o)) THEN {Own} ELSE {}
      BY <2>6, <3>2, <3>3, SessionInParams
    <3>5. TakesParams(method(o)) <=> o \in TakeAnyField
      BY <2>6, <3>1, SessionsAssumption
    <3> QED BY <3>4, <3>5
  <2> QED BY <2>1, <2>2, <2>3, <2>4, <2>5, <2>6
<1>2. RequestInv => SessionOnlyWhereDeclared
  BY <1>1 DEF SessionOnlyWhereDeclared
<1> QED BY <1>2, RequestInvariance, PTL

-----------------------------------------------------------------------------
\* What kind of value a record is.
LEMMA Kinds ==
  /\ \A s : /\ IsList(List(s)) /\ ~IsDict(List(s)) /\ ~IsObject(List(s)) /\ ~IsStr(List(s))
            /\ List(s).list = s
  /\ \A s : /\ IsDict(Obj(s)) /\ ~IsList(Obj(s)) /\ ~IsObject(Obj(s)) /\ ~IsStr(Obj(s))
            /\ Obj(s).obj = s
  /\ \A s : /\ IsObject(Object(s)) /\ ~IsList(Object(s)) /\ ~IsDict(Object(s))
            /\ ~IsStr(Object(s)) /\ Object(s).object = s
  /\ \A v \in Scalars : ~IsList(v) /\ ~IsDict(v) /\ ~IsObject(v)
BY DEF IsList, IsDict, IsObject, IsStr, List, Obj, Object, Scalars

\* A value that holds others is a list, a dict or an object of them.
LEMMA Holders ==
  ASSUME NEW V, NEW v
  PROVE  v \in Holding(V) <=>
           \/ \E s \in Seq(V) : v = List(s)
           \/ \E s \in Seq(Named(V)) : v = Obj(s) \/ v = Object(s)
<1>1. v \in [list : Seq(V)] <=> \E s \in Seq(V) : v = List(s)
  BY DEF List
<1>2. v \in [obj : Seq(Named(V))] <=> \E s \in Seq(Named(V)) : v = Obj(s)
  BY DEF Obj
<1>3. v \in [object : Seq(Named(V))] <=> \E s \in Seq(Named(V)) : v = Object(s)
  BY DEF Object
<1> QED BY <1>1, <1>2, <1>3 DEF Holding

\* Larger sets are held by more values.
LEMMA HoldingMore ==
  ASSUME NEW V, NEW W, V \subseteq W
  PROVE  Holding(V) \subseteq Holding(W)
<1>1. Seq(V) \subseteq Seq(W) /\ Seq(Named(V)) \subseteq Seq(Named(W))
  BY DEF Named
<1>2. ASSUME NEW v \in Holding(V) PROVE v \in Holding(W)
  <2>1. \/ \E s \in Seq(V) : v = List(s)
        \/ \E s \in Seq(Named(V)) : v = Obj(s) \/ v = Object(s)
    BY Holders, Zenon
  <2>2. \/ \E s \in Seq(W) : v = List(s)
        \/ \E s \in Seq(Named(W)) : v = Obj(s) \/ v = Object(s)
    BY <1>1, <2>1
  <2> QED BY <2>2, Holders
<1> QED BY <1>2

-----------------------------------------------------------------------------
Itself(n) == n

Grows(n) == \A m \in 0..MaxNesting : m <= n => ValuesTo[m] \subseteq ValuesTo[n]

Nesting ==
  INSTANCE Recursion WITH S <- 0..MaxNesting, size <- Itself, Body <- deeper, P <- Grows

\* ValuesTo is what its definition says.
LEMMA Levels ==
  /\ ValuesTo[0] = Scalars
  /\ \A n, k \in 0..MaxNesting :
       n = k + 1 => ValuesTo[n] = ValuesTo[k] \cup Holding(ValuesTo[k])
<1> DEFINE Level(f) == f = [n \in 0..MaxNesting |-> deeper(f, n)]
           To == CHOOSE f : Level(f)
<1>1. Nesting!Sized
  BY NestingAssumption DEF Nesting!Sized, Itself
<1>2. Nesting!Recurs
  <2>1. ASSUME NEW n \in 0..MaxNesting, NEW f, NEW g,
               \A k \in Nesting!Smaller(n) : f[k] = g[k]
        PROVE  deeper(f, n) = deeper(g, n)
    <3>1. CASE n = 0
      BY <3>1 DEF deeper
    <3>2. CASE n # 0
      <4>1. n - 1 \in Nesting!Smaller(n)
        BY <3>2, NestingAssumption DEF Nesting!Smaller, Itself
      <4>2. f[n - 1] = g[n - 1]
        BY <2>1, <4>1
      <4> QED BY <3>2, <4>2 DEF deeper
    <3> QED BY <3>1, <3>2
  <2> QED BY <2>1 DEF Nesting!Recurs
<1>3. Level(To)
  <2>1. \E f : Level(f)
    BY <1>1, <1>2, Nesting!Existence
  <2> HIDE DEF Level
  <2> QED BY <2>1
<1>4. ValuesTo = To
  BY DEF ValuesTo
<1> HIDE DEF To
<1>5. \A n \in 0..MaxNesting : ValuesTo[n] = deeper(ValuesTo, n)
  BY <1>3, <1>4
<1>6. 0 \in 0..MaxNesting
  BY NestingAssumption
<1>7. ASSUME NEW n \in 0..MaxNesting, NEW k \in 0..MaxNesting, n = k + 1
      PROVE  ValuesTo[n] = ValuesTo[k] \cup Holding(ValuesTo[k])
  <2>1. n # 0 /\ n - 1 = k
    BY <1>7, NestingAssumption
  <2> QED BY <1>5, <2>1 DEF deeper
<1> QED BY <1>5, <1>6, <1>7 DEF deeper

\* A value nests as deep as one that it holds, and one more.
LEMMA LevelsGrow == \A m, n \in 0..MaxNesting : m <= n => ValuesTo[m] \subseteq ValuesTo[n]
<1>1. Nesting!Sized
  BY NestingAssumption DEF Nesting!Sized, Itself
<1>2. Nesting!Inherits
  <2>1. ASSUME NEW n \in 0..MaxNesting, \A k \in Nesting!Smaller(n) : Grows(k),
               NEW m \in 0..MaxNesting, m <= n
        PROVE  ValuesTo[m] \subseteq ValuesTo[n]
    <3>1. CASE m = n
      BY <3>1
    <3>2. CASE m # n
      <4>1. PICK k \in 0..MaxNesting : n = k + 1 /\ m <= k
        BY <2>1, <3>2, NestingAssumption
      <4>2. Grows(k)
        BY <2>1, <4>1, NestingAssumption DEF Nesting!Smaller, Itself
      <4> QED BY <4>1, <4>2, Levels DEF Grows
    <3> QED BY <3>1, <3>2
  <2> QED BY <2>1 DEF Nesting!Inherits, Grows
<1>3. \A n \in 0..MaxNesting : Grows(n)
  BY <1>1, <1>2, Nesting!Induction
<1> QED BY <1>3 DEF Grows

-----------------------------------------------------------------------------
\* The least level that a value is in.
rank(v) ==
  CHOOSE n \in 0..MaxNesting :
    v \in ValuesTo[n] /\ \A m \in 0..MaxNesting : v \in ValuesTo[m] => n <= m

\* Every value has a rank.
LEMMA Ranks ==
  ASSUME NEW v, NEW n \in 0..MaxNesting, v \in ValuesTo[n]
  PROVE  /\ rank(v) \in 0..n
         /\ v \in ValuesTo[rank(v)]
         /\ \A m \in 0..MaxNesting : v \in ValuesTo[m] => rank(v) <= m
<1> DEFINE In == {m \in 0..MaxNesting : v \in ValuesTo[m]}
           Least(m) == m \in 0..MaxNesting /\ v \in ValuesTo[m]
                       /\ \A k \in 0..MaxNesting : v \in ValuesTo[k] => m <= k
<1>1. In \in SUBSET (0..MaxNesting) /\ In # {}
  OBVIOUS
<1>2. \A m \in In : m \in Nat /\ Itself(m) = m
  BY NestingAssumption DEF Itself
<1>3. PICK m \in In : \A k \in In : Itself(m) <= Itself(k)
  <2>1. Nesting!Sized
    BY NestingAssumption DEF Nesting!Sized, Itself
  <2> HIDE DEF In
  <2> QED BY <1>1, <2>1, Nesting!SmallestOf
<1>4. Least(m)
  BY <1>3 DEF Itself
<1>5. rank(v) = CHOOSE k : Least(k)
  BY DEF rank
<1>6. Least(rank(v))
  <2> HIDE DEF Least
  <2> QED BY <1>4, <1>5
<1> QED BY <1>6, NestingAssumption

\* What a value is made of.
LEMMA Shapes ==
  ASSUME NEW v \in Values
  PROVE  /\ rank(v) \in 0..MaxNesting
         /\ \/ v \in Scalars
            \/ \E k \in 0..MaxNesting : k < rank(v) /\ v \in Holding(ValuesTo[k])
<1>1. MaxNesting \in 0..MaxNesting
  BY NestingAssumption
<1>2. /\ rank(v) \in 0..MaxNesting /\ v \in ValuesTo[rank(v)]
      /\ \A m \in 0..MaxNesting : v \in ValuesTo[m] => rank(v) <= m
  BY <1>1, Ranks DEF Values
<1>3. CASE rank(v) = 0
  BY <1>2, <1>3, Levels
<1>4. CASE rank(v) # 0
  <2>1. PICK k \in 0..MaxNesting : rank(v) = k + 1 /\ ~(rank(v) <= k)
    <3>1. \A r \in 0..MaxNesting :
            r # 0 => \E k \in 0..MaxNesting : r = k + 1 /\ ~(r <= k)
      <4>1. ASSUME NEW r \in 0..MaxNesting, r # 0
            PROVE  r - 1 \in 0..MaxNesting /\ r = (r - 1) + 1 /\ ~(r <= r - 1)
        BY <4>1, NestingAssumption
      <4> QED BY <4>1
    <3> QED BY <1>2, <1>4, <3>1
  <2>2. v \in ValuesTo[k] \cup Holding(ValuesTo[k])
    BY <1>2, <2>1, Levels
  <2> QED BY <1>2, <2>1, <2>2, NestingAssumption
<1> QED BY <1>2, <1>3, <1>4

\* A value nests no deeper than v.
NoDeeper(x, v) == x \in ValuesTo[rank(v)]

\* What is on a level is a value of no higher rank.
LEMMA OnLevel ==
  ASSUME NEW k \in 0..MaxNesting, NEW v \in ValuesTo[k]
  PROVE  v \in Values /\ rank(v) \in 0..k /\ \A x : NoDeeper(x, v) => x \in ValuesTo[k]
<1>1. rank(v) \in 0..k
  BY Ranks
<1>2. MaxNesting \in 0..MaxNesting /\ k <= MaxNesting /\ rank(v) \in 0..MaxNesting /\ rank(v) <= k
  BY <1>1, NestingAssumption
<1>3. ValuesTo[k] \subseteq ValuesTo[MaxNesting] /\ ValuesTo[rank(v)] \subseteq ValuesTo[k]
  BY <1>2, LevelsGrow
<1> QED BY <1>1, <1>3 DEF Values, NoDeeper

\* A value that nests no deeper than another is a value.
LEMMA StaysValue ==
  ASSUME NEW v \in Values, NEW x, NoDeeper(x, v)
  PROVE  x \in Values
<1>1. MaxNesting \in 0..MaxNesting /\ v \in ValuesTo[MaxNesting]
  BY NestingAssumption DEF Values
<1> QED BY <1>1, OnLevel DEF Values

\* Scalars nest no deeper than anything.
LEMMA ScalarsAreFlat ==
  ASSUME NEW x \in Scalars
  PROVE  x \in Values /\ \A v \in Values : NoDeeper(x, v)
<1>1. 0 \in 0..MaxNesting /\ x \in ValuesTo[0]
  BY NestingAssumption, Levels
<1>2. x \in Values
  BY <1>1, OnLevel
<1>3. ASSUME NEW v \in Values PROVE NoDeeper(x, v)
  <2>1. rank(v) \in 0..MaxNesting /\ 0 <= rank(v)
    BY Shapes, NestingAssumption
  <2> QED BY <1>1, <2>1, LevelsGrow DEF NoDeeper
<1> QED BY <1>2, <1>3

\* Nothing nests deeper than itself.
LEMMA NoDeeperItself == \A v \in Values : NoDeeper(v, v)
<1>1. MaxNesting \in 0..MaxNesting
  BY NestingAssumption
<1> QED BY <1>1, Ranks DEF Values, NoDeeper

\* An element of a sequence of items is a name and a value.
LEMMA ItemOf ==
  ASSUME NEW V, NEW s \in Seq(Named(V)), NEW i \in DOMAIN s
  PROVE  s[i] = <<s[i][1], s[i][2]>> /\ s[i][1] \in STRING /\ s[i][2] \in V
<1>1. s[i] \in Named(V)
  BY ElementOfSeq
<1> QED BY <1>1 DEF Named

\* A function on the domain of a sequence is a sequence.
LEMMA LikeSequence ==
  ASSUME NEW A, NEW s \in Seq(A), NEW V, NEW t, t = [i \in DOMAIN s |-> t[i]],
         \A i \in DOMAIN s : t[i] \in V
  PROVE  t \in Seq(V) /\ DOMAIN t = DOMAIN s
<1>1. DOMAIN s = 1..Len(s) /\ Len(s) \in Nat
  OBVIOUS
<1>2. t \in [1..Len(s) -> V]
  BY <1>1
<1> QED BY <1>1, <1>2

\* The three ways of holding values.
LEMMA Cases ==
  ASSUME NEW v \in Values
  PROVE  \/ v \in Scalars
         \/ \E s \in Seq(Values) : v = List(s)
         \/ \E s \in Seq(Named(Values)) : v = Obj(s) \/ v = Object(s)
<1>1. CASE v \in Scalars
  BY <1>1
<1>2. CASE v \notin Scalars
  <2>1. PICK k \in 0..MaxNesting : v \in Holding(ValuesTo[k])
    BY <1>2, Shapes
  <2>2. ValuesTo[k] \subseteq Values
    BY OnLevel
  <2>3. v \in Holding(Values)
    BY <2>1, <2>2, HoldingMore
  <2> QED BY <2>3, Holders
<1> QED BY <1>1, <1>2

\* What holds values of a level is on the levels above.
LEMMA HeldAbove ==
  ASSUME NEW k \in 0..MaxNesting, NEW n \in 0..MaxNesting, k < n, NEW x \in Holding(ValuesTo[k])
  PROVE  x \in ValuesTo[n]
<1>1. PICK m \in 0..MaxNesting : m = k + 1 /\ m <= n
  BY NestingAssumption
<1>2. x \in ValuesTo[m]
  BY <1>1, Levels
<1> QED BY <1>1, <1>2, LevelsGrow

\* The elements of a list.  What is done to them without nesting deeper keeps the list
\* from nesting deeper.
LEMMA Lists ==
  ASSUME NEW v \in Values, NEW s, v = List(s)
  PROVE  /\ s \in Seq(Values)
         /\ \A i \in DOMAIN s : s[i] \in Values /\ rank(s[i]) < rank(v)
         /\ \A t : /\ t = [i \in DOMAIN s |-> t[i]]
                   /\ \A i \in DOMAIN s : NoDeeper(t[i], s[i])
                   => NoDeeper(List(t), v)
<1>1. PICK k \in 0..MaxNesting : k < rank(v) /\ v \in Holding(ValuesTo[k])
  BY Shapes, Kinds
<1>2. s \in Seq(ValuesTo[k])
  <2>1. \/ \E q \in Seq(ValuesTo[k]) : v = List(q)
        \/ \E q \in Seq(Named(ValuesTo[k])) : v = Obj(q) \/ v = Object(q)
    BY <1>1, Holders, Zenon
  <2> QED BY <2>1, Kinds
<1>3. \A i \in DOMAIN s : s[i] \in ValuesTo[k]
  BY <1>2, ElementOfSeq
<1>4. \A i \in DOMAIN s : /\ s[i] \in Values /\ rank(s[i]) \in 0..k
                          /\ \A x : NoDeeper(x, s[i]) => x \in ValuesTo[k]
  BY <1>3, OnLevel
<1>5. rank(v) \in 0..MaxNesting
  BY Shapes
<1>6. \A i \in DOMAIN s : rank(s[i]) < rank(v)
  BY <1>1, <1>4, <1>5, NestingAssumption
<1>7. s \in Seq(Values)
  <2>1. ValuesTo[k] \subseteq Values
    BY OnLevel
  <2> QED BY <1>2, <2>1
<1>8. ASSUME NEW t, t = [i \in DOMAIN s |-> t[i]], \A i \in DOMAIN s : NoDeeper(t[i], s[i])
      PROVE  NoDeeper(List(t), v)
  <2>1. t \in Seq(ValuesTo[k])
    BY <1>2, <1>4, <1>8, LikeSequence
  <2>2. List(t) \in Holding(ValuesTo[k])
    BY <2>1, Holders
  <2> QED BY <1>1, <1>5, <2>2, HeldAbove DEF NoDeeper
<1> QED BY <1>4, <1>6, <1>7, <1>8

\* The items of a dict or an object, likewise.
LEMMA ItemsOf ==
  ASSUME NEW v \in Values, NEW s, v = Obj(s) \/ v = Object(s)
  PROVE  /\ s \in Seq(Named(Values))
         /\ \A i \in DOMAIN s : /\ s[i][1] \in STRING /\ s[i] = <<s[i][1], s[i][2]>>
                               /\ s[i][2] \in Values /\ rank(s[i][2]) < rank(v)
         /\ \A t, u : /\ t = [i \in DOMAIN s |-> <<s[i][1], u[i]>>]
                      /\ \A i \in DOMAIN s : NoDeeper(u[i], s[i][2])
                      => NoDeeper(Obj(t), v) /\ NoDeeper(Object(t), v)
<1>1. PICK k \in 0..MaxNesting : k < rank(v) /\ v \in Holding(ValuesTo[k])
  BY Shapes, Kinds
<1>2. s \in Seq(Named(ValuesTo[k]))
  <2>1. \/ \E q \in Seq(ValuesTo[k]) : v = List(q)
        \/ \E q \in Seq(Named(ValuesTo[k])) : v = Obj(q) \/ v = Object(q)
    BY <1>1, Holders, Zenon
  <2> QED BY <2>1, Kinds
<1>3. \A i \in DOMAIN s : /\ s[i][1] \in STRING /\ s[i] = <<s[i][1], s[i][2]>>
                          /\ s[i][2] \in ValuesTo[k]
  BY <1>2, ItemOf
<1>4. \A i \in DOMAIN s : /\ s[i][2] \in Values /\ rank(s[i][2]) \in 0..k
                          /\ \A x : NoDeeper(x, s[i][2]) => x \in ValuesTo[k]
  BY <1>3, OnLevel
<1>5. rank(v) \in 0..MaxNesting
  BY Shapes
<1>6. \A i \in DOMAIN s : rank(s[i][2]) < rank(v)
  BY <1>1, <1>4, <1>5, NestingAssumption
<1>7. s \in Seq(Named(Values))
  <2>1. ValuesTo[k] \subseteq Values
    BY OnLevel
  <2> QED BY <1>2, <2>1 DEF Named
<1>8. ASSUME NEW t, NEW u, t = [i \in DOMAIN s |-> <<s[i][1], u[i]>>],
             \A i \in DOMAIN s : NoDeeper(u[i], s[i][2])
      PROVE  NoDeeper(Obj(t), v) /\ NoDeeper(Object(t), v)
  <2>1. \A i \in DOMAIN s : t[i] \in Named(ValuesTo[k])
    BY <1>3, <1>4, <1>8 DEF Named
  <2>2. t = [i \in DOMAIN s |-> t[i]]
    BY <1>8
  <2>3. t \in Seq(Named(ValuesTo[k]))
    BY <1>2, <2>1, <2>2, LikeSequence
  <2>4. Obj(t) \in Holding(ValuesTo[k]) /\ Object(t) \in Holding(ValuesTo[k])
    BY <2>3, Holders
  <2> QED BY <1>1, <1>5, <2>4, HeldAbove DEF NoDeeper
<1> QED BY <1>3, <1>4, <1>6, <1>7, <1>8

\* What is in a value is smaller.
LEMMA ChildrenAreSmaller ==
  ASSUME NEW v \in Values, NEW e \in Children(v)
  PROVE  e \in Values /\ rank(e) < rank(v)
<1>1. CASE v \in Scalars
  BY <1>1, Kinds DEF Children
<1>2. CASE \E s \in Seq(Values) : v = List(s)
  <2>1. PICK s : v = List(s)
    BY <1>2
  <2>2. Children(v) = {s[i] : i \in DOMAIN s}
    BY <2>1, Kinds DEF Children
  <2> QED BY <2>1, <2>2, Lists
<1>3. CASE \E s \in Seq(Named(Values)) : v = Obj(s) \/ v = Object(s)
  <2>1. PICK s : v = Obj(s) \/ v = Object(s)
    BY <1>3
  <2>2. Children(v) = {s[i][2] : i \in DOMAIN s}
    BY <2>1, Kinds DEF Children
  <2> QED BY <2>1, <2>2, ItemsOf
<1> QED BY <1>1, <1>2, <1>3, Cases

-----------------------------------------------------------------------------
Below(v) == {e \in Values : rank(e) < rank(v)}

\* The values in a list that is in v are below v too.
LEMMA ElementsBelow ==
  ASSUME NEW v \in Values, NEW e \in Below(v), IsList(e), NEW i \in DOMAIN e.list
  PROVE  e.list[i] \in Below(v)
<1>1. e.list[i] \in Children(e)
  BY DEF Children
<1>2. PICK x : x = e.list[i]
  OBVIOUS
<1>3. x \in Values /\ rank(x) < rank(e)
  BY <1>1, <1>2, ChildrenAreSmaller DEF Below
<1>4. rank(x) \in Nat /\ rank(e) \in Nat /\ rank(v) \in Nat /\ rank(e) < rank(v)
  BY <1>3, Shapes, NestingAssumption DEF Below
<1> QED BY <1>2, <1>3, <1>4 DEF Below

\* A value is above what is in it.
LEMMA ChildrenBelow == \A v \in Values : Children(v) \subseteq Below(v)
BY ChildrenAreSmaller DEF Below

\* Constructed values nest no deeper.
KeepsDepth(v) == NoDeeper(construct_from[v], v)

Constructing ==
  INSTANCE Recursion WITH S <- Values, size <- rank, Body <- construct, P <- KeepsDepth

\* construct_from is what its definition says.
LEMMA ConstructFrom == \A v \in Values : construct_from[v] = construct(construct_from, v)
<1> DEFINE Is(f) == f = [v \in Values |-> construct(f, v)]
           From == CHOOSE f : Is(f)
<1>1. Constructing!Sized
  BY Shapes, NestingAssumption DEF Constructing!Sized
<1>2. Constructing!Recurs
  <2>1. ASSUME NEW v \in Values, NEW f, NEW g, \A e \in Below(v) : f[e] = g[e]
        PROVE  construct(f, v) = construct(g, v)
    <3>1. \A e \in Below(v) : element_of(f, e) = element_of(g, e)
      BY <2>1 DEF element_of
    <3>2. \A e \in Below(v) : field_of(f, e) = field_of(g, e)
      <4>1. ASSUME NEW e \in Below(v), IsList(e)
            PROVE  [i \in DOMAIN e.list |-> element_of(f, e.list[i])]
                     = [i \in DOMAIN e.list |-> element_of(g, e.list[i])]
        BY <3>1, <4>1, ElementsBelow
      <4> QED BY <3>1, <4>1 DEF field_of
    <3>3. CASE IsList(v)
      <4>1. \A i \in DOMAIN v.list : v.list[i] \in Below(v)
        BY <3>3, ChildrenBelow DEF Children
      <4> QED BY <2>1, <3>3, <4>1 DEF construct
    <3>4. CASE ~IsList(v) /\ IsDict(v)
      <4>1. \A i \in DOMAIN v.obj : v.obj[i][2] \in Below(v)
        BY <3>4, ChildrenBelow DEF Children
      <4> QED BY <3>2, <3>4, <4>1 DEF construct
    <3> QED BY <3>3, <3>4 DEF construct
  <2>2. \A v \in Values : Constructing!Smaller(v) = Below(v)
    BY DEF Constructing!Smaller, Below
  <2> QED BY <2>1, <2>2 DEF Constructing!Recurs
<1>3. Is(From)
  <2>1. \E f : Is(f)
    BY <1>1, <1>2, Constructing!Existence
  <2> HIDE DEF Is
  <2> QED BY <2>1
<1>4. construct_from = From
  BY DEF construct_from
<1> HIDE DEF From
<1> QED BY <1>3, <1>4

-----------------------------------------------------------------------------
\* JSON is what it was before it was wrapped.
Rewraps(v) == v \in Json => to_dict[v] = v /\ to_dict[construct_from[v]] = v

Unwrapping ==
  INSTANCE Recursion WITH S <- Values, size <- rank, Body <- unwrap, P <- Rewraps

\* to_dict is what its definition says.
LEMMA ToDict == \A v \in Values : to_dict[v] = unwrap(to_dict, v)
<1> DEFINE Is(f) == f = [v \in Values |-> unwrap(f, v)]
           Dict == CHOOSE f : Is(f)
<1>1. Unwrapping!Sized
  BY Shapes, NestingAssumption DEF Unwrapping!Sized
<1>2. Unwrapping!Recurs
  <2>1. ASSUME NEW v \in Values, NEW f, NEW g, \A e \in Below(v) : f[e] = g[e]
        PROVE  unwrap(f, v) = unwrap(g, v)
    <3>1. CASE IsObject(v)
      <4>1. \A i \in DOMAIN v.object : v.object[i][2] \in Below(v)
        <5>1. ~IsList(v) /\ ~IsDict(v)
          BY <3>1, Cases, Kinds
        <5> QED BY <3>1, <5>1, ChildrenBelow DEF Children
      <4> QED BY <2>1, <3>1, <4>1 DEF unwrap
    <3>2. CASE ~IsObject(v) /\ IsList(v)
      <4>1. \A i \in DOMAIN v.list : v.list[i] \in Below(v)
        BY <3>2, ChildrenBelow DEF Children
      <4> QED BY <2>1, <3>2, <4>1 DEF unwrap
    <3> QED BY <3>1, <3>2 DEF unwrap
  <2>2. \A v \in Values : Unwrapping!Smaller(v) = Below(v)
    BY DEF Unwrapping!Smaller, Below
  <2> QED BY <2>1, <2>2 DEF Unwrapping!Recurs
<1>3. Is(Dict)
  <2>1. \E f : Is(f)
    BY <1>1, <1>2, Unwrapping!Existence
  <2> HIDE DEF Is
  <2> QED BY <2>1
<1>4. to_dict = Dict
  BY DEF to_dict
<1> HIDE DEF Dict
<1> QED BY <1>3, <1>4

-----------------------------------------------------------------------------
\* What is printed nests no deeper.
PrintsNoDeeper(v) == NoDeeper(printed[v], v)

Printing ==
  INSTANCE Recursion WITH S <- Values, size <- rank, Body <- show, P <- PrintsNoDeeper

\* printed is what its definition says.
LEMMA Prints == \A v \in Values : printed[v] = show(printed, v)
<1> DEFINE Is(f) == f = [v \in Values |-> show(f, v)]
           Show == CHOOSE f : Is(f)
<1>1. Printing!Sized
  BY Shapes, NestingAssumption DEF Printing!Sized
<1>2. Printing!Recurs
  <2>1. ASSUME NEW v \in Values, NEW f, NEW g, \A e \in Below(v) : f[e] = g[e]
        PROVE  show(f, v) = show(g, v)
    <3>1. \A name : \A e \in Below(v) : shown_element(f, name, e) = shown_element(g, name, e)
      BY <2>1 DEF shown_element
    <3>2. \A name : \A e \in Below(v) : shown_field(f, name, e) = shown_field(g, name, e)
      <4>1. ASSUME NEW e \in Below(v), NEW name, IsList(e)
            PROVE  [i \in DOMAIN e.list |-> shown_element(f, name, e.list[i])]
                     = [i \in DOMAIN e.list |-> shown_element(g, name, e.list[i])]
        BY <3>1, <4>1, ElementsBelow
      <4> QED BY <3>1, <4>1 DEF shown_field
    <3>3. CASE IsObject(v)
      <4>1. \A i \in DOMAIN v.object : v.object[i][2] \in Below(v)
        <5>1. ~IsList(v) /\ ~IsDict(v)
          BY <3>3, Cases, Kinds
        <5> QED BY <3>3, <5>1, ChildrenBelow DEF Children
      <4> QED BY <3>2, <3>3, <4>1 DEF show
    <3>4. CASE ~IsObject(v) /\ IsList(v)
      <4>1. \A i \in DOMAIN v.list : v.list[i] \in Below(v)
        BY <3>4, ChildrenBelow DEF Children
      <4> QED BY <2>1, <3>4, <4>1 DEF show
    <3> QED BY <3>3, <3>4 DEF show
  <2>2. \A v \in Values : Printing!Smaller(v) = Below(v)
    BY DEF Printing!Smaller, Below
  <2> QED BY <2>1, <2>2 DEF Printing!Recurs
<1>3. Is(Show)
  <2>1. \E f : Is(f)
    BY <1>1, <1>2, Printing!Existence
  <2> HIDE DEF Is
  <2> QED BY <2>1
<1>4. printed = Show
  BY DEF printed
<1> HIDE DEF Show
<1> QED BY <1>3, <1>4

-----------------------------------------------------------------------------
\* No secret is shown of what is wrapped and printed.
HidesSecrets(v) == v \in Json /\ ~NestsLists(v) => Shown(printed[construct_from[v]]) = {}

Looking ==
  INSTANCE Recursion WITH S <- Values, size <- rank, Body <- inside, P <- HidesSecrets

\* Parts is what its definition says.
LEMMA PartsOf == \A v \in Values : Parts[v] = inside(Parts, v)
<1> DEFINE Is(f) == f = [v \in Values |-> inside(f, v)]
           In == CHOOSE f : Is(f)
<1>1. Looking!Sized
  BY Shapes, NestingAssumption DEF Looking!Sized
<1>2. Looking!Recurs
  <2>1. ASSUME NEW v \in Values, NEW f, NEW g, \A e \in Below(v) : f[e] = g[e]
        PROVE  inside(f, v) = inside(g, v)
    BY <2>1, ChildrenBelow DEF inside
  <2>2. \A v \in Values : Looking!Smaller(v) = Below(v)
    BY DEF Looking!Smaller, Below
  <2> QED BY <2>1, <2>2 DEF Looking!Recurs
<1>3. Is(In)
  <2>1. \E f : Is(f)
    BY <1>1, <1>2, Looking!Existence
  <2> HIDE DEF Is
  <2> QED BY <2>1
<1>4. Parts = In
  BY DEF Parts
<1> HIDE DEF In
<1> QED BY <1>3, <1>4

-----------------------------------------------------------------------------
\* construct_from nests nothing deeper.
LEMMA ConstructKeepsDepth == \A v \in Values : KeepsDepth(v)
<1>1. Constructing!Sized
  BY Shapes, NestingAssumption DEF Constructing!Sized
<1>2. Constructing!Inherits
  <2>1. ASSUME NEW v \in Values, \A e \in Below(v) : NoDeeper(construct_from[e], e)
        PROVE  NoDeeper(construct(construct_from, v), v)
    <3>1. \A e \in Below(v) : NoDeeper(element_of(construct_from, e), e)
      BY <2>1, NoDeeperItself DEF element_of, Below
    <3>2. ASSUME NEW e \in Below(v) PROVE NoDeeper(field_of(construct_from, e), e)
      <4>1. CASE IsList(e)
        <5>1. PICK s : e = List(s) /\ e.list = s /\ e \in Values
          BY <4>1, Cases, Kinds DEF Below
        <5>2. PICK t : t = [i \in DOMAIN s |-> element_of(construct_from, s[i])]
          OBVIOUS
        <5>3. \A i \in DOMAIN s : NoDeeper(t[i], s[i])
          BY <3>1, <4>1, <5>1, <5>2, ElementsBelow
        <5>4. NoDeeper(List(t), e)
          BY <5>1, <5>2, <5>3, Lists
        <5> QED BY <4>1, <5>1, <5>2, <5>4 DEF field_of
      <4>2. CASE ~IsList(e)
        BY <3>1, <4>2 DEF field_of
      <4> QED BY <4>1, <4>2
    <3>3. CASE ~IsList(v) /\ ~IsDict(v)
      BY <3>3, NoDeeperItself DEF construct
    <3>4. CASE IsList(v)
      <4>1. PICK s : v = List(s) /\ v.list = s
        BY <3>4, Cases, Kinds
      <4>2. PICK t : t = [i \in DOMAIN s |-> construct_from[s[i]]]
        OBVIOUS
      <4>3. \A i \in DOMAIN s : s[i] \in Below(v)
        BY <4>1, Lists DEF Below
      <4>4. NoDeeper(List(t), v)
        BY <2>1, <4>1, <4>2, <4>3, Lists
      <4> QED BY <3>4, <4>1, <4>2, <4>4 DEF construct
    <3>5. CASE ~IsList(v) /\ IsDict(v)
      <4>1. PICK s : v = Obj(s) /\ v.obj = s
        BY <3>5, Cases, Kinds
      <4>2. PICK u : u = [i \in DOMAIN s |-> field_of(construct_from, s[i][2])]
        OBVIOUS
      <4>3. PICK t : t = [i \in DOMAIN s |-> <<s[i][1], u[i]>>]
        OBVIOUS
      <4>4. \A i \in DOMAIN s : s[i][2] \in Below(v)
        BY <4>1, ItemsOf DEF Below
      <4>5. NoDeeper(Object(t), v)
        <5>1. \A i \in DOMAIN s : NoDeeper(u[i], s[i][2])
          BY <3>2, <4>2, <4>4
        <5> QED BY <4>1, <4>3, <5>1, ItemsOf
      <4>6. t = [i \in DOMAIN s |-> <<s[i][1], field_of(construct_from, s[i][2])>>]
        BY <4>2, <4>3
      <4> QED BY <3>5, <4>1, <4>5, <4>6 DEF construct
    <3> QED BY <3>3, <3>4, <3>5
  <2>2. \A v \in Values : Constructing!Smaller(v) = Below(v)
    BY DEF Constructing!Smaller, Below
  <2> QED BY <2>1, <2>2, ConstructFrom DEF Constructing!Inherits, KeepsDepth, Below
<1> QED BY <1>1, <1>2, Constructing!Induction

\* A secret is replaced by a scalar, or not at all.
LEMMA RedactsFlat == \A name : \A v \in Values : NoDeeper(redact_value(name, v), v)
BY NoDeeperItself, ScalarsAreFlat, TextsAssumption DEF redact_value

\* Nor does printing.
LEMMA PrintKeepsDepth == \A v \in Values : PrintsNoDeeper(v)
<1>1. Printing!Sized
  BY Shapes, NestingAssumption DEF Printing!Sized
<1>2. Printing!Inherits
  <2>1. ASSUME NEW v \in Values, \A e \in Below(v) : NoDeeper(printed[e], e)
        PROVE  NoDeeper(show(printed, v), v)
    <3>1. \A name : \A e \in Below(v) : NoDeeper(shown_element(printed, name, e), e)
      BY <2>1, RedactsFlat DEF shown_element, Below
    <3>2. ASSUME NEW e \in Below(v), NEW name PROVE NoDeeper(shown_field(printed, name, e), e)
      <4>1. CASE IsList(e)
        <5>1. PICK s : e = List(s) /\ e.list = s /\ e \in Values
          BY <4>1, Cases, Kinds DEF Below
        <5>2. PICK t : t = [i \in DOMAIN s |-> shown_element(printed, name, s[i])]
          OBVIOUS
        <5>3. \A i \in DOMAIN s : NoDeeper(t[i], s[i])
          BY <3>1, <4>1, <5>1, <5>2, ElementsBelow
        <5>4. NoDeeper(List(t), e)
          BY <5>1, <5>2, <5>3, Lists
        <5> QED BY <4>1, <5>1, <5>2, <5>4 DEF shown_field
      <4>2. CASE ~IsList(e)
        BY <3>1, <4>2 DEF shown_field
      <4> QED BY <4>1, <4>2
    <3>3. CASE ~IsObject(v) /\ ~IsList(v)
      BY <3>3, NoDeeperItself DEF show
    <3>4. CASE ~IsObject(v) /\ IsList(v)
      <4>1. PICK s : v = List(s) /\ v.list = s
        BY <3>4, Cases, Kinds
      <4>2. PICK t : t = [i \in DOMAIN s |-> printed[s[i]]]
        OBVIOUS
      <4>3. \A i \in DOMAIN s : s[i] \in Below(v)
        BY <4>1, Lists DEF Below
      <4>4. NoDeeper(List(t), v)
        BY <2>1, <4>1, <4>2, <4>3, Lists
      <4> QED BY <3>4, <4>1, <4>2, <4>4 DEF show
    <3>5. CASE IsObject(v)
      <4>1. PICK s : v = Object(s) /\ v.object = s
        BY <3>5, Cases, Kinds
      <4>2. PICK u : u = [i \in DOMAIN s |-> shown_field(printed, s[i][1], s[i][2])]
        OBVIOUS
      <4>3. PICK t : t = [i \in DOMAIN s |-> <<s[i][1], u[i]>>]
        OBVIOUS
      <4>4. \A i \in DOMAIN s : s[i][2] \in Below(v)
        BY <4>1, ItemsOf DEF Below
      <4>5. NoDeeper(Obj(t), v)
        <5>1. \A i \in DOMAIN s : NoDeeper(u[i], s[i][2])
          BY <3>2, <4>2, <4>4
        <5> QED BY <4>1, <4>3, <5>1, ItemsOf
      <4>6. t = [i \in DOMAIN s |-> <<s[i][1], shown_field(printed, s[i][1], s[i][2])>>]
        BY <4>2, <4>3
      <4> QED BY <3>5, <4>1, <4>5, <4>6 DEF show
    <3> QED BY <3>3, <3>4, <3>5
  <2>2. \A v \in Values : Printing!Smaller(v) = Below(v)
    BY DEF Printing!Smaller, Below
  <2> QED BY <2>1, <2>2, Prints DEF Printing!Inherits, PrintsNoDeeper, Below
<1> QED BY <1>1, <1>2, Printing!Induction

-----------------------------------------------------------------------------
\* Constructed and printed values are values.
LEMMA StayValues == \A v \in Values : construct_from[v] \in Values /\ printed[v] \in Values
BY ConstructKeepsDepth, PrintKeepsDepth, StaysValue DEF KeepsDepth, PrintsNoDeeper

\* JSON holds JSON, and no object.
LEMMA JsonHolds ==
  ASSUME NEW v \in Json
  PROVE  v \in Values /\ ~IsObject(v) /\ Children(v) \subseteq Json
<1>1. v \in Values /\ \A p \in Parts[v] : ~IsObject(p)
  BY DEF Json
<1>2. v \in Parts[v] /\ \A e \in Children(v) : Parts[e] \subseteq Parts[v]
  BY <1>1, PartsOf DEF inside
<1>3. Children(v) \subseteq Values
  BY <1>1, ChildrenAreSmaller
<1> QED BY <1>1, <1>2, <1>3 DEF Json

\* A list is made of its elements.
LEMMA ListIs ==
  ASSUME NEW v \in Values, IsList(v)
  PROVE  /\ v = List(v.list) /\ v.list = [i \in DOMAIN v.list |-> v.list[i]]
         /\ \A i \in DOMAIN v.list : v.list[i] \in Children(v)
<1>1. PICK s \in Seq(Values) : v = List(s)
  BY Cases, Kinds
<1> QED BY <1>1, Kinds DEF Children

\* A dict is made of its items.
LEMMA DictIs ==
  ASSUME NEW v \in Values, IsDict(v)
  PROVE  /\ v = Obj(v.obj) /\ v.obj = [i \in DOMAIN v.obj |-> <<v.obj[i][1], v.obj[i][2]>>]
         /\ \A i \in DOMAIN v.obj : v.obj[i][2] \in Children(v)
         /\ ~IsList(v) /\ ~IsObject(v)
<1>1. PICK s \in Seq(Named(Values)) : v = Obj(s)
  BY Cases, Kinds
<1>2. \A i \in DOMAIN s : s[i] = <<s[i][1], s[i][2]>>
  BY <1>1, ItemsOf
<1>3. s = [i \in DOMAIN s |-> <<s[i][1], s[i][2]>>]
  BY <1>2
<1> QED BY <1>1, <1>3, Kinds DEF Children

\* What an object is constructed from.
LEMMA Constructed ==
  ASSUME NEW v \in Values
  PROVE  /\ IsList(v) =>
              construct_from[v] = List([i \in DOMAIN v.list |-> construct_from[v.list[i]]])
         /\ IsDict(v) =>
              construct_from[v] =
                Object([i \in DOMAIN v.obj |->
                          <<v.obj[i][1], field_of(construct_from, v.obj[i][2])>>])
         /\ ~IsList(v) /\ ~IsDict(v) => construct_from[v] = v
BY ConstructFrom, DictIs DEF construct

\* What is in each kind of value.
LEMMA ChildrenOf ==
  \A s : /\ Children(List(s)) = {s[i] : i \in DOMAIN s}
        /\ Children(Obj(s)) = {s[i][2] : i \in DOMAIN s}
        /\ Children(Object(s)) = {s[i][2] : i \in DOMAIN s}
BY Kinds DEF Children

\* to_dict of an object and of a list.
LEMMA Unwrapped ==
  ASSUME NEW t
  PROVE  /\ Object(t) \in Values =>
              to_dict[Object(t)] = Obj([i \in DOMAIN t |-> <<t[i][1], to_dict[t[i][2]]>>])
         /\ List(t) \in Values => to_dict[List(t)] = List([i \in DOMAIN t |-> to_dict[t[i]]])
<1>1. \A v \in Values : to_dict[v] = unwrap(to_dict, v)
  BY ToDict
<1>2. unwrap(to_dict, Object(t)) = Obj([i \in DOMAIN t |-> <<t[i][1], to_dict[t[i][2]]>>])
  BY Kinds DEF unwrap
<1>3. unwrap(to_dict, List(t)) = List([i \in DOMAIN t |-> to_dict[t[i]]])
  BY Kinds DEF unwrap
<1> QED BY <1>1, <1>2, <1>3

\* to_dict gives the JSON back that an object was constructed from.
LEMMA RewrapsAll == \A v \in Values : Rewraps(v)
<1>1. Unwrapping!Sized
  BY Shapes, NestingAssumption DEF Unwrapping!Sized
<1>2. ASSUME NEW v \in Json, \A e \in Below(v) : Rewraps(e)
      PROVE  to_dict[v] = v /\ to_dict[construct_from[v]] = v
  <2>1. v \in Values /\ construct_from[v] \in Values /\ ~IsObject(v)
    BY JsonHolds, StayValues
  <2>2. \A e \in Children(v) : /\ e \in Values /\ e \in Json
                              /\ to_dict[e] = e /\ to_dict[construct_from[e]] = e
    BY <1>2, <2>1, ChildrenBelow, JsonHolds DEF Rewraps, Below
  <2>3. CASE IsList(v)
    <3>1. PICK s : s = v.list
      OBVIOUS
    <3>2. v = List(s) /\ s = [i \in DOMAIN s |-> s[i]] /\ \A i \in DOMAIN s : s[i] \in Children(v)
      BY <2>1, <2>3, <3>1, ListIs
    <3>3. to_dict[v] = v
      BY <2>1, <2>2, <2>3, <3>1, <3>2, ToDict DEF unwrap
    <3>4. PICK t : t = [i \in DOMAIN s |-> construct_from[s[i]]]
      OBVIOUS
    <3>5. construct_from[v] = List(t)
      BY <2>1, <2>3, <3>1, <3>4, Constructed
    <3>6. to_dict[List(t)] = List([i \in DOMAIN t |-> to_dict[t[i]]])
      BY <2>1, <3>5, Unwrapped
    <3>7. [i \in DOMAIN t |-> to_dict[t[i]]] = s
      BY <2>2, <3>2, <3>4
    <3> QED BY <3>2, <3>3, <3>5, <3>6, <3>7
  <2>4. CASE IsDict(v)
    <3>1. PICK s : s = v.obj
      OBVIOUS
    <3>2. /\ v = Obj(s) /\ s = [i \in DOMAIN s |-> <<s[i][1], s[i][2]>>]
          /\ ~IsList(v) /\ \A i \in DOMAIN s : s[i][2] \in Children(v)
      BY <2>1, <2>4, <3>1, DictIs
    <3>3. to_dict[v] = v
      BY <2>1, <3>2, ToDict DEF unwrap
    <3>4. PICK t : t = [i \in DOMAIN s |-> <<s[i][1], field_of(construct_from, s[i][2])>>]
      OBVIOUS
    <3>5. construct_from[v] = Object(t)
      BY <2>1, <2>4, <3>1, <3>4, Constructed
    <3>6. to_dict[Object(t)] = Obj([i \in DOMAIN t |-> <<t[i][1], to_dict[t[i][2]]>>])
      BY <2>1, <3>5, Unwrapped
    <3>7. ASSUME NEW i \in DOMAIN s PROVE to_dict[t[i][2]] = s[i][2]
      <4>1. PICK e : e = s[i][2]
        OBVIOUS
      <4>2. PICK w : w = field_of(construct_from, e)
        OBVIOUS
      <4>3. t[i][2] = w
        BY <3>4, <4>1, <4>2
      <4>4. e \in Children(v) /\ e \in Json /\ e \in Values
        BY <2>2, <3>2, <4>1
      <4>5. w \in Values
        <5>1. w \in Children(Object(t))
          BY <3>4, <4>3, ChildrenOf
        <5> QED BY <2>1, <3>5, <5>1, ChildrenAreSmaller
      <4>6. CASE ~IsList(e)
        BY <2>2, <4>1, <4>2, <4>3, <4>4, <4>6 DEF field_of, element_of
      <4>7. CASE IsList(e)
        <5>1. PICK q : q = e.list
          OBVIOUS
        <5>2. e = List(q) /\ q = [j \in DOMAIN q |-> q[j]]
          BY <4>4, <4>7, <5>1, ListIs
        <5>3. PICK u : u = [j \in DOMAIN q |-> element_of(construct_from, q[j])]
          OBVIOUS
        <5>4. w = List(u)
          BY <4>2, <4>7, <5>1, <5>3 DEF field_of
        <5>5. to_dict[List(u)] = List([j \in DOMAIN u |-> to_dict[u[j]]])
          BY <4>5, <5>4, Unwrapped
        <5>6. ASSUME NEW j \in DOMAIN q PROVE to_dict[u[j]] = q[j]
          <6>1. PICK x : x = q[j]
            OBVIOUS
          <6>2. x \in Json /\ x \in Below(v)
            <7>1. x \in Children(e)
              BY <4>4, <4>7, <5>1, <6>1, ListIs
            <7>2. e \in Below(v)
              BY <2>1, <4>4, ChildrenBelow
            <7> QED BY <2>1, <4>4, <4>7, <5>1, <6>1, <7>1, <7>2, JsonHolds, ElementsBelow
          <6>3. to_dict[x] = x /\ to_dict[construct_from[x]] = x
            BY <1>2, <6>2 DEF Rewraps
          <6> QED BY <5>3, <6>1, <6>3 DEF element_of
        <5>7. [j \in DOMAIN u |-> to_dict[u[j]]] = q
          BY <5>2, <5>3, <5>6
        <5> QED BY <4>1, <4>3, <5>2, <5>4, <5>5, <5>7
      <4> QED BY <4>6, <4>7
    <3>8. [i \in DOMAIN t |-> <<t[i][1], to_dict[t[i][2]]>>] = s
      BY <3>2, <3>4, <3>7
    <3> QED BY <3>2, <3>3, <3>5, <3>6, <3>8
  <2>5. CASE ~IsList(v) /\ ~IsDict(v)
    BY <2>1, <2>5, Constructed, ToDict DEF unwrap
  <2> QED BY <2>3, <2>4, <2>5
<1>3. Unwrapping!Inherits
  <2>1. \A v \in Values : Unwrapping!Smaller(v) = Below(v)
    BY DEF Unwrapping!Smaller, Below
  <2> QED BY <1>2, <2>1 DEF Unwrapping!Inherits, Rewraps
<1> QED BY <1>1, <1>3, Unwrapping!Induction

-----------------------------------------------------------------------------
\* A value shows what is in it, and nothing more if it is no dict with a secret.
LEMMA ShowsNothing ==
  ASSUME NEW w \in Values, \A e \in Children(w) : Shown(e) = {},
         IsDict(w) => Secrets(w.obj) = {}
  PROVE  Shown(w) = {}
<1>1. ASSUME NEW p \in Parts[w], IsDict(p) PROVE Secrets(p.obj) = {}
  <2>1. CASE p = w
    BY <1>1, <2>1
  <2>2. CASE p # w
    <3>1. PICK e \in Children(w) : p \in Parts[e]
      BY <2>2, PartsOf DEF inside
    <3>2. Shown(e) = {}
      OBVIOUS
    <3> QED BY <1>1, <3>1, <3>2 DEF Shown
  <2> QED BY <2>1, <2>2
<1> QED BY <1>1 DEF Shown

\* Items without an open secret.
LEMMA NoSecrets ==
  ASSUME NEW r,
         \A i \in DOMAIN r : \A x :
           /\ looks_secret(r[i][1]) /\ IsStr(x)
           /\ x = r[i][2] \/ (IsList(r[i][2]) /\ x \in Children(r[i][2]))
           => x \in {Redacted, EmptyStr}
  PROVE  Secrets(r) = {}
<1>1. ASSUME NEW i \in DOMAIN r, looks_secret(r[i][1]), NEW e, e = r[i][2],
             NEW x \in {e} \cup (IF IsList(e) THEN Children(e) ELSE {}), IsStr(x)
      PROVE  x \in {Redacted, EmptyStr}
  <2>1. x = e \/ (IsList(e) /\ x \in Children(e))
    BY <1>1
  <2> QED BY <1>1, <2>1
<1> QED BY <1>1 DEF Secrets

\* Without nested lists there are none inside.
LEMMA NestsNone ==
  ASSUME NEW v \in Values, ~NestsLists(v)
  PROVE  \A e \in Children(v) :
           /\ ~NestsLists(e)
           /\ IsDict(v) /\ IsList(e) => \A x \in Children(e) : ~IsList(x)
<1>1. v \in Parts[v] /\ \A e \in Children(v) : Parts[e] \subseteq Parts[v]
  BY PartsOf DEF inside
<1> QED BY <1>1 DEF NestsLists

\* What is printed of an object and of a list.
LEMMA Printed ==
  ASSUME NEW t
  PROVE  /\ Object(t) \in Values =>
              printed[Object(t)] =
                Obj([i \in DOMAIN t |-> <<t[i][1], shown_field(printed, t[i][1], t[i][2])>>])
         /\ List(t) \in Values => printed[List(t)] = List([i \in DOMAIN t |-> printed[t[i]]])
<1>1. \A v \in Values : printed[v] = show(printed, v)
  BY Prints
<1>2. show(printed, Object(t)) =
        Obj([i \in DOMAIN t |-> <<t[i][1], shown_field(printed, t[i][1], t[i][2])>>])
  BY Kinds DEF show
<1>3. show(printed, List(t)) = List([i \in DOMAIN t |-> printed[t[i]]])
  BY Kinds DEF show
<1> QED BY <1>1, <1>2, <1>3

\* A value that is printed under a name hides its secrets.
Hides(w, name) ==
  w \in Values => Shown(w) = {} /\ (looks_secret(name) /\ IsStr(w) => w \in {Redacted, EmptyStr})

\* So does what is printed of an element that is no list.
LEMMA ElementHides ==
  ASSUME NEW x \in Json, ~IsList(x), ~NestsLists(x), HidesSecrets(x), NEW name, NEW w,
         w = shown_element(printed, name, element_of(construct_from, x))
  PROVE  Hides(w, name) /\ ~IsList(w)
<1>1. x \in Values /\ ~IsObject(x)
  BY JsonHolds
<1>2. CASE IsDict(x)
  <2>1. PICK t : construct_from[x] = Object(t)
    BY <1>1, <1>2, Constructed
  <2>2. w = printed[Object(t)]
    BY <1>2, <2>1, Kinds DEF shown_element, element_of
  <2>3. Object(t) \in Values
    BY <1>1, <2>1, StayValues
  <2>4. PICK r : w = Obj(r)
    BY <2>2, <2>3, Printed
  <2>5. Shown(w) = {}
    BY <2>1, <2>2 DEF HidesSecrets
  <2>6. ~IsStr(w) /\ ~IsList(w)
    BY <2>4, Kinds
  <2> QED BY <2>5, <2>6 DEF Hides
<1>3. CASE ~IsDict(x)
  <2>1. x \in Scalars
    BY <1>1, <1>3, Cases, Kinds
  <2>2. w = redact_value(name, x)
    BY <1>1, <1>3 DEF shown_element, element_of
  <2>3. w \in Scalars
    BY <2>1, <2>2, TextsAssumption DEF redact_value
  <2>4. w \in Values /\ ~IsList(w) /\ ~IsDict(w) /\ ~IsObject(w) /\ Children(w) = {}
    BY <2>3, ScalarsAreFlat, Kinds DEF Children
  <2>5. Shown(w) = {}
    BY <2>4, ShowsNothing
  <2>6. looks_secret(name) /\ IsStr(w) => w \in {Redacted, EmptyStr}
    BY <2>2 DEF redact_value
  <2> QED BY <2>4, <2>5, <2>6 DEF Hides
<1> QED BY <1>2, <1>3

\* Nothing that is printed of wrapped JSON shows a secret.
LEMMA HidesSecretsAll == \A v \in Values : HidesSecrets(v)
<1>1. Looking!Sized
  BY Shapes, NestingAssumption DEF Looking!Sized
<1>2. ASSUME NEW v \in Json, ~NestsLists(v), \A e \in Below(v) : HidesSecrets(e)
      PROVE  Shown(printed[construct_from[v]]) = {}
  <2>1. v \in Values /\ ~IsObject(v) /\ construct_from[v] \in Values
    BY JsonHolds, StayValues
  <2>2. \A e \in Children(v) : e \in Values /\ e \in Json /\ e \in Below(v) /\ HidesSecrets(e)
    BY <1>2, <2>1, ChildrenBelow, JsonHolds DEF Below
  <2>3. PICK w : w = printed[construct_from[v]]
    OBVIOUS
  <2>4. w \in Values
    BY <2>1, <2>3, StayValues
  <2>5. CASE IsList(v)
    <3>1. PICK s : s = v.list
      OBVIOUS
    <3>2. \A i \in DOMAIN s : s[i] \in Children(v)
      BY <2>1, <2>5, <3>1, ListIs
    <3>3. PICK t : t = [i \in DOMAIN s |-> construct_from[s[i]]]
      OBVIOUS
    <3>4. construct_from[v] = List(t)
      BY <2>1, <2>5, <3>1, <3>3, Constructed
    <3>5. PICK r : r = [i \in DOMAIN t |-> printed[t[i]]]
      OBVIOUS
    <3>6. w = List(r)
      BY <2>1, <2>3, <3>4, <3>5, Printed
    <3>7. \A i \in DOMAIN s : Shown(r[i]) = {}
      BY <1>2, <2>1, <2>2, <3>2, <3>3, <3>5, NestsNone DEF HidesSecrets
    <3>8. \A e \in Children(w) : Shown(e) = {}
      BY <3>3, <3>5, <3>6, <3>7, ChildrenOf
    <3>9. ~IsDict(w)
      BY <3>6, Kinds
    <3> QED BY <2>3, <2>4, <3>8, <3>9, ShowsNothing
  <2>6. CASE IsDict(v)
    <3>1. PICK s : s = v.obj
      OBVIOUS
    <3>2. \A i \in DOMAIN s : s[i][2] \in Children(v)
      BY <2>1, <2>6, <3>1, DictIs
    <3>3. PICK t : t = [i \in DOMAIN s |-> <<s[i][1], field_of(construct_from, s[i][2])>>]
      OBVIOUS
    <3>4. construct_from[v] = Object(t)
      BY <2>1, <2>6, <3>1, <3>3, Constructed
    <3>5. PICK r : r = [i \in DOMAIN t |-> <<t[i][1], shown_field(printed, t[i][1], t[i][2])>>]
      OBVIOUS
    <3>6. w = Obj(r) /\ w.obj = r /\ DOMAIN r = DOMAIN s
      <4>1. w = Obj(r)
        BY <2>1, <2>3, <3>4, <3>5, Printed
      <4>2. DOMAIN t = DOMAIN s /\ DOMAIN r = DOMAIN t
        BY <3>3, <3>5
      <4> QED BY <4>1, <4>2, Kinds
    <3>7. ASSUME NEW i \in DOMAIN s
          PROVE  /\ Shown(r[i][2]) = {}
                 /\ \A x : /\ looks_secret(r[i][1]) /\ IsStr(x)
                           /\ x = r[i][2] \/ (IsList(r[i][2]) /\ x \in Children(r[i][2]))
                           => x \in {Redacted, EmptyStr}
      <4>1. PICK name, e : name = s[i][1] /\ e = s[i][2]
        OBVIOUS
      <4>2. PICK f : f = shown_field(printed, name, field_of(construct_from, e))
        OBVIOUS
      <4>3. r[i][1] = name /\ r[i][2] = f
        BY <3>3, <3>5, <4>1, <4>2
      <4>4. /\ e \in Children(v) /\ e \in Json /\ e \in Values /\ e \in Below(v)
            /\ HidesSecrets(e) /\ ~NestsLists(e)
            /\ IsList(e) => \A x \in Children(e) : ~IsList(x)
        BY <1>2, <2>1, <2>2, <2>6, <3>2, <4>1, NestsNone
      <4>5. f \in Values
        <5>1. f \in Children(w)
          BY <3>6, <4>3, ChildrenOf
        <5> QED BY <2>4, <5>1, ChildrenAreSmaller
      <4>6. CASE ~IsList(e)
        <5>1. field_of(construct_from, e) = element_of(construct_from, e)
          BY <4>6 DEF field_of
        <5>2. ~IsList(element_of(construct_from, e))
          <6>1. IsDict(e) => \E q : construct_from[e] = Object(q)
            BY <4>4, Constructed
          <6> QED BY <4>6, <6>1, Kinds DEF element_of
        <5>3. f = shown_element(printed, name, element_of(construct_from, e))
          BY <4>2, <5>1, <5>2 DEF shown_field
        <5>4. Hides(f, name) /\ ~IsList(f)
          BY <4>4, <4>6, <5>3, ElementHides
        <5> QED BY <4>3, <4>5, <5>4 DEF Hides
      <4>7. CASE IsList(e)
        <5>1. PICK q : q = e.list
          OBVIOUS
        <5>2. \A j \in DOMAIN q : q[j] \in Children(e)
          BY <4>4, <4>7, <5>1, ListIs
        <5>3. PICK u : u = [j \in DOMAIN q |-> element_of(construct_from, q[j])]
          OBVIOUS
        <5>4. field_of(construct_from, e) = List(u)
          BY <4>7, <5>1, <5>3 DEF field_of
        <5>5. PICK y : y = [j \in DOMAIN u |-> shown_element(printed, name, u[j])]
          OBVIOUS
        <5>6. f = List(y)
          BY <4>2, <5>4, <5>5, Kinds DEF shown_field
        <5>7. ASSUME NEW j \in DOMAIN q PROVE Hides(y[j], name)
          <6>1. PICK x : x = q[j]
            OBVIOUS
          <6>2. x \in Children(e) /\ x \in Below(v)
            BY <2>1, <4>4, <4>7, <5>1, <5>2, <6>1, ElementsBelow
          <6>3. x \in Json /\ ~IsList(x) /\ ~NestsLists(x) /\ HidesSecrets(x)
            BY <1>2, <4>4, <4>7, <6>2, JsonHolds, NestsNone
          <6>4. y[j] = shown_element(printed, name, element_of(construct_from, x))
            BY <5>3, <5>5, <6>1
          <6> QED BY <6>3, <6>4, ElementHides
        <5>8. \A x \in Children(f) : x \in Values /\ Hides(x, name)
          BY <4>5, <5>3, <5>5, <5>6, <5>7, ChildrenOf, ChildrenAreSmaller
        <5>9. Shown(f) = {}
          <6>1. ~IsDict(f)
            BY <5>6, Kinds
          <6> QED BY <4>5, <5>8, <6>1, ShowsNothing DEF Hides
        <5>10. ~IsStr(f)
          BY <5>6, Kinds
        <5> QED BY <4>3, <5>8, <5>9, <5>10 DEF Hides
      <4> QED BY <4>6, <4>7
    <3>8. Secrets(r) = {}
      BY <3>6, <3>7, NoSecrets
    <3>9. \A e \in Children(w) : Shown(e) = {}
      BY <3>6, <3>7, ChildrenOf
    <3> QED BY <2>3, <2>4, <3>6, <3>8, <3>9, ShowsNothing
  <2>7. CASE ~IsList(v) /\ ~IsDict(v)
    <3>1. v \in Scalars
      BY <2>1, <2>7, Cases, Kinds
    <3>2. w = v
      BY <2>1, <2>3, <2>7, Constructed, Prints DEF show
    <3>3. Children(w) = {} /\ ~IsDict(w)
      BY <2>1, <2>7, <3>2 DEF Children
    <3> QED BY <2>3, <2>4, <3>3, ShowsNothing
  <2> QED BY <2>5, <2>6, <2>7
<1>3. Looking!Inherits
  <2>1. \A v \in Values : Looking!Smaller(v) = Below(v)
    BY DEF Looking!Smaller, Below
  <2> QED BY <1>2, <2>1 DEF Looking!Inherits, HidesSecrets
<1> QED BY <1>1, <1>3, Looking!Induction

-----------------------------------------------------------------------------
(***************************************************************************)
(* The whole call.                                                         *)
(***************************************************************************)
\* What happens to the answer leaves the request alone.
THEOREM RequestsAreMade == Spec => MakesRequests
<1>1. Init => RequestInit
  BY DEF Init
<1>2. [Next]_vars => [RequestNext]_requestVars
  <2> SUFFICES ASSUME Next \/ UNCHANGED vars PROVE RequestNext \/ UNCHANGED requestVars
    OBVIOUS
  <2>1. CASE Make
    BY <2>1 DEF Make, RequestNext
  <2>2. CASE Answer
    BY <2>2 DEF Answer, RequestNext
  <2>3. CASE Raise \/ Return \/ HandOut \/ Listen \/ EndOfStream
    BY <2>3 DEF Raise, Return, HandOut, Listen, EndOfStream, RequestNext
  <2>4. CASE Hear \/ Terminated \/ UNCHANGED vars
    BY <2>4 DEF Hear, Terminated, vars, callVars, requestVars
  <2> QED BY <2>1, <2>2, <2>3, <2>4 DEF Next
<1> QED BY <1>1, <1>2, PTL DEF Spec, MakesRequests, RequestSpec

\* What the requests promise holds of the whole call.
THEOREM CallsCarrySession == Spec => [](HandleCarriesSession /\ SessionOnlyWhereDeclared)
BY RequestsAreMade, HandlesCarry, OnlyDeclaredSessions, PTL DEF MakesRequests

\* null and the empty list are JSON.
LEMMA AbsentValues ==
  \A v \in {null, List(<<>>)} : v \in Json /\ Children(v) = {} /\ ~NestsLists(v)
<1>1. null \in Values /\ List(<<>>) \in Values
  <2>1. 0 \in 0..MaxNesting /\ 1 \in 0..MaxNesting /\ 1 = 0 + 1
    BY NestingAssumption
  <2>2. List(<<>>) \in Holding(ValuesTo[0])
    <3>1. \A V : <<>> \in Seq(V)
      OBVIOUS
    <3> QED BY <3>1, Holders
  <2>3. List(<<>>) \in ValuesTo[1]
    BY <2>1, <2>2, Levels
  <2> QED BY <2>1, <2>3, OnLevel, TextsAssumption, ScalarsAreFlat
<1>2. ~IsObject(null) /\ ~IsDict(null) /\ ~IsList(null)
  BY TextsAssumption, Kinds
<1>3. ~IsObject(List(<<>>)) /\ ~IsDict(List(<<>>)) /\ Children(List(<<>>)) = {}
  BY Kinds, ChildrenOf
<1>4. Children(null) = {}
  BY <1>2 DEF Children
<1>5. ASSUME NEW v \in {null, List(<<>>)} PROVE v \in Json /\ Children(v) = {} /\ ~NestsLists(v)
  <2>1. v \in Values /\ ~IsObject(v) /\ ~IsDict(v) /\ Children(v) = {}
    BY <1>1, <1>2, <1>3, <1>4
  <2>2. Parts[v] = {v}
    BY <2>1, PartsOf DEF inside
  <2> QED BY <2>1, <2>2 DEF Json, NestsLists
<1> QED BY <1>5

\* An answer is one of Replies, none yet, or that there is no such route.
LEMMA AnswersAre ==
  ASSUME NEW r \in Replies \cup {NoReply, NotFound}
  PROVE  /\ r.status \in Nat /\ r.body \in {"empty", "object", "value", "text"}
         /\ r.status = 204 => r.body = "empty"
         /\ r.data \in Json
<1>1. CASE r \in Replies
  BY <1>1, RepliesAssumption
<1>2. CASE r = NoReply
  <2>1. NoReply.status = 0 /\ NoReply.body = "empty" /\ NoReply.data = null
    BY DEF NoReply, NoStatus
  <2> QED BY <1>2, <2>1, AbsentValues
<1>3. CASE r = NotFound
  <2>1. NotFound.status = 404 /\ NotFound.body = "object" /\ NotFound.data = null
    BY DEF NotFound
  <2> QED BY <1>3, <2>1, AbsentValues
<1> QED BY <1>1, <1>2, <1>3

\* The value of a success: the data of the answer, or null, or the empty list, and what
\* was constructed from it unless plain lists are declared.
LEMMA ValuesReturned ==
  ASSUME NEW op, op.result \in {"object", "models", "list", "stream", "events"}, ~Streams(op),
         NEW r \in Replies \cup {NoReply, NotFound}, interpret_response(r) \notin TermixErrors
  PROVE  /\ r.status < 400
         /\ \E d \in Json :
              /\ d = IF r.body = "empty"
                     THEN (IF op.result = "object" THEN null ELSE List(<<>>))
                     ELSE data_of(r)
              /\ d \in {r.data, null, List(<<>>)}
              /\ ValueOf(op, r) = IF op.result = "list" THEN d ELSE construct_from[d]
<1>1. /\ r.status \in Nat /\ r.body \in {"empty", "object", "value", "text"}
      /\ r.status = 204 => r.body = "empty"
      /\ r.data \in Json
  BY AnswersAre
<1>2. \A s, code : error_for_status(s, code) \in TermixErrors
  BY DEF error_for_status, unauthorized, TermixErrors, StatusErrors
<1> DEFINE Interpreted(none, code) ==
             IF r.status = 204 \/ r.body = "empty" THEN raise_for_status(r.status, none, "None")
             ELSE IF r.body = "text" /\ r.json THEN "APIConnectionError"
             ELSE raise_for_status(r.status, code, "TermixResponse")
<1>3. PICK none, code : interpret_response(r) = Interpreted(none, code)
  BY Zenon DEF interpret_response
<1>4. r.status < 400 /\ (interpret_response(r) = "None" <=> r.body = "empty")
  BY <1>1, <1>2, <1>3 DEF raise_for_status, TermixErrors
<1>5. PICK d : d = IF r.body = "empty"
                   THEN (IF op.result = "object" THEN null ELSE List(<<>>))
                   ELSE data_of(r)
  OBVIOUS
<1>6. d \in {r.data, null, List(<<>>)} /\ d \in Json
  BY <1>1, <1>5, AbsentValues DEF data_of
<1>7. op.result \in {"object", "models", "list"}
  BY DEF Streams
<1>8. ValueOf(op, r) = IF op.result = "list" THEN d ELSE construct_from[d]
  <2>1. CASE op.result = "object"
    <3>1. ValueOf(op, r) = construct_from[IF r.body = "empty" THEN null ELSE data_of(r)]
      BY <1>4, <2>1 DEF ValueOf
    <3> QED BY <1>5, <2>1, <3>1
  <2>2. CASE op.result = "models"
    <3>1. ValueOf(op, r) = construct_from[IF r.body = "empty" THEN List(<<>>) ELSE data_of(r)]
      BY <1>4, <2>2 DEF ValueOf
    <3> QED BY <1>5, <2>2, <3>1
  <2>3. CASE op.result = "list"
    <3>1. ValueOf(op, r) = IF r.body = "empty" THEN List(<<>>) ELSE data_of(r)
      BY <1>4, <2>3 DEF ValueOf
    <3> QED BY <1>5, <2>3, <3>1
  <2> QED BY <1>7, <2>1, <2>2, <2>3
<1> QED BY <1>4, <1>5, <1>6, <1>8

\* What is returned, once it is.
ReturnedOf ==
  "value" \in DOMAIN returned =>
    /\ call.op \in Operations /\ ~Streams(method(call.op))
    /\ interpret_response(reply) \notin TermixErrors
    /\ returned.value = ValueOf(method(call.op), reply)

CallInv ==
  /\ reply \in Replies \cup {NoReply, NotFound}
  /\ phase \in {"listening", "done"} <=> returned # Pending
  /\ ReturnedOf
  /\ StreamInv
  /\ phase \notin {"listening", "done"} => NoStream

\* CallInv is an invariant of Spec.
THEOREM CallInvariance == Spec => []CallInv
<1>1. Init => CallInv
  BY StreamInitially DEF Init, RequestInit, CallInv, ReturnedOf, Pending
<1>2. CallInv /\ RequestTypeOK /\ RequestTypeOK' /\ [Next]_vars => CallInv'
  <2> SUFFICES ASSUME CallInv, RequestTypeOK, RequestTypeOK', [Next]_vars PROVE CallInv'
    OBVIOUS
  <2>1. CASE Make
    BY <2>1, StreamStays DEF Make, Invoke, CallInv, ReturnedOf, Pending
  <2>2. CASE Answer
    <3>1. reply' \in Replies \cup {NoReply, NotFound}
      BY <2>2 DEF Answer, RepliesFrom
    <3> QED BY <2>2, <3>1, StreamStays DEF Answer, Arrive, CallInv, ReturnedOf, Pending
  <2>3. CASE Raise
    BY <2>3, StreamStays DEF Raise, Later, CallInv, ReturnedOf, Pending
  <2>4. CASE Return
    <3>1. call.op \in Operations /\ call' = call /\ reply' = reply
      BY <2>4 DEF Return, Later, RequestTypeOK
    <3>2. returned' = [value |-> ValueOf(method(call.op), reply)]
      BY <2>4 DEF Return
    <3>3. PICK v : v = ValueOf(method(call.op), reply)
      OBVIOUS
    <3>4. returned' = [value |-> v]
      BY <3>2, <3>3
    <3>5. returned' # Pending /\ returned'.value = v
      BY <3>4 DEF Pending
    <3>6. ReturnedOf'
      BY <2>4, <3>1, <3>3, <3>5 DEF Return, ReturnedOf
    <3> QED BY <2>4, <3>1, <3>5, <3>6, StreamStays DEF Return, CallInv
  <2>5. CASE HandOut
    BY <2>5, StreamStays DEF HandOut, Later, CallInv, ReturnedOf, Pending
  <2>6. CASE Listen
    BY <2>6, StreamBegun DEF Listen, Later, CallInv, ReturnedOf, Pending
  <2>7. CASE Hear
    BY <2>7, ChunkRead DEF Hear, CallInv, ReturnedOf, callVars, requestVars
  <2>8. CASE EndOfStream
    BY <2>8, StreamStays DEF EndOfStream, Later, CallInv, ReturnedOf
  <2>9. CASE Terminated \/ UNCHANGED vars
    BY <2>9, StreamStays DEF Terminated, vars, callVars, requestVars, CallInv, ReturnedOf
  <2> QED BY <2>1, <2>2, <2>3, <2>4, <2>5, <2>6, <2>7, <2>8, <2>9 DEF Next
<1>3. Spec => []RequestTypeOK
  BY RequestsAreMade, RequestsTyped, PTL DEF MakesRequests
<1> QED BY <1>1, <1>2, <1>3, PTL DEF Spec

\* Every variable has its type.
THEOREM TypeCorrect == Spec => []TypeOK
<1>1. CallInv /\ RequestTypeOK => TypeOK
  BY DEF CallInv, StreamInv, TypeOK
<1>2. Spec => []RequestTypeOK
  BY RequestsAreMade, RequestsTyped, PTL DEF MakesRequests
<1> QED BY <1>1, <1>2, CallInvariance, PTL

\* However the network cuts the stream, the iterator has yielded exactly the events whose
\* block has arrived to its end.
THEOREM EventsArrive == Spec => []EventsAsSent
<1>1. CallInv => EventsAsSent
  BY StreamYields DEF CallInv
<1> QED BY <1>1, CallInvariance, PTL

\* The caller of a method gets the data of a success, whole: however deep its objects
\* nest, to_dict gives back what the server sent.
THEOREM AnswersReach == Spec => []AnswerReachesCaller
<1>1. ASSUME CallInv PROVE AnswerReachesCaller
  <2> SUFFICES ASSUME "value" \in DOMAIN returned
               PROVE  /\ reply.status < 400
                      /\ to_dict[returned.value] =
                           IF reply.body = "empty"
                           THEN (IF method(call.op).result = "object" THEN null ELSE List(<<>>))
                           ELSE IF reply.body = "text" THEN null
                           ELSE reply.data
    BY DEF AnswerReachesCaller
  <2>1. PICK op : op = method(call.op)
    OBVIOUS
  <2>2. /\ op.result \in {"object", "models", "list", "stream", "events"} /\ ~Streams(op)
        /\ interpret_response(reply) \notin TermixErrors
        /\ returned.value = ValueOf(op, reply)
    BY <1>1, <2>1, ResultsAssumption DEF CallInv, ReturnedOf
  <2>3. reply \in Replies \cup {NoReply, NotFound}
    BY <1>1 DEF CallInv
  <2>4. PICK r \in Replies \cup {NoReply, NotFound} : r = reply
    BY <2>3
  <2>5. /\ r.status < 400
        /\ \E d \in Json :
             /\ d = IF r.body = "empty"
                    THEN (IF op.result = "object" THEN null ELSE List(<<>>))
                    ELSE data_of(r)
             /\ ValueOf(op, r) = IF op.result = "list" THEN d ELSE construct_from[d]
    BY <2>2, <2>4, ValuesReturned
  <2>6. PICK d \in Json :
          /\ d = IF r.body = "empty"
                 THEN (IF op.result = "object" THEN null ELSE List(<<>>))
                 ELSE data_of(r)
          /\ ValueOf(op, r) = IF op.result = "list" THEN d ELSE construct_from[d]
    BY <2>5
  <2>7. to_dict[d] = d /\ to_dict[construct_from[d]] = d
    BY RewrapsAll, JsonHolds DEF Rewraps
  <2>8. to_dict[returned.value] = d
    BY <2>2, <2>4, <2>6, <2>7
  <2> QED BY <2>1, <2>4, <2>5, <2>6, <2>8 DEF data_of
<1> QED BY <1>1, CallInvariance, PTL

\* Printing what a method returns shows no secret, at any depth.
THEOREM PrintsHide == Spec => []PrintsNoSecret
<1>1. ASSUME CallInv PROVE PrintsNoSecret
  <2> SUFFICES ASSUME "value" \in DOMAIN returned, method(call.op).result # "list",
                      ~NestsLists(reply.data)
               PROVE  Shown(printed[returned.value]) = {}
    BY DEF PrintsNoSecret
  <2>1. PICK op : op = method(call.op)
    OBVIOUS
  <2>2. /\ op.result \in {"object", "models", "list", "stream", "events"} /\ ~Streams(op)
        /\ interpret_response(reply) \notin TermixErrors
        /\ returned.value = ValueOf(op, reply)
    BY <1>1, <2>1, ResultsAssumption DEF CallInv, ReturnedOf
  <2>3. PICK r \in Replies \cup {NoReply, NotFound} : r = reply
    BY <1>1 DEF CallInv
  <2>4. PICK d \in Json : d \in {r.data, null, List(<<>>)} /\ ValueOf(op, r) = construct_from[d]
    BY <2>1, <2>2, <2>3, ValuesReturned
  <2>5. ~NestsLists(d)
    BY <2>3, <2>4, AbsentValues
  <2>6. Shown(printed[construct_from[d]]) = {}
    BY <2>5, HidesSecretsAll, JsonHolds DEF HidesSecrets
  <2> QED BY <2>2, <2>3, <2>4, <2>6
<1> QED BY <1>1, CallInvariance, PTL

=============================================================================
