------------------------------- MODULE Objects ------------------------------
(***************************************************************************)
(* What a generated method makes of JSON (_object.py), and what printing   *)
(* it shows (_util.py).  A value is a record with one field that says what *)
(* it is: lit (null, a number, a boolean), str, list (a sequence), obj (a  *)
(* dict: the sequence of its items, each a name and a value) or object (a  *)
(* TermixObject: its _data, likewise).                                     *)
(*                                                                         *)
(* What a function does to one value is an operator of its own, which      *)
(* takes the function for the values inside: f in construct(f, v).         *)
(***************************************************************************)
EXTENDS Naturals, Sequences, FiniteSets

CONSTANT MaxNesting   \* how deep values nest: the parser's and Python's recursion end

ASSUME NestingAssumption == MaxNesting \in Nat \ {0}

Lit(v) == [lit |-> v]
Str(v) == [str |-> v]
List(s) == [list |-> s]
Obj(s) == [obj |-> s]
Object(s) == [object |-> s]

IsStr(v) == "str" \in DOMAIN v
IsList(v) == "list" \in DOMAIN v
IsDict(v) == "obj" \in DOMAIN v
IsObject(v) == "object" \in DOMAIN v

null == Lit("null")
EmptyStr == Str("")
Redacted == Str("<redacted>")

\* The values that nest up to n deep.
Scalars == [lit : STRING] \cup [str : STRING]
Named(V) == STRING \X V
Holding(V) == [list : Seq(V)] \cup [obj : Seq(Named(V))] \cup [object : Seq(Named(V))]

deeper(f, n) == IF n = 0 THEN Scalars ELSE f[n - 1] \cup Holding(f[n - 1])
ValuesTo[n \in 0..MaxNesting] == deeper(ValuesTo, n)

Values == ValuesTo[MaxNesting]

\* What the code writes of its own accord are such values.
ASSUME TextsAssumption == {null, EmptyStr, Redacted} \subseteq Scalars

-----------------------------------------------------------------------------
(***************************************************************************)
(* A list at the top is converted to any depth; the list that is a field   *)
(* of an object only has its immediate elements converted.  No generated   *)
(* model sets _inner_class_types, so a field never has a class of its own. *)
(***************************************************************************)
element_of(f, e) == IF IsDict(e) THEN f[e] ELSE e

field_of(f, e) ==
  IF IsList(e) THEN List([i \in DOMAIN e.list |-> element_of(f, e.list[i])]) ELSE element_of(f, e)

construct(f, v) ==
  IF IsList(v) THEN List([i \in DOMAIN v.list |-> f[v.list[i]]])
  ELSE IF IsDict(v)
  THEN Object([i \in DOMAIN v.obj |-> <<v.obj[i][1], field_of(f, v.obj[i][2])>>])
  ELSE v

construct_from[v \in Values] == construct(construct_from, v)

\* to_dict() of an object; other values are returned as they are.
unwrap(f, v) ==
  IF IsObject(v) THEN Obj([i \in DOMAIN v.object |-> <<v.object[i][1], f[v.object[i][2]]>>])
  ELSE IF IsList(v) THEN List([i \in DOMAIN v.list |-> f[v.list[i]]])
  ELSE v

to_dict[v \in Values] == unwrap(to_dict, v)

-----------------------------------------------------------------------------
\* The field names of the answers, by whether they end in one of _SECRET_FIELD_SUFFIXES.
SecretNames == {"password", "sudoPassword", "apiKey", "token"}

looks_secret(name) == name \in SecretNames

\* Faulty variant of redact_value: only the exact names are redacted.
redact_exact(name, v) == IF IsStr(v) /\ name \in {"password", "token"} THEN Redacted ELSE v

redact_value(name, v) ==
  IF IsStr(v) /\ v # EmptyStr /\ looks_secret(name) THEN Redacted ELSE v

\* What printing the value of a method shows: of an object its _redacted_dict, of a list
\* its elements; anything else is plain Python.
shown_element(f, name, e) == IF IsObject(e) THEN f[e] ELSE redact_value(name, e)

shown_field(f, name, e) ==
  IF IsList(e) THEN List([i \in DOMAIN e.list |-> shown_element(f, name, e.list[i])])
  ELSE shown_element(f, name, e)

show(f, v) ==
  IF IsObject(v)
  THEN Obj([i \in DOMAIN v.object |->
              <<v.object[i][1], shown_field(f, v.object[i][1], v.object[i][2])>>])
  ELSE IF IsList(v) THEN List([i \in DOMAIN v.list |-> f[v.list[i]]])
  ELSE v

printed[v \in Values] == show(printed, v)

-----------------------------------------------------------------------------
(***************************************************************************)
(* What is inside a value.                                                 *)
(***************************************************************************)
Children(v) ==
  IF IsList(v) THEN {v.list[i] : i \in DOMAIN v.list}
  ELSE IF IsDict(v) THEN {v.obj[i][2] : i \in DOMAIN v.obj}
  ELSE IF IsObject(v) THEN {v.object[i][2] : i \in DOMAIN v.object}
  ELSE {}

\* The value and all that is in it.
inside(f, v) == {v} \cup UNION {f[e] : e \in Children(v)}
Parts[v \in Values] == inside(Parts, v)

\* What JSON is parsed into.
Json == {v \in Values : \A p \in Parts[v] : ~IsObject(p)}

\* The secrets among the items of a dict: strings under a secret-looking name, directly
\* or in a list.
Secrets(items) ==
  UNION {LET e == items[i][2]
         IN  IF ~looks_secret(items[i][1]) THEN {}
             ELSE {x \in {e} \cup (IF IsList(e) THEN Children(e) ELSE {}) :
                     IsStr(x) /\ x \notin {Redacted, EmptyStr}}
         : i \in DOMAIN items}

\* Those that a printed value shows.
Shown(v) == UNION {Secrets(p.obj) : p \in {q \in Parts[v] : IsDict(q)}}

\* An object inside a list inside a list that is a field: construct_from leaves it raw.
NestsLists(v) ==
  \E p \in Parts[v] : IsDict(p) /\ \E e \in Children(p) : IsList(e) /\ \E x \in Children(e) : IsList(x)

=============================================================================
