----------------------------- MODULE MCServices -----------------------------
(***************************************************************************)
(* The inputs and answers TLC uses for Services: one of each kind that the *)
(* code or the server tells apart.                                         *)
(***************************************************************************)
EXTENDS Services

\* The reserved words and those of the crossed path, then an ordinary word, the empty
\* string, dots, and names with a slash or a question mark in them.
MCIds ==
  {<<"folders">>, <<"reorder">>, <<"retention">>, <<"export">>, <<"tombstones">>, <<"ca">>,
   <<"stream">>, <<"webhook">>, <<"run">>,
   <<"members">>, <<"">>, <<"..">>, <<"a", "b">>, <<"a", Cut>>}

Host == Obj(<< <<"id", Lit("1")>>, <<"password", Str("s1")>> >>)

\* Parsed JSON of the shapes construct_from, to_dict and the redaction tell apart.
Data ==
  {Lit("null"), Lit("1"), List(<<>>), List(<<Lit("1"), Host>>), List(<<List(<<Host>>)>>),
   Obj(<<>>), Host,
   Obj(<< <<"host", Host>>, <<"token", Str("")>> >>),
   Obj(<< <<"sudoPassword", Lit("1")>>, <<"hosts", List(<<Host, Str("x"), Host>>)>> >>),
   Obj(<< <<"apiKey", List(<<Str("s2"), Host>>)>>, <<"rows", List(<<Lit("1")>>)>> >>),
   Obj(<< <<"rows", List(<<List(<<Host>>)>>)>> >>)}

KindOf(d) == IF IsDict(d) THEN "object" ELSE "value"

Success(d) ==
  [status |-> 200, json |-> TRUE, body |-> KindOf(d), code |-> "", data |-> d]

MCReplies ==
  {Success(d) : d \in Data} \cup
  {[status |-> 204, json |-> FALSE, body |-> "empty", code |-> "", data |-> null],
   [status |-> 200, json |-> FALSE, body |-> "text", code |-> "", data |-> null],
   [status |-> 200, json |-> TRUE, body |-> "text", code |-> "", data |-> null],
   [status |-> 409, json |-> TRUE, body |-> "object", code |-> "", data |-> Obj(<<>>)],
   [status |-> 502, json |-> FALSE, body |-> "text", code |-> "", data |-> null]}

MCItems ==
  {Keepalive,
   Event(<<>>, << <<"word">> >>),
   Event(<<"B1", "B2">>, <<>>),
   Event(<<"word">>, << <<"B1", "B2">>, <<"word">> >>),
   Event(<<>>, << <<"B1", "B2", "LS", "word">> >>)}

=============================================================================
