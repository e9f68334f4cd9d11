-------------------------------- MODULE Sse ---------------------------------
(***************************************************************************)
(* Server-sent events (_sse.py): bytes arrive in chunks cut anywhere, each *)
(* chunk is decoded on its own, the text is buffered until a blank line    *)
(* ends a block, and a block becomes an event or nothing.                  *)
(*                                                                         *)
(* Bytes are tokens: a field name, a word, LF, CR, the two halves B1 B2 of *)
(* one character, and LS for the characters (U+2028, U+0085, ...) at which *)
(* str.splitlines splits and a server does not end a line.  In a text the  *)
(* character is its two halves next to each other; what decoding makes of  *)
(* one without the other is FFFD.                                          *)
(***************************************************************************)
EXTENDS Naturals, Sequences, SequencesExt

CONSTANTS
  Items,     \* what the server may send: events and keepalive comments
  MaxItems   \* how many of them in one stream

Halves == {"B1", "B2"}
LineEnds == {"LF", "CR", "LS"}
FieldNames == {"event:", "data:"}

Tokens == STRING
Texts == Seq(Tokens)

\* What the server writes in a name or a line of data: it ends a line only at its end, and
\* what a separator in it splits off does not read as a field.
Inlines == Seq(Tokens \ ({"LF", "CR"} \cup FieldNames))

\* An item is a comment, or an event with perhaps a name and any number of data lines.
ASSUME ItemsAssumption ==
  \A item \in Items :
    /\ item.comment \in BOOLEAN
    /\ ~item.comment => /\ item.name \in Inlines /\ item.lines \in Seq(Inlines)
                        /\ item.name # <<>> \/ item.lines # <<>>

\* These are tokens.
ASSUME TokensAssumption ==
  Halves \cup LineEnds \cup FieldNames \cup {":", "word", "FFFD"} \subseteq Tokens

VARIABLES
  sent,      \* the items of the stream
  eol,       \* how the server ends its lines
  wire,      \* their bytes
  arrived,   \* how many bytes have arrived
  buffer,    \* text that is no complete block yet
  events     \* the events yielded

sseVars == <<sent, eol, wire, arrived, buffer, events>>

-----------------------------------------------------------------------------
(***************************************************************************)
(* The server (external).                                                  *)
(***************************************************************************)
Eols == {<<"LF">>, <<"CR", "LF">>}

Keepalive == [comment |-> TRUE]
Event(name, lines) == [comment |-> FALSE, name |-> name, lines |-> lines]

ItemLines(item) ==
  IF item.comment THEN << <<":", "word">> >>
  ELSE (IF item.name = <<>> THEN <<>> ELSE << <<"event:">> \o item.name >>)
       \o [i \in DOMAIN item.lines |-> <<"data:">> \o item.lines[i]]

\* Lines, each with its end.
Ended(lines, end) == FlattenSeq([i \in DOMAIN lines |-> lines[i] \o end])

ItemBytes(item, end) == Ended(ItemLines(item), end) \o end

StreamBytes(items, end) == FlattenSeq([i \in DOMAIN items |-> ItemBytes(items[i], end)])

-----------------------------------------------------------------------------
(***************************************************************************)
(* The parser.  What a loop or a scan does with one more line or character *)
(* is an operator of its own.                                              *)
(***************************************************************************)
\* chunk.decode("utf-8", errors="replace")
decode(chunk) ==
  LET Whole(i) == \/ chunk[i] = "B1" /\ i < Len(chunk) /\ chunk[i + 1] = "B2"
                  \/ chunk[i] = "B2" /\ i > 1 /\ chunk[i - 1] = "B1"
  IN  [i \in DOMAIN chunk |-> IF chunk[i] \in Halves /\ ~Whole(i) THEN "FFFD" ELSE chunk[i]]

\* text.replace("\r\n", "\n")
normalized(text) ==
  FlattenSeq([i \in DOMAIN text |->
    IF text[i] = "CR" /\ i < Len(text) /\ text[i + 1] = "LF" THEN <<>> ELSE <<text[i]>>])

\* text.split("\n\n")
put_in_part(parts, t) ==
  LET cur == Last(parts)
  IN  IF t = "LF" /\ cur # <<>> /\ Last(cur) = "LF"
      THEN Append(Front(parts), Front(cur)) \o << <<>> >>
      ELSE Append(Front(parts), Append(cur, t))

parts_of(f, text) == IF text = <<>> THEN << <<>> >> ELSE put_in_part(f[Front(text)], Last(text))
split_parts[text \in Texts] == parts_of(split_parts, text)

split_blocks(text) ==
  LET parts == split_parts[normalized(text)]
  IN  [blocks |-> Front(parts), rest |-> Last(parts)]

\* block.splitlines(), with some empty lines more, which are skipped.
put_in_line(lines, t) ==
  IF t \in LineEnds THEN Append(lines, <<>>)
  ELSE Append(Front(lines), Append(Last(lines), t))

lines_of(f, block) == IF block = <<>> THEN << <<>> >> ELSE put_in_line(f[Front(block)], Last(block))
splitlines[block \in Texts] == lines_of(splitlines, block)

\* The loop over the lines of a block.
read_line(fields, line) ==
  IF line = <<>> THEN fields
  ELSE IF line[1] = "event:" THEN [event |-> Tail(line), data |-> fields.data]
  ELSE IF line[1] = "data:" THEN [event |-> fields.event, data |-> Append(fields.data, Tail(line))]
  ELSE fields

NoFields == [event |-> <<>>, data |-> <<>>]

read(f, lines) == IF lines = <<>> THEN NoFields ELSE read_line(f[Front(lines)], Last(lines))
read_lines[lines \in Seq(Texts)] == read(read_lines, lines)

JoinLines(lines) ==
  FlattenSeq([i \in DOMAIN lines |-> (IF i = 1 THEN <<>> ELSE <<"LF">>) \o lines[i]])

\* No event is the empty sequence.
parse_block(block) ==
  LET fields == read_lines[splitlines[block]]
  IN  IF fields.data = <<>> THEN <<>>
      ELSE <<[event |-> fields.event, data |-> JoinLines(fields.data)]>>

NewEvents(blocks) == FlattenSeq([i \in DOMAIN blocks |-> parse_block(blocks[i])])

-----------------------------------------------------------------------------
SseInit ==
  /\ sent = <<>> /\ wire = <<>> /\ arrived = 0
  /\ eol = <<"LF">>
  /\ buffer = <<>> /\ events = <<>>

\* The server starts a stream.
Stream ==
  /\ \E n \in 1..MaxItems : \E items \in [1..n -> Items], end \in Eols :
       /\ sent' = items /\ eol' = end
       /\ wire' = StreamBytes(items, end)
  /\ UNCHANGED <<arrived, buffer, events>>

\* Faulty variant of ReadChunk: line ends are normalised in each chunk by itself.
ReadChunkNormalized ==
  \E upto \in arrived + 1..Len(wire) :
    LET parts == split_parts[buffer \o normalized(decode(SubSeq(wire, arrived + 1, upto)))]
    IN  /\ arrived' = upto
        /\ buffer' = Last(parts)
        /\ events' = events \o NewEvents(Front(parts))
        /\ UNCHANGED <<sent, eol, wire>>

\* One turn of the loop of iter_sse_events: a chunk is read, whole blocks are yielded.
ReadChunk ==
  \E upto \in arrived + 1..Len(wire) :
    LET text == buffer \o decode(SubSeq(wire, arrived + 1, upto))
        split == split_blocks(text)
    IN  /\ arrived' = upto
        /\ buffer' = split.rest
        /\ events' = events \o NewEvents(split.blocks)
        /\ UNCHANGED <<sent, eol, wire>>

-----------------------------------------------------------------------------
(***************************************************************************)
(* What the server means.                                                  *)
(***************************************************************************)
\* A line as far as splitlines leaves it whole.
UpToSeparator(line) ==
  LET seps == {i \in DOMAIN line : line[i] = "LS"}
  IN  IF seps = {} THEN line ELSE SubSeq(line, 1, (CHOOSE i \in seps : \A j \in seps : i <= j) - 1)

\* The event an item is, if any.
Meaning(item) ==
  IF item.comment \/ item.lines = <<>> THEN <<>>
  ELSE <<[event |-> UpToSeparator(item.name),
          data |-> JoinLines([k \in DOMAIN item.lines |-> UpToSeparator(item.lines[k])])]>>

\* The events among the first n items.
Meant(n) == FlattenSeq([i \in 1..n |-> Meaning(sent[i])])

Complete == {n \in 0..Len(sent) : Len(StreamBytes(SubSeq(sent, 1, n), eol)) <= arrived}

\* A text as it is when every character has been cut, and events of such texts.
Blurred(text) == [i \in DOMAIN text |-> IF text[i] \in Halves THEN "FFFD" ELSE text[i]]

Seen(es) == [i \in DOMAIN es |-> [event |-> Blurred(es[i].event), data |-> Blurred(es[i].data)]]

(***************************************************************************)
(* However the network cuts the stream, the iterator has yielded exactly   *)
(* the events whose block has arrived to its end, in order, with their     *)
(* names and data: heartbeats and the unfinished tail yield nothing.  Two  *)
(* things are lost: a character cut by a chunk boundary arrives as         *)
(* replacement characters, and a line of data ends at a line separator     *)
(* inside it.                                                              *)
(***************************************************************************)
EventsAsSent ==
  sent # <<>> => \E n \in Complete : n + 1 \notin Complete /\ Seen(events) = Seen(Meant(n))

=============================================================================
