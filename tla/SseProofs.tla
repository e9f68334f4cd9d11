-------------------------------- MODULE SseProofs ---------------------------
(***************************************************************************)
(* Theorems about the event stream, for all items a server may send, in    *)
(* any number, and however the network cuts them: the parser's loops one   *)
(* element at a time, the blocks of a stream and of its beginnings, the    *)
(* event of a block, cut characters, and the iterator chunk by chunk.      *)
(***************************************************************************)
EXTENDS Sse, WellFoundedInduction, SequenceTheorems, TLAPS

-----------------------------------------------------------------------------
(***************************************************************************)
(* Sequences.                                                              *)
(***************************************************************************)
\* A set of naturals has a least element.
LEMMA LeastOf ==
  ASSUME NEW T \in SUBSET Nat, T # {}
  PROVE  \E n \in T : \A m \in T : n <= m
<1>1. PICK n \in T : \A m \in T : <<m, n>> \notin OpToRel(<, Nat)
  BY NatLessThanWellFounded, WFMin, Zenon
<1>2. \A m \in T : ~(m < n)
  BY <1>1 DEF OpToRel
<1> QED BY <1>2

\* A function on an initial segment of the naturals is a sequence.
LEMMA IsSequence ==
  ASSUME NEW S, NEW n \in Nat, NEW f, f = [i \in 1..n |-> f[i]], \A i \in 1..n : f[i] \in S
  PROVE  f \in Seq(S) /\ Len(f) = n
BY f \in [1..n -> S]

\* A sequence of one element.
LEMMA OneElement ==
  ASSUME NEW S, NEW x \in S
  PROVE  <<x>> \in Seq(S) /\ Len(<<x>>) = 1 /\ <<x>>[1] = x
OBVIOUS

\* f puts the first of sequences together, for each number of them.
Flattens(f, seqs) ==
  f = [i \in 1..Len(seqs) |-> IF i = 1 THEN seqs[i] ELSE f[i - 1] \o seqs[i]]

\* There is such a function.
LEMMA FlattensExists ==
  ASSUME NEW seqs, Len(seqs) \in Nat
  PROVE  \E f : Flattens(f, seqs)
<1> DEFINE N == Len(seqs)
           Upto(f, n) == f = [i \in 1..n |-> IF i = 1 THEN seqs[i] ELSE f[i - 1] \o seqs[i]]
           None == {n \in 0..N : ~\E f : Upto(f, n)}
<1> SUFFICES ASSUME None # {} PROVE FALSE
  <2>1. N \in 0..N
    OBVIOUS
  <2>2. None = {} => \E f : Upto(f, N)
    <3> HIDE DEF Upto
    <3> QED BY <2>1
  <2> QED BY <2>2 DEF Flattens
<1>1. PICK n \in None : \A m \in None : n <= m
  <2>1. None \in SUBSET Nat
    <3> HIDE DEF Upto
    <3> QED OBVIOUS
  <2> HIDE DEF None
  <2> QED BY <2>1, LeastOf
<1>2. CASE n = 0
  <2>1. Upto([i \in 1..0 |-> 0], 0)
    OBVIOUS
  <2> QED BY <1>1, <1>2, <2>1
<1>3. CASE n # 0
  <2>1. PICK k \in 0..N : n = k + 1 /\ ~(n <= k)
    BY <1>1, <1>3
  <2>2. PICK f : Upto(f, k)
    BY <1>1, <2>1
  <2> DEFINE last == IF n = 1 THEN seqs[n] ELSE f[k] \o seqs[n]
             g == [i \in 1..n |-> IF i = n THEN last ELSE f[i]]
  <2>3. ASSUME NEW i \in 1..n
        PROVE  g[i] = IF i = 1 THEN seqs[i] ELSE g[i - 1] \o seqs[i]
    <3>1. CASE i = n
      BY <2>1, <3>1
    <3>2. CASE i # n
      <4>1. i \in 1..k /\ g[i] = f[i] /\ (i # 1 => i - 1 \in 1..k /\ g[i - 1] = f[i - 1])
        BY <2>1, <3>2
      <4> QED BY <2>2, <4>1
    <3> QED BY <3>1, <3>2
  <2>4. Upto(g, n)
    BY <2>3
  <2> QED BY <1>1, <2>4
<1> QED BY <1>2, <1>3

\* Two such functions are equal where both are defined.
LEMMA FlattensAgree ==
  ASSUME NEW seqs, NEW more, Len(seqs) \in Nat, Len(more) \in Nat, Len(seqs) <= Len(more),
         \A i \in 1..Len(seqs) : seqs[i] = more[i],
         NEW f, Flattens(f, seqs), NEW g, Flattens(g, more)
  PROVE  \A i \in 1..Len(seqs) : f[i] = g[i]
<1> DEFINE Wrong == {i \in 1..Len(seqs) : f[i] # g[i]}
<1> SUFFICES ASSUME Wrong # {} PROVE FALSE
  OBVIOUS
<1>1. PICK i \in Wrong : \A j \in Wrong : i <= j
  <2>1. Wrong \in SUBSET Nat
    OBVIOUS
  <2> HIDE DEF Wrong
  <2> QED BY <2>1, LeastOf
<1>2. /\ f[i] = IF i = 1 THEN seqs[i] ELSE f[i - 1] \o seqs[i]
      /\ g[i] = IF i = 1 THEN more[i] ELSE g[i - 1] \o more[i]
  <2>1. i \in 1..Len(seqs) /\ i \in 1..Len(more)
    BY <1>1
  <2> HIDE DEF Wrong
  <2> QED BY <2>1 DEF Flattens
<1>3. i # 1 => f[i - 1] = g[i - 1]
  BY <1>1
<1> QED BY <1>1, <1>2, <1>3

\* What FlattenSeq is.
LEMMA FlattenIs ==
  ASSUME NEW seqs, Len(seqs) \in Nat \ {0}
  PROVE  \E f : Flattens(f, seqs) /\ FlattenSeq(seqs) = f[Len(seqs)]
<1> DEFINE flatten == CHOOSE f : Flattens(f, seqs)
<1>1. Flattens(flatten, seqs)
  BY FlattensExists
<1>2. FlattenSeq(seqs) = flatten[Len(seqs)]
  BY DEF FlattenSeq, Flattens
<1> QED BY <1>1, <1>2

\* So it is the last value of any such function.
LEMMA FlattensTo ==
  ASSUME NEW seqs, Len(seqs) \in Nat \ {0}, NEW g, Flattens(g, seqs)
  PROVE  FlattenSeq(seqs) = g[Len(seqs)]
<1>1. PICK f : Flattens(f, seqs) /\ FlattenSeq(seqs) = f[Len(seqs)]
  BY FlattenIs
<1>2. PICK more : more = seqs /\ Flattens(g, more)
  OBVIOUS
<1>3. Len(seqs) \in Nat /\ Len(more) \in Nat /\ Len(seqs) <= Len(more)
  BY <1>2
<1>4. \A i \in 1..Len(seqs) : seqs[i] = more[i]
  BY <1>2
<1>5. \A i \in 1..Len(seqs) : f[i] = g[i]
  BY <1>1, <1>2, <1>3, <1>4, FlattensAgree
<1> QED BY <1>1, <1>5

\* Nothing is put together to nothing.
LEMMA FlattenEmpty == FlattenSeq(<<>>) = <<>>
BY DEF FlattenSeq

\* One more sequence goes to the end.
LEMMA FlattenAppend ==
  ASSUME NEW S, NEW seqs \in Seq(Seq(S)), NEW x \in Seq(S)
  PROVE  FlattenSeq(Append(seqs, x)) = FlattenSeq(seqs) \o x
<1> DEFINE more == Append(seqs, x)
           N == Len(seqs)
<1>1. /\ N \in Nat /\ Len(more) = N + 1 /\ more[N + 1] = x
      /\ \A i \in 1..N : seqs[i] = more[i]
  OBVIOUS
<1>2. PICK g : Flattens(g, more) /\ FlattenSeq(more) = g[N + 1]
  <2> HIDE DEF more
  <2> QED BY <1>1, FlattenIs
<1>3. CASE N = 0
  <2>1. FlattenSeq(more) = x
    <3> HIDE DEF more
    <3> QED BY <1>1, <1>2, <1>3 DEF Flattens
  <2>2. seqs = <<>>
    BY <1>3
  <2> QED BY <2>1, <2>2, FlattenEmpty
<1>4. CASE N # 0
  <2>1. PICK f : Flattens(f, seqs) /\ FlattenSeq(seqs) = f[N]
    BY <1>1, <1>4, FlattenIs
  <2>2. f[N] = g[N]
    <3> HIDE DEF more
    <3>1. \A i \in 1..N : f[i] = g[i]
      <4>1. Len(seqs) \in Nat /\ Len(more) \in Nat /\ Len(seqs) <= Len(more)
        BY <1>1
      <4> HIDE DEF N
      <4>2. \A i \in 1..Len(seqs) : seqs[i] = more[i]
        BY <1>1 DEF N
      <4>3. \A i \in 1..Len(seqs) : f[i] = g[i]
        BY <1>2, <2>1, <4>1, <4>2, FlattensAgree
      <4> QED BY <4>3 DEF N
    <3> QED BY <1>1, <1>4, <3>1
  <2>3. g[N + 1] = g[N] \o x
    <3> HIDE DEF more
    <3>1. N + 1 \in 1..Len(more) /\ N + 1 # 1 /\ (N + 1) - 1 = N
      BY <1>1, <1>4
    <3> QED BY <1>1, <1>2, <3>1 DEF Flattens
  <2> QED BY <1>2, <2>1, <2>2, <2>3
<1> QED BY <1>3, <1>4

\* What holds of the empty sequence, and of one more element whenever it holds without it,
\* holds of every sequence: T is the set of those it holds of.
LEMMA AppendInduction ==
  ASSUME NEW S, NEW T \in SUBSET Seq(S), <<>> \in T, \A s \in T : \A x \in S : Append(s, x) \in T
  PROVE  T = Seq(S)
<1> DEFINE Lens == {Len(s) : s \in Seq(S) \ T}
<1> SUFFICES ASSUME Seq(S) \ T # {} PROVE FALSE
  OBVIOUS
<1>1. Lens \in SUBSET Nat /\ Lens # {}
  <2>1. \A s \in Seq(S) : Len(s) \in Nat
    OBVIOUS
  <2> QED BY <2>1
<1>2. PICK n \in Lens : \A m \in Lens : n <= m
  <2> HIDE DEF Lens
  <2> QED BY <1>1, LeastOf
<1>3. PICK s \in Seq(S) \ T : \A t \in Seq(S) \ T : Len(s) <= Len(t)
  BY <1>2
<1>4. PICK t \in Seq(S), x \in S : s = Append(t, x)
  BY <1>3, SequenceEmptyOrAppend
<1>5. Len(t) \in Nat /\ Len(s) = Len(t) + 1
  BY <1>4
<1>6. t \in T
  BY <1>3, <1>5
<1> QED BY <1>3, <1>4, <1>6

\* A sequence that is not empty, and what comes before its last element.
LEMMA FrontLast ==
  ASSUME NEW S
  PROVE  /\ \A s \in Seq(S) :
              s # <<>> => /\ Front(s) \in Seq(S) /\ Last(s) \in S
                         /\ Len(Front(s)) \in Nat /\ Len(s) = Len(Front(s)) + 1
                         /\ s = Append(Front(s), Last(s))
         /\ \A s \in Seq(S) : \A x \in S :
              /\ Front(Append(s, x)) = s /\ Last(Append(s, x)) = x
              /\ Append(s, x) \in Seq(S) /\ Append(s, x) # <<>>
<1>1. ASSUME NEW s \in Seq(S), NEW x \in S
      PROVE  /\ Front(Append(s, x)) = s /\ Last(Append(s, x)) = x
             /\ Append(s, x) \in Seq(S) /\ Append(s, x) # <<>>
  BY AppendProperties DEF Front, Last
<1>2. ASSUME NEW s \in Seq(S), s # <<>>
      PROVE  /\ Front(s) \in Seq(S) /\ Last(s) \in S
             /\ Len(Front(s)) \in Nat /\ Len(s) = Len(Front(s)) + 1
             /\ s = Append(Front(s), Last(s))
  <2>1. PICK t \in Seq(S), x \in S : s = Append(t, x)
    BY <1>2, SequenceEmptyOrAppend
  <2>2. Len(t) \in Nat /\ Len(s) = Len(t) + 1
    BY <2>1
  <2> QED BY <1>1, <2>1, <2>2
<1> QED BY <1>1, <1>2

\* Appending is putting a sequence of one at the end.
LEMMA ConcatAppend ==
  ASSUME NEW S, NEW s \in Seq(S), NEW t \in Seq(S), NEW x \in S
  PROVE  s \o Append(t, x) = Append(s \o t, x)
OBVIOUS

\* A set of sequences that has the empty one and is closed under concatenation has every
\* concatenation of its elements.
LEMMA FlattenClosed ==
  ASSUME NEW S, NEW G \in SUBSET Seq(S), <<>> \in G, \A s, t \in G : s \o t \in G
  PROVE  \A seqs \in Seq(G) : FlattenSeq(seqs) \in G
<1> DEFINE T == {seqs \in Seq(G) : FlattenSeq(seqs) \in G}
<1>1. <<>> \in T
  BY FlattenEmpty
<1>2. ASSUME NEW seqs \in T, NEW x \in G PROVE Append(seqs, x) \in T
  <2>1. seqs \in Seq(Seq(S)) /\ x \in Seq(S)
    BY SeqMonotonic
  <2>2. FlattenSeq(Append(seqs, x)) = FlattenSeq(seqs) \o x
    BY <2>1, FlattenAppend
  <2>3. Append(seqs, x) \in Seq(G) /\ FlattenSeq(seqs) \in G
    BY AppendProperties
  <2> QED BY <2>2, <2>3
<1>3. T = Seq(G)
  <2>1. T \in SUBSET Seq(G)
    OBVIOUS
  <2> HIDE DEF T
  <2> QED BY <1>1, <1>2, <2>1, AppendInduction
<1> QED BY <1>3

\* Sequences put together are a sequence.
LEMMA FlattenType ==
  ASSUME NEW S, NEW seqs \in Seq(Seq(S))
  PROVE  FlattenSeq(seqs) \in Seq(S)
<1>1. <<>> \in Seq(S) /\ \A s, t \in Seq(S) : s \o t \in Seq(S)
  BY ConcatProperties
<1> QED BY <1>1, FlattenClosed

\* Concatenations are put together.
LEMMA FlattenConcat ==
  ASSUME NEW S, NEW seqs \in Seq(Seq(S))
  PROVE  \A more \in Seq(Seq(S)) : FlattenSeq(seqs \o more) = FlattenSeq(seqs) \o FlattenSeq(more)
<1> DEFINE T == {more \in Seq(Seq(S)) :
                  FlattenSeq(seqs \o more) = FlattenSeq(seqs) \o FlattenSeq(more)}
<1>1. <<>> \in T
  <2>1. FlattenSeq(seqs) \in Seq(S)
    BY FlattenType
  <2>2. seqs \o <<>> = seqs /\ FlattenSeq(seqs) \o <<>> = FlattenSeq(seqs)
    BY <2>1, ConcatEmptySeq
  <2>3. <<>> \in Seq(Seq(S))
    OBVIOUS
  <2> QED BY <2>2, <2>3, FlattenEmpty
<1>2. ASSUME NEW more \in T, NEW x \in Seq(S) PROVE Append(more, x) \in T
  <2>1. seqs \o Append(more, x) = Append(seqs \o more, x) /\ seqs \o more \in Seq(Seq(S))
    BY ConcatAppend, ConcatProperties
  <2>2. FlattenSeq(Append(seqs \o more, x)) = FlattenSeq(seqs \o more) \o x
    BY <2>1, FlattenAppend
  <2>3. FlattenSeq(Append(more, x)) = FlattenSeq(more) \o x
    BY FlattenAppend
  <2>4. FlattenSeq(seqs) \in Seq(S) /\ FlattenSeq(more) \in Seq(S)
    BY FlattenType
  <2>5. (FlattenSeq(seqs) \o FlattenSeq(more)) \o x = FlattenSeq(seqs) \o (FlattenSeq(more) \o x)
    BY <2>4, ConcatAssociative
  <2>6. Append(more, x) \in Seq(Seq(S))
    BY AppendProperties
  <2> QED BY <2>1, <2>2, <2>3, <2>5, <2>6
<1>3. T = Seq(Seq(S))
  <2>1. T \in SUBSET Seq(Seq(S))
    OBVIOUS
  <2> HIDE DEF T
  <2> QED BY <1>1, <1>2, <2>1, AppendInduction
<1> QED BY <1>3

-----------------------------------------------------------------------------
(***************************************************************************)
(* The parser's scans and its loop: what one element more does.            *)
(***************************************************************************)
\* Nothing is shown through these instances: AppendInduction does.
Anything(t) == TRUE

Splitting ==
  INSTANCE Recursion WITH S <- Texts, size <- Len, Body <- parts_of, P <- Anything

\* One more character goes into the parts a text is split into.
LEMMA SplitParts ==
  /\ split_parts[<<>>] = << <<>> >>
  /\ \A t \in Texts : \A x \in Tokens : split_parts[Append(t, x)] = put_in_part(split_parts[t], x)
<1> DEFINE Is(f) == f = [t \in Texts |-> parts_of(f, t)]
           It == CHOOSE f : Is(f)
<1>1. Splitting!Sized
  <2>1. \A t \in Texts : Len(t) \in Nat
    BY DEF Texts
  <2> QED BY <2>1 DEF Splitting!Sized
<1>2. Splitting!Recurs
  <2>1. ASSUME NEW t \in Texts, NEW f, NEW g, \A u \in Splitting!Smaller(t) : f[u] = g[u]
        PROVE  parts_of(f, t) = parts_of(g, t)
    <3>1. CASE t = <<>>
      BY <3>1 DEF parts_of
    <3>2. CASE t # <<>>
      <4>1. Front(t) \in Texts /\ Len(Front(t)) \in Nat /\ Len(t) = Len(Front(t)) + 1
        BY <3>2, FrontLast DEF Texts
      <4>2. Front(t) \in Splitting!Smaller(t)
        BY <4>1 DEF Splitting!Smaller
      <4> QED BY <2>1, <3>2, <4>2 DEF parts_of
    <3> QED BY <3>1, <3>2
  <2> QED BY <2>1 DEF Splitting!Recurs
<1>3. Is(It)
  <2>1. \E f : Is(f)
    BY <1>1, <1>2, Splitting!Existence
  <2> HIDE DEF Is
  <2> QED BY <2>1
<1>4. split_parts = It
  BY DEF split_parts
<1>5. \A t \in Texts : split_parts[t] = parts_of(split_parts, t)
  <2> HIDE DEF It
  <2> QED BY <1>3, <1>4
<1>6. split_parts[<<>>] = << <<>> >>
  <2>1. <<>> \in Texts
    BY DEF Texts
  <2> QED BY <1>5, <2>1 DEF parts_of
<1>7. ASSUME NEW t \in Texts, NEW x \in Tokens
      PROVE  split_parts[Append(t, x)] = put_in_part(split_parts[t], x)
  <2>1. /\ Append(t, x) \in Texts /\ Append(t, x) # <<>>
        /\ Front(Append(t, x)) = t /\ Last(Append(t, x)) = x
    BY FrontLast DEF Texts
  <2> QED BY <1>5, <2>1 DEF parts_of
<1> QED BY <1>6, <1>7

SplittingLines ==
  INSTANCE Recursion WITH S <- Texts, size <- Len, Body <- lines_of, P <- Anything

\* One more character goes into the lines of a block.
LEMMA SplitLines ==
  /\ splitlines[<<>>] = << <<>> >>
  /\ \A t \in Texts : \A x \in Tokens : splitlines[Append(t, x)] = put_in_line(splitlines[t], x)
<1> DEFINE Is(f) == f = [t \in Texts |-> lines_of(f, t)]
           It == CHOOSE f : Is(f)
<1>1. SplittingLines!Sized
  <2>1. \A t \in Texts : Len(t) \in Nat
    BY DEF Texts
  <2> QED BY <2>1 DEF SplittingLines!Sized
<1>2. SplittingLines!Recurs
  <2>1. ASSUME NEW t \in Texts, NEW f, NEW g, \A u \in SplittingLines!Smaller(t) : f[u] = g[u]
        PROVE  lines_of(f, t) = lines_of(g, t)
    <3>1. CASE t = <<>>
      BY <3>1 DEF lines_of
    <3>2. CASE t # <<>>
      <4>1. Front(t) \in Texts /\ Len(Front(t)) \in Nat /\ Len(t) = Len(Front(t)) + 1
        BY <3>2, FrontLast DEF Texts
      <4>2. Front(t) \in SplittingLines!Smaller(t)
        BY <4>1 DEF SplittingLines!Smaller
      <4> QED BY <2>1, <3>2, <4>2 DEF lines_of
    <3> QED BY <3>1, <3>2
  <2> QED BY <2>1 DEF SplittingLines!Recurs
<1>3. Is(It)
  <2>1. \E f : Is(f)
    BY <1>1, <1>2, SplittingLines!Existence
  <2> HIDE DEF Is
  <2> QED BY <2>1
<1>4. splitlines = It
  BY DEF splitlines
<1>5. \A t \in Texts : splitlines[t] = lines_of(splitlines, t)
  <2> HIDE DEF It
  <2> QED BY <1>3, <1>4
<1>6. splitlines[<<>>] = << <<>> >>
  <2>1. <<>> \in Texts
    BY DEF Texts
  <2> QED BY <1>5, <2>1 DEF lines_of
<1>7. ASSUME NEW t \in Texts, NEW x \in Tokens
      PROVE  splitlines[Append(t, x)] = put_in_line(splitlines[t], x)
  <2>1. /\ Append(t, x) \in Texts /\ Append(t, x) # <<>>
        /\ Front(Append(t, x)) = t /\ Last(Append(t, x)) = x
    BY FrontLast DEF Texts
  <2> QED BY <1>5, <2>1 DEF lines_of
<1> QED BY <1>6, <1>7

Reading ==
  INSTANCE Recursion WITH S <- Seq(Texts), size <- Len, Body <- read, P <- Anything

\* One more line is read after the others.
LEMMA ReadLines ==
  /\ read_lines[<<>>] = NoFields
  /\ \A t \in Seq(Texts) : \A x \in Texts : read_lines[Append(t, x)] = read_line(read_lines[t], x)
<1> DEFINE Is(f) == f = [t \in Seq(Texts) |-> read(f, t)]
           It == CHOOSE f : Is(f)
<1>1. Reading!Sized
  <2>1. \A t \in Seq(Texts) : Len(t) \in Nat
    BY DEF Texts
  <2> QED BY <2>1 DEF Reading!Sized
<1>2. Reading!Recurs
  <2>1. ASSUME NEW t \in Seq(Texts), NEW f, NEW g, \A u \in Reading!Smaller(t) : f[u] = g[u]
        PROVE  read(f, t) = read(g, t)
    <3>1. CASE t = <<>>
      BY <3>1 DEF read
    <3>2. CASE t # <<>>
      <4>1. Front(t) \in Seq(Texts) /\ Len(Front(t)) \in Nat /\ Len(t) = Len(Front(t)) + 1
        BY <3>2, FrontLast DEF Texts
      <4>2. Front(t) \in Reading!Smaller(t)
        BY <4>1 DEF Reading!Smaller
      <4> QED BY <2>1, <3>2, <4>2 DEF read
    <3> QED BY <3>1, <3>2
  <2> QED BY <2>1 DEF Reading!Recurs
<1>3. Is(It)
  <2>1. \E f : Is(f)
    BY <1>1, <1>2, Reading!Existence
  <2> HIDE DEF Is
  <2> QED BY <2>1
<1>4. read_lines = It
  BY DEF read_lines
<1>5. \A t \in Seq(Texts) : read_lines[t] = read(read_lines, t)
  <2> HIDE DEF It
  <2> QED BY <1>3, <1>4
<1>6. read_lines[<<>>] = NoFields
  <2>1. <<>> \in Seq(Texts)
    BY DEF Texts
  <2> QED BY <1>5, <2>1 DEF read
<1>7. ASSUME NEW t \in Seq(Texts), NEW x \in Texts
      PROVE  read_lines[Append(t, x)] = read_line(read_lines[t], x)
  <2>1. /\ Append(t, x) \in Seq(Texts) /\ Append(t, x) # <<>>
        /\ Front(Append(t, x)) = t /\ Last(Append(t, x)) = x
    BY FrontLast DEF Texts
  <2> QED BY <1>5, <2>1 DEF read
<1> QED BY <1>6, <1>7

-----------------------------------------------------------------------------
(***************************************************************************)
(* What one byte more does to the blocks a text is split into.             *)
(***************************************************************************)
\* The tokens of the parser.
LEMMA TokensUsed ==
  /\ "LF" \in Tokens /\ "CR" \in Tokens /\ "LS" \in Tokens /\ "FFFD" \in Tokens
  /\ "event:" \in Tokens /\ "data:" \in Tokens /\ ":" \in Tokens /\ "word" \in Tokens
BY TokensAssumption DEF Halves, LineEnds, FieldNames

\* A sequence of one.
LEMMA OneIsText == \A x \in Tokens : <<x>> \in Texts /\ \A t \in Texts : t \o <<x>> = Append(t, x)
<1>1. ASSUME NEW S, NEW x \in S
      PROVE  <<x>> \in Seq(S) /\ \A t \in Seq(S) : t \o <<x>> = Append(t, x)
  BY AppendIsConcat
<1> QED BY <1>1 DEF Texts

\* What normalizing leaves of each character.
Pieces(text) ==
  [i \in DOMAIN text |->
    IF text[i] = "CR" /\ i < Len(text) /\ text[i + 1] = "LF" THEN <<>> ELSE <<text[i]>>]

\* They are texts.
LEMMA PiecesType == \A t \in Texts : Pieces(t) \in Seq(Texts) /\ Len(Pieces(t)) = Len(t)
<1> SUFFICES ASSUME NEW t \in Texts PROVE Pieces(t) \in Seq(Texts) /\ Len(Pieces(t)) = Len(t)
  OBVIOUS
<1>1. Len(t) \in Nat /\ DOMAIN t = 1..Len(t) /\ \A i \in 1..Len(t) : t[i] \in Tokens
  BY DEF Texts
<1>2. \A i \in 1..Len(t) : Pieces(t)[i] \in Texts
  <2>1. <<>> \in Texts
    BY DEF Texts
  <2>2. \A i \in 1..Len(t) : Pieces(t)[i] \in {<<>>, <<t[i]>>}
    BY <1>1 DEF Pieces
  <2> QED BY <1>1, <2>1, <2>2, OneIsText
<1>3. Pieces(t) = [i \in 1..Len(t) |-> Pieces(t)[i]]
  BY <1>1 DEF Pieces
<1> QED BY <1>1, <1>2, <1>3, IsSequence

\* normalized() of one more character: the end of a line swallows a CR.
LEMMA Normalizing ==
  /\ normalized(<<>>) = <<>>
  /\ \A t \in Texts : normalized(t) \in Texts
  /\ \A t \in Texts : \A x \in Tokens :
       ~(x = "LF" /\ t # <<>> /\ Last(t) = "CR") =>
         normalized(Append(t, x)) = Append(normalized(t), x)
  /\ \A t \in Texts :
       normalized(Append(Append(t, "CR"), "LF")) = Append(normalized(t), "LF")
<1>1. \A t : normalized(t) = FlattenSeq(Pieces(t))
  BY DEF normalized, Pieces
<1>2. normalized(<<>>) = <<>>
  <2>1. Pieces(<<>>) = <<>>
    BY DEF Pieces
  <2> QED BY <1>1, <2>1, FlattenEmpty
<1>3. \A t \in Texts : normalized(t) \in Texts
  BY <1>1, PiecesType, FlattenType DEF Texts
<1>4. ASSUME NEW t \in Texts, NEW x \in Tokens, NEW p \in Texts,
             Pieces(Append(t, x)) = Append(Pieces(t), p)
      PROVE  normalized(Append(t, x)) = normalized(t) \o p
  BY <1>1, <1>4, PiecesType, FlattenAppend DEF Texts
<1>5. ASSUME NEW t \in Texts, NEW x \in Tokens, ~(x = "LF" /\ t # <<>> /\ Last(t) = "CR")
      PROVE  normalized(Append(t, x)) = Append(normalized(t), x)
  <2>1. Pieces(Append(t, x)) = Append(Pieces(t), <<x>>)
    <3>1. /\ Len(t) \in Nat /\ Len(Append(t, x)) = Len(t) + 1 /\ Append(t, x)[Len(t) + 1] = x
          /\ \A i \in 1..Len(t) : Append(t, x)[i] = t[i]
          /\ Append(t, x) \in Texts
      <4>1. t \in Seq(Tokens) /\ x \in Tokens
        BY DEF Texts
      <4>2. /\ Append(t, x) \in Seq(Tokens) /\ Len(Append(t, x)) = Len(t) + 1
            /\ \A i \in 1..Len(t) : Append(t, x)[i] = t[i]
            /\ Append(t, x)[Len(t) + 1] = x
        BY <4>1, AppendProperties
      <4>3. Len(t) \in Nat
        BY <4>1, LenProperties
      <4> QED BY <4>2, <4>3 DEF Texts
    <3>2. /\ Len(Pieces(t)) = Len(t) /\ Pieces(t) \in Seq(Texts) /\ <<x>> \in Texts
          /\ Append(Pieces(t), <<x>>) \in Seq(Texts) /\ Pieces(Append(t, x)) \in Seq(Texts)
          /\ Len(Pieces(Append(t, x))) = Len(t) + 1
      <4>1. <<x>> \in Texts
        BY OneIsText
      <4> QED BY <3>1, <4>1, PiecesType, AppendProperties
    <3>3. ASSUME NEW i \in 1..Len(t) + 1
          PROVE  Pieces(Append(t, x))[i] = Append(Pieces(t), <<x>>)[i]
      <4>1. CASE i = Len(t) + 1
        <5>1. Pieces(Append(t, x))[i] = <<x>>
          BY <3>1, <4>1 DEF Pieces
        <5>2. Append(Pieces(t), <<x>>)[Len(Pieces(t)) + 1] = <<x>>
          <6>1. <<x>> \in Texts
            BY OneIsText
          <6> QED BY <3>2, <6>1, AppendProperties
        <5> QED BY <3>2, <4>1, <5>1, <5>2
      <4>2. CASE i # Len(t) + 1
        <5>1. i \in 1..Len(t) /\ Append(Pieces(t), <<x>>)[i] = Pieces(t)[i]
          BY <3>1, <3>2, <4>2
        <5>2. i = Len(t) => t # <<>> /\ Last(t) = t[i]
          BY <5>1 DEF Last
        <5>3. i \in DOMAIN t /\ i \in DOMAIN Append(t, x)
          BY <3>1, <5>1 DEF Texts
        <5>4. Pieces(Append(t, x))[i] = Pieces(t)[i]
          <6>1. CASE i = Len(t)
            BY <1>5, <3>1, <5>1, <5>2, <5>3, <6>1 DEF Pieces
          <6>2. CASE i # Len(t)
            <7>1. i + 1 \in 1..Len(t) /\ i < Len(t) /\ i < Len(t) + 1
              BY <3>1, <5>1, <6>2
            <7> QED BY <3>1, <5>1, <5>3, <7>1 DEF Pieces
          <6> QED BY <6>1, <6>2
        <5> QED BY <5>1, <5>4
      <4> QED BY <4>1, <4>2
    <3>4. Len(Append(Pieces(t), <<x>>)) = Len(t) + 1
      BY <3>1, <3>2
    <3> QED BY <3>2, <3>3, <3>4, SeqEqual
  <2>2. normalized(Append(t, x)) = normalized(t) \o <<x>>
    BY <1>4, <2>1, OneIsText
  <2> QED BY <1>3, <2>2, OneIsText
<1>6. ASSUME NEW t \in Texts
      PROVE  normalized(Append(Append(t, "CR"), "LF")) = Append(normalized(t), "LF")
  <2> DEFINE u == Append(t, "CR")
             v == Append(u, "LF")
             q == Append(Append(Pieces(t), <<>>), <<"LF">>)
  <2>1. /\ Len(t) \in Nat /\ Len(u) = Len(t) + 1 /\ Len(v) = Len(t) + 2
        /\ u[Len(t) + 1] = "CR" /\ v[Len(t) + 1] = "CR" /\ v[Len(t) + 2] = "LF"
        /\ \A i \in 1..Len(t) : u[i] = t[i] /\ v[i] = t[i]
        /\ u \in Texts /\ v \in Texts
    BY TokensUsed DEF Texts
  <2>2. /\ Len(Pieces(t)) = Len(t) /\ Pieces(t) \in Seq(Texts)
        /\ Pieces(v) \in Seq(Texts) /\ Len(Pieces(v)) = Len(t) + 2
    BY <2>1, PiecesType
  <2>3. <<>> \in Texts /\ <<"LF">> \in Texts
    BY TokensUsed, OneIsText DEF Texts
  <2>4. /\ q \in Seq(Texts) /\ Len(q) = Len(t) + 2
        /\ \A i \in 1..Len(t) : q[i] = Pieces(t)[i]
        /\ q[Len(t) + 1] = <<>> /\ q[Len(t) + 2] = <<"LF">>
    BY <2>1, <2>2, <2>3
  <2>5. Pieces(v) = q
    <3> HIDE DEF u, v, q
    <3>1. ASSUME NEW i \in 1..Len(t) + 2 PROVE Pieces(v)[i] = q[i]
      <4>0. DOMAIN v = 1..Len(t) + 2 /\ DOMAIN t = 1..Len(t)
        BY <2>1 DEF Texts
      <4>1. CASE i = Len(t) + 2
        BY <2>1, <2>4, <4>0, <4>1 DEF Pieces
      <4>2. CASE i = Len(t) + 1
        BY <2>1, <2>4, <4>0, <4>2 DEF Pieces
      <4>3. CASE i \in 1..Len(t)
        <5>1. CASE i = Len(t)
          <6>1. i + 1 = Len(t) + 1 /\ v[i + 1] = "CR" /\ v[i] = t[i] /\ ~(i < Len(t))
            BY <2>1, <4>3, <5>1
          <6>2. Pieces(v)[i] = <<t[i]>> /\ Pieces(t)[i] = <<t[i]>>
            BY <4>0, <4>3, <6>1 DEF Pieces
          <6> QED BY <2>4, <4>3, <6>2
        <5>2. CASE i # Len(t)
          <6>1. i + 1 \in 1..Len(t) /\ i < Len(t) /\ i < Len(t) + 2
            BY <2>1, <4>3, <5>2
          <6> QED BY <2>1, <2>4, <4>0, <4>3, <6>1 DEF Pieces
        <5> QED BY <5>1, <5>2
      <4> QED BY <2>1, <4>1, <4>2, <4>3
    <3> QED BY <2>2, <2>4, <3>1, SeqEqual
  <2>6. FlattenSeq(Append(Append(Pieces(t), <<>>), <<"LF">>))
          = (FlattenSeq(Pieces(t)) \o <<>>) \o <<"LF">>
    <3>1. Append(Pieces(t), <<>>) \in Seq(Texts)
      BY <2>2, <2>3, AppendProperties
    <3> QED BY <2>2, <2>3, <3>1, FlattenAppend DEF Texts
  <2>7. normalized(v) = (normalized(t) \o <<>>) \o <<"LF">>
    <3> HIDE DEF u, v
    <3> QED BY <1>1, <2>5, <2>6
  <2>8. normalized(t) \o <<>> = normalized(t)
    BY <1>3, ConcatEmptySeq DEF Texts
  <2> QED BY <1>3, <2>7, <2>8, TokensUsed, OneIsText
<1> QED BY <1>2, <1>3, <1>5, <1>6

\* The parts of a text whose line ends are normalized.
Split(text) == split_parts[normalized(text)]

Partings == Seq(Texts) \ {<<>>}

\* Parts are some parts and a last one.
LEMMA PartingsAre ==
  ASSUME NEW parts \in Partings
  PROVE  \E q \in Seq(Texts), c \in Texts :
           parts = Append(q, c) /\ Front(parts) = q /\ Last(parts) = c
<1>1. Front(parts) \in Seq(Texts) /\ Last(parts) \in Texts
        /\ parts = Append(Front(parts), Last(parts))
  BY FrontLast DEF Partings
<1> QED BY <1>1

\* One more part at the end.
LEMMA AppendPart ==
  ASSUME NEW q \in Seq(Texts), NEW c \in Texts
  PROVE  Append(q, c) \in Partings /\ Front(Append(q, c)) = q /\ Last(Append(q, c)) = c
BY FrontLast DEF Partings

\* Some more parts before the others.
LEMMA ConcatPart ==
  ASSUME NEW q \in Seq(Texts), NEW r \in Seq(Texts), NEW c \in Texts
  PROVE  q \o r \in Seq(Texts) /\ q \o Append(r, c) = Append(q \o r, c)
BY ConcatAppend, ConcatProperties

\* A text without its last character, and with one more.
LEMMA TextsAre ==
  /\ <<>> \in Texts
  /\ \A c \in Texts : c # <<>> => /\ Front(c) \in Texts /\ Last(c) \in Tokens
                                 /\ c = Append(Front(c), Last(c))
  /\ \A c \in Texts : \A x \in Tokens :
       /\ Append(c, x) \in Texts /\ Append(c, x) # <<>>
       /\ Front(Append(c, x)) = c /\ Last(Append(c, x)) = x
BY FrontLast DEF Texts

\* A line end is put into the last part after another one.
EndsPart(c, x) == x = "LF" /\ c # <<>> /\ Last(c) = "LF"

\* What a character does to the parts.
LEMMA PutInPart ==
  ASSUME NEW q \in Seq(Texts), NEW c \in Texts, NEW x \in Tokens
  PROVE  /\ EndsPart(c, x) => put_in_part(Append(q, c), x) = Append(Append(q, Front(c)), <<>>)
         /\ ~EndsPart(c, x) => put_in_part(Append(q, c), x) = Append(q, Append(c, x))
<1>1. Front(Append(q, c)) = q /\ Last(Append(q, c)) = c
  BY AppendPart
<1>2. \A r \in Seq(Texts) : r \o << <<>> >> = Append(r, <<>>)
  BY TextsAre, AppendIsConcat
<1>3. c # <<>> => Append(q, Front(c)) \in Seq(Texts)
  BY TextsAre, AppendProperties
<1>4. c # <<>> => Append(q, Front(c)) \o << <<>> >> = Append(Append(q, Front(c)), <<>>)
  BY <1>2, <1>3
<1> QED BY <1>1, <1>4 DEF put_in_part, EndsPart

\* It does it to the last part.
LEMMA PutInLastPart ==
  ASSUME NEW q \in Seq(Texts), NEW parts \in Partings, NEW x \in Tokens
  PROVE  /\ put_in_part(parts, x) \in Partings
         /\ put_in_part(q \o parts, x) = q \o put_in_part(parts, x)
<1>1. PICK r \in Seq(Texts), c \in Texts : parts = Append(r, c)
  BY PartingsAre
<1>2. q \o parts = Append(q \o r, c) /\ q \o r \in Seq(Texts)
  BY <1>1, ConcatPart
<1>3. CASE EndsPart(c, x)
  <2>1. Front(c) \in Texts
    BY <1>3, TextsAre DEF EndsPart
  <2>2. Append(r, Front(c)) \in Seq(Texts)
    BY <2>1, AppendProperties
  <2>3. put_in_part(parts, x) = Append(Append(r, Front(c)), <<>>)
    BY <1>1, <1>3, PutInPart
  <2>4. put_in_part(q \o parts, x) = Append(Append(q \o r, Front(c)), <<>>)
    BY <1>2, <1>3, PutInPart
  <2>5. q \o Append(Append(r, Front(c)), <<>>) = Append(q \o Append(r, Front(c)), <<>>)
    BY <2>2, TextsAre, ConcatPart
  <2>6. q \o Append(r, Front(c)) = Append(q \o r, Front(c))
    BY <2>1, ConcatPart
  <2>7. put_in_part(parts, x) \in Partings
    <3>1. <<>> \in Texts
      BY TextsAre
    <3> QED BY <2>2, <2>3, <3>1, AppendPart
  <2> QED BY <2>3, <2>4, <2>5, <2>6, <2>7
<1>4. CASE ~EndsPart(c, x)
  <2>1. Append(c, x) \in Texts
    BY TextsAre
  <2>2. put_in_part(parts, x) = Append(r, Append(c, x))
    BY <1>1, <1>4, PutInPart
  <2>3. put_in_part(q \o parts, x) = Append(q \o r, Append(c, x))
    BY <1>2, <1>4, PutInPart
  <2>4. q \o Append(r, Append(c, x)) = Append(q \o r, Append(c, x))
    BY <2>1, ConcatPart
  <2>5. put_in_part(parts, x) \in Partings
    BY <2>1, <2>2, AppendPart
  <2> QED BY <2>2, <2>3, <2>4, <2>5
<1> QED BY <1>3, <1>4

\* The last part ends as the text does, unless it is empty; it is not if the text ends in
\* something else than a line end.
LEMMA LastPart ==
  \A t \in Texts :
    /\ split_parts[t] \in Partings
    /\ Last(split_parts[t]) # <<>> => t # <<>> /\ Last(Last(split_parts[t])) = Last(t)
<1> DEFINE Ends(t) == Last(split_parts[t]) # <<>> => t # <<>>
             /\ Last(Last(split_parts[t])) = Last(t)
           T == {t \in Texts : split_parts[t] \in Partings /\ Ends(t)}
<1>1. <<>> \in T
  <2>1. << <<>> >> = Append(<<>>, <<>>) /\ <<>> \in Seq(Texts)
    OBVIOUS
  <2>2. << <<>> >> \in Partings /\ Last(<< <<>> >>) = <<>>
    <3>1. <<>> \in Texts
      BY TextsAre
    <3> QED BY <2>1, <3>1, AppendPart
  <2> QED BY <2>2, TextsAre, SplitParts
<1>2. ASSUME NEW t \in T, NEW x \in Tokens PROVE Append(t, x) \in T
  <2>1. t \in Texts /\ split_parts[t] \in Partings
    OBVIOUS
  <2>2. Append(t, x) \in Texts /\ Append(t, x) # <<>> /\ Last(Append(t, x)) = x
    BY <2>1, TextsAre
  <2>3. split_parts[Append(t, x)] = put_in_part(split_parts[t], x)
    BY <2>1, SplitParts
  <2>4. PICK q \in Seq(Texts), c \in Texts : split_parts[t] = Append(q, c)
    BY <2>1, PartingsAre
  <2>5. split_parts[Append(t, x)] \in Partings
    <3>1. <<>> \in Seq(Texts)
      OBVIOUS
    <3> QED BY <2>1, <2>3, <3>1, PutInLastPart
  <2>6. CASE EndsPart(c, x)
    <3>1. Front(c) \in Texts
      BY <2>6, TextsAre DEF EndsPart
    <3>2. Append(q, Front(c)) \in Seq(Texts)
      BY <3>1, AppendProperties
    <3>3. split_parts[Append(t, x)] = Append(Append(q, Front(c)), <<>>)
      BY <2>3, <2>4, <2>6, PutInPart
    <3>4. Last(split_parts[Append(t, x)]) = <<>>
      <4>1. <<>> \in Texts
        BY TextsAre
      <4> QED BY <3>2, <3>3, <4>1, AppendPart
    <3> QED BY <2>2, <2>5, <3>4
  <2>7. CASE ~EndsPart(c, x)
    <3>1. Append(c, x) \in Texts /\ Last(Append(c, x)) = x
      BY TextsAre
    <3>2. split_parts[Append(t, x)] = Append(q, Append(c, x))
      BY <2>3, <2>4, <2>7, PutInPart
    <3>3. Last(split_parts[Append(t, x)]) = Append(c, x)
      BY <3>1, <3>2, AppendPart
    <3> QED BY <2>2, <2>5, <3>1, <3>3
  <2> QED BY <2>6, <2>7
<1>3. T = Texts
  <2>1. T \in SUBSET Seq(Tokens)
    BY DEF Texts
  <2> HIDE DEF T
  <2> QED BY <1>1, <1>2, <2>1, AppendInduction DEF Texts
<1>4. \A t \in T : split_parts[t] \in Partings /\ Ends(t)
  OBVIOUS
<1> HIDE DEF T
<1> QED BY <1>3, <1>4

\* A text that is about to end its line, without the CR.
stripped(c) == IF c # <<>> /\ Last(c) = "CR" THEN Front(c) ELSE c

\* What one more byte does to the parts.
feed(parts, x) ==
  IF x = "LF" THEN put_in_part(Append(Front(parts), stripped(Last(parts))), x)
  ELSE put_in_part(parts, x)

\* Normalizing keeps the end of a text.
LEMMA NormalizedLast ==
  \A t \in Texts : t # <<>> => normalized(t) # <<>> /\ Last(normalized(t)) = Last(t)
<1> SUFFICES ASSUME NEW t \in Texts, t # <<>>
             PROVE  normalized(t) # <<>> /\ Last(normalized(t)) = Last(t)
  OBVIOUS
<1>1. PICK u \in Texts, x \in Tokens : t = Append(u, x)
  BY TextsAre
<1>2. normalized(u) \in Texts
  BY Normalizing
<1>3. CASE ~(x = "LF" /\ u # <<>> /\ Last(u) = "CR")
  <2>1. normalized(t) = Append(normalized(u), x)
    BY <1>1, <1>3, Normalizing
  <2> QED BY <1>1, <1>2, <2>1, TextsAre
<1>4. CASE x = "LF" /\ u # <<>> /\ Last(u) = "CR"
  <2>1. PICK v \in Texts : u = Append(v, "CR")
    BY <1>4, TextsAre
  <2>2. normalized(t) = Append(normalized(v), "LF") /\ normalized(v) \in Texts
    BY <1>1, <1>4, <2>1, Normalizing
  <2>3. normalized(t) # <<>> /\ Last(normalized(t)) = "LF"
    BY <2>2, TokensUsed, TextsAre
  <2>4. Last(t) = "LF"
    BY <1>1, <1>4, TextsAre
  <2> QED BY <2>3, <2>4
<1> QED BY <1>3, <1>4

\* So the parts of a text can be found one byte at a time.
LEMMA Feed ==
  /\ Split(<<>>) = << <<>> >>
  /\ \A t \in Texts : /\ Split(t) \in Partings
                     /\ \A x \in Tokens : Split(Append(t, x)) = feed(Split(t), x)
<1>1. Split(<<>>) = << <<>> >>
  BY Normalizing, SplitParts DEF Split
<1>2. ASSUME NEW t \in Texts PROVE Split(t) \in Partings
  BY Normalizing, LastPart DEF Split
<1>3. ASSUME NEW t \in Texts, NEW x \in Tokens PROVE Split(Append(t, x)) = feed(Split(t), x)
  <2>1. normalized(t) \in Texts /\ Split(t) \in Partings
    BY <1>2, Normalizing
  <2>2. PICK q \in Seq(Texts), c \in Texts : Split(t) = Append(q, c)
    BY <2>1, PartingsAre
  <2>3. CASE x # "LF"
    <3>1. normalized(Append(t, x)) = Append(normalized(t), x)
      BY <2>3, Normalizing
    <3> QED BY <2>1, <2>3, <3>1, SplitParts DEF Split, feed
  <2>4. CASE x = "LF" /\ ~(t # <<>> /\ Last(t) = "CR")
    <3>1. normalized(Append(t, x)) = Append(normalized(t), x)
      BY <2>4, Normalizing
    <3>2. Split(Append(t, x)) = put_in_part(Split(t), x)
      BY <2>1, <3>1, SplitParts DEF Split
    <3>3. c # <<>> => normalized(t) # <<>> /\ Last(c) = Last(normalized(t))
      BY <2>1, <2>2, LastPart, AppendPart DEF Split
    <3>4. normalized(t) # <<>> => t # <<>>
      BY Normalizing
    <3>5. stripped(c) = c
      BY <2>4, <3>3, <3>4, NormalizedLast DEF stripped
    <3>6. Front(Split(t)) = q /\ Last(Split(t)) = c
      BY <2>2, AppendPart
    <3> QED BY <2>2, <2>4, <3>2, <3>5, <3>6 DEF feed
  <2>5. CASE x = "LF" /\ t # <<>> /\ Last(t) = "CR"
    <3>1. PICK u \in Texts : t = Append(u, "CR")
      BY <2>5, TextsAre
    <3>2. /\ normalized(u) \in Texts
          /\ normalized(t) = Append(normalized(u), "CR")
          /\ normalized(Append(t, x)) = Append(normalized(u), "LF")
      BY <2>5, <3>1, TokensUsed, Normalizing
    <3>3. PICK r \in Seq(Texts), d \in Texts : split_parts[normalized(u)] = Append(r, d)
      <4>1. split_parts[normalized(u)] \in Partings
        BY <3>2, LastPart
      <4> QED BY <4>1, PartingsAre
    <3>4. /\ Split(t) = put_in_part(Append(r, d), "CR")
          /\ Split(Append(t, x)) = put_in_part(Append(r, d), x)
      BY <2>5, <3>2, <3>3, TokensUsed, SplitParts DEF Split
    <3>5. Split(t) = Append(r, Append(d, "CR"))
      <4>1. ~EndsPart(d, "CR")
        BY DEF EndsPart
      <4> QED BY <3>4, <4>1, TokensUsed, PutInPart
    <3>6. /\ Append(d, "CR") \in Texts /\ Append(d, "CR") # <<>>
          /\ Last(Append(d, "CR")) = "CR" /\ Front(Append(d, "CR")) = d
      BY TokensUsed, TextsAre
    <3>7. Front(Split(t)) = r /\ stripped(Last(Split(t))) = d
      <4>1. Front(Split(t)) = r /\ Last(Split(t)) = Append(d, "CR")
        BY <3>5, <3>6, AppendPart
      <4> QED BY <3>6, <4>1 DEF stripped
    <3> QED BY <2>5, <3>4, <3>7 DEF feed
  <2> QED BY <2>3, <2>4, <2>5
<1> QED BY <1>1, <1>2, <1>3

\* The part a byte goes to: the end of a line swallows a CR.
ready(c, x) == IF x = "LF" THEN stripped(c) ELSE c

\* What one more byte does to the last part.
LEMMA FeedIs ==
  ASSUME NEW q \in Seq(Texts), NEW c \in Texts, NEW x \in Tokens
  PROVE  /\ ready(c, x) \in Texts
         /\ EndsPart(ready(c, x), x) =>
              /\ Front(ready(c, x)) \in Texts
              /\ feed(Append(q, c), x) = Append(Append(q, Front(ready(c, x))), <<>>)
         /\ ~EndsPart(ready(c, x), x) =>
              /\ Append(ready(c, x), x) \in Texts
              /\ feed(Append(q, c), x) = Append(q, Append(ready(c, x), x))
<1>1. ready(c, x) \in Texts
  BY TextsAre DEF ready, stripped
<1>2. Front(Append(q, c)) = q /\ Last(Append(q, c)) = c
  BY AppendPart
<1>3. feed(Append(q, c), x) = put_in_part(Append(q, ready(c, x)), x)
  BY <1>2 DEF feed, ready
<1>4. Append(ready(c, x), x) \in Texts
  BY <1>1, TextsAre
<1>5. EndsPart(ready(c, x), x) => Front(ready(c, x)) \in Texts
  BY <1>1, TextsAre DEF EndsPart
<1> HIDE DEF ready
<1> QED BY <1>1, <1>3, <1>4, <1>5, PutInPart

\* It is the last part that it changes.
LEMMA FeedLast ==
  ASSUME NEW q \in Seq(Texts), NEW parts \in Partings, NEW x \in Tokens
  PROVE  feed(parts, x) \in Partings /\ feed(q \o parts, x) = q \o feed(parts, x)
<1>1. PICK r \in Seq(Texts), c \in Texts : parts = Append(r, c)
  BY PartingsAre
<1>2. PICK d \in Texts : d = ready(c, x)
  BY FeedIs
<1>3. q \o parts = Append(q \o r, c) /\ q \o r \in Seq(Texts)
  BY <1>1, ConcatPart
<1>4. q \o Append(r, d) = Append(q \o r, d) /\ Append(r, d) \in Partings
  BY ConcatPart, AppendPart
<1>5. feed(parts, x) = put_in_part(Append(r, d), x)
  <2>1. Front(parts) = r /\ Last(parts) = c
    BY <1>1, AppendPart
  <2> QED BY <1>2, <1>1, <2>1 DEF feed, ready
<1>6. feed(q \o parts, x) = put_in_part(Append(q \o r, d), x)
  <2>1. Front(q \o parts) = q \o r /\ Last(q \o parts) = c
    BY <1>3, AppendPart
  <2> QED BY <1>2, <1>3, <2>1 DEF feed, ready
<1> QED BY <1>4, <1>5, <1>6, PutInLastPart

\* A text without a complete block.
Settled(c) == Split(c) = Append(<<>>, c)

\* q are the parts of t that its rest c does not hold: c is split on as t would be.
SplitsOn(t, q, c) == \A y \in Texts : Split(t \o y) = q \o Split(c \o y)

\* The rest of a text is split on as the text itself would have been.
LEMMA SplitOn ==
  ASSUME NEW t \in Texts, NEW q \in Seq(Texts), NEW c \in Texts, Split(t) = Append(q, c), Settled(c)
  PROVE  SplitsOn(t, q, c)
<1> SUFFICES \A y \in Texts : Split(t \o y) = q \o Split(c \o y)
  BY DEF SplitsOn
<1> DEFINE T == {y \in Texts : Split(t \o y) = q \o Split(c \o y)}
<1>1. <<>> \in T
  <2>1. t \o <<>> = t /\ c \o <<>> = c
    BY ConcatEmptySeq DEF Texts
  <2>2. q \o Append(<<>>, c) = Append(q \o <<>>, c) /\ q \o <<>> = q
    <3>1. <<>> \in Seq(Texts)
      OBVIOUS
    <3> QED BY <3>1, ConcatPart, ConcatEmptySeq
  <2> QED BY <2>1, <2>2, TextsAre DEF Settled
<1>2. ASSUME NEW y \in T, NEW x \in Tokens PROVE Append(y, x) \in T
  <2>1. y \in Texts /\ Split(t \o y) = q \o Split(c \o y)
    OBVIOUS
  <2>2. /\ t \o y \in Texts /\ c \o y \in Texts
        /\ t \o Append(y, x) = Append(t \o y, x) /\ c \o Append(y, x) = Append(c \o y, x)
    <3>1. t \in Seq(Tokens) /\ c \in Seq(Tokens) /\ y \in Seq(Tokens)
      BY <2>1 DEF Texts
    <3>2. t \o y \in Seq(Tokens) /\ c \o y \in Seq(Tokens)
      BY <3>1, ConcatProperties
    <3> HIDE DEF T
    <3>3. t \o Append(y, x) = Append(t \o y, x) /\ c \o Append(y, x) = Append(c \o y, x)
      BY <3>1, ConcatAppend
    <3> QED BY <3>2, <3>3 DEF Texts
  <2>3. /\ Split(t \o Append(y, x)) = feed(Split(t \o y), x)
        /\ Split(c \o Append(y, x)) = feed(Split(c \o y), x)
        /\ Split(c \o y) \in Partings
    BY <2>2, Feed
  <2>4. feed(q \o Split(c \o y), x) = q \o feed(Split(c \o y), x)
    BY <2>3, FeedLast
  <2>5. Append(y, x) \in Texts
    BY <2>1, TextsAre
  <2> QED BY <2>1, <2>3, <2>4, <2>5
<1>3. T = Texts
  <2>1. T \in SUBSET Seq(Tokens)
    BY DEF Texts
  <2> HIDE DEF T
  <2> QED BY <1>1, <1>2, <2>1, AppendInduction DEF Texts
<1>4. \A y \in T : Split(t \o y) = q \o Split(c \o y)
  OBVIOUS
<1> HIDE DEF T
<1> QED BY <1>3, <1>4

-----------------------------------------------------------------------------
\* Every CR begins the end of a line, but perhaps the last.
Regular(t) == \A i \in 1..Len(t) : t[i] = "CR" /\ i < Len(t) => t[i + 1] = "LF"

\* t does not end in the middle of a line end.
Closed(t) == t = <<>> \/ Last(t) # "CR"

\* One byte less is as regular.
LEMMA RegularFront ==
  ASSUME NEW t \in Texts, NEW x \in Tokens, Regular(Append(t, x))
  PROVE  Regular(t) /\ (Closed(t) \/ x = "LF")
<1>1. /\ Len(t) \in Nat /\ Len(Append(t, x)) = Len(t) + 1 /\ Append(t, x)[Len(t) + 1] = x
      /\ \A i \in 1..Len(t) : Append(t, x)[i] = t[i]
  BY AppendProperties, LenProperties DEF Texts
<1>2. ASSUME NEW i \in 1..Len(t), t[i] = "CR", i < Len(t) PROVE t[i + 1] = "LF"
  <2>1. i \in 1..Len(Append(t, x)) /\ i < Len(Append(t, x)) /\ i + 1 \in 1..Len(t)
    BY <1>1, <1>2
  <2> QED BY <1>1, <1>2, <2>1 DEF Regular
<1>3. ASSUME ~Closed(t) PROVE x = "LF"
  <2>1. t # <<>> /\ t[Len(t)] = "CR"
    BY <1>3 DEF Closed, Last
  <2>2. Len(t) \in 1..Len(Append(t, x)) /\ Len(t) < Len(Append(t, x)) /\ Len(t) \in 1..Len(t)
    <3>1. Len(t) # 0
      BY <2>1, EmptySeq DEF Texts
    <3> QED BY <1>1, <3>1
  <2> QED BY <1>1, <2>1, <2>2 DEF Regular
<1> QED BY <1>2, <1>3 DEF Regular

\* What is left of a regular text when its blocks are gone can be normalized and split
\* again without a change.
Rests(t) ==
  LET c == Last(Split(t))
  IN  /\ Settled(c) /\ Settled(stripped(c)) /\ Closed(stripped(c))
      /\ Closed(t) => Closed(c)

\* It is so for every regular text.
LEMMA RegularRests == \A t \in Texts : Regular(t) => Rests(t)
<1> DEFINE T == {t \in Texts : Regular(t) => Rests(t)}
<1>0. Settled(<<>>)
  <2>1. << <<>> >> = Append(<<>>, <<>>)
    OBVIOUS
  <2> QED BY <2>1, Feed DEF Settled
<1>1. <<>> \in T
  <2>1. Split(<<>>) = Append(<<>>, <<>>) /\ <<>> \in Seq(Texts) /\ <<>> \in Texts
    BY <1>0, TextsAre DEF Settled
  <2>2. Last(Split(<<>>)) = <<>>
    BY <2>1, AppendPart
  <2> QED BY <1>0, <2>1, <2>2 DEF Rests, stripped, Closed
<1>2. ASSUME NEW t \in Texts, Regular(t) => Rests(t), NEW x \in Tokens, Regular(Append(t, x))
      PROVE  Rests(Append(t, x))
  <2>1. Split(t) \in Partings /\ Split(Append(t, x)) = feed(Split(t), x)
    BY Feed
  <2>2. PICK q \in Seq(Texts), c \in Texts : Split(t) = Append(q, c) /\ Last(Split(t)) = c
    BY <2>1, PartingsAre
  <2>3. /\ Settled(c) /\ Settled(stripped(c)) /\ Closed(stripped(c))
        /\ Closed(t) => Closed(c)
    BY <1>2, <2>2, RegularFront DEF Rests
  <2>4. PICK d \in Texts : d = ready(c, x)
    BY FeedIs
  <2>5. Settled(d)
    BY <2>3, <2>4 DEF ready
  <2>6. Last(Append(t, x)) = x /\ Append(t, x) # <<>>
    BY TextsAre
  <2>7. CASE EndsPart(d, x)
    <3>1. Front(d) \in Texts /\ Split(Append(t, x)) = Append(Append(q, Front(d)), <<>>)
      BY <2>1, <2>2, <2>4, <2>7, FeedIs
    <3>2. Append(q, Front(d)) \in Seq(Texts) /\ <<>> \in Texts
      BY <3>1, TextsAre, AppendProperties
    <3>3. Last(Split(Append(t, x))) = <<>>
      BY <3>1, <3>2, AppendPart
    <3> QED BY <1>0, <3>3 DEF Rests, stripped, Closed
  <2>8. CASE ~EndsPart(d, x)
    <3>1. PICK e \in Texts : e = Append(d, x)
      BY TextsAre
    <3>2. Split(Append(t, x)) = Append(q, e)
      BY <2>1, <2>2, <2>4, <2>8, <3>1, FeedIs
    <3>3. Last(Split(Append(t, x))) = e
      BY <3>2, AppendPart
    <3>4. ready(d, x) = d
      BY <2>3, <2>4 DEF ready, stripped, Closed
    <3>5. Settled(e)
      <4>1. <<>> \in Seq(Texts)
        OBVIOUS
      <4>2. Split(e) = feed(Append(<<>>, d), x)
        BY <2>5, <3>1, Feed DEF Settled
      <4>3. feed(Append(<<>>, d), x) = Append(<<>>, Append(ready(d, x), x))
        BY <2>8, <3>4, <4>1, FeedIs
      <4> QED BY <3>1, <3>4, <4>2, <4>3 DEF Settled
    <3>6. e # <<>> /\ Last(e) = x /\ Front(e) = d
      BY <3>1, TextsAre
    <3>7. CASE x = "CR"
      <4>1. d = c /\ Closed(t)
        BY <1>2, <2>4, <3>7, RegularFront DEF ready
      <4> QED BY <2>3, <2>6, <3>3, <3>5, <3>6, <3>7, <4>1 DEF Rests, stripped, Closed
    <3>8. CASE x # "CR"
      BY <3>3, <3>5, <3>6, <3>8 DEF Rests, stripped, Closed
    <3> QED BY <3>7, <3>8
  <2> QED BY <2>7, <2>8
<1>3. T = Texts
  <2>1. T \in SUBSET Seq(Tokens)
    BY DEF Texts
  <2>2. ASSUME NEW t \in T, NEW x \in Tokens PROVE Append(t, x) \in T
    BY <1>2, TextsAre
  <2> HIDE DEF T
  <2> QED BY <1>1, <2>1, <2>2, AppendInduction DEF Texts
<1>4. \A t \in T : Regular(t) => Rests(t)
  OBVIOUS
<1> HIDE DEF T
<1> QED BY <1>3, <1>4

-----------------------------------------------------------------------------
(***************************************************************************)
(* Texts whose lines all end.                                              *)
(***************************************************************************)
\* Texts put together.
LEMMA ConcatText ==
  ASSUME NEW t \in Texts, NEW u \in Texts
  PROVE  /\ t \o u \in Texts /\ Len(t) \in Nat /\ Len(u) \in Nat /\ Len(t \o u) = Len(t) + Len(u)
         /\ \A i \in 1..Len(t) : (t \o u)[i] = t[i]
         /\ \A i \in 1..Len(u) : (t \o u)[Len(t) + i] = u[i]
         /\ \A x \in Tokens : t \o Append(u, x) = Append(t \o u, x)
         /\ \A v \in Texts : (t \o u) \o v = t \o (u \o v)
         /\ t \o <<>> = t /\ <<>> \o t = t
<1>1. t \in Seq(Tokens) /\ u \in Seq(Tokens)
  BY DEF Texts
<1>2. /\ t \o u \in Seq(Tokens) /\ Len(t \o u) = Len(t) + Len(u)
      /\ Len(t) \in Nat /\ Len(u) \in Nat
  BY <1>1, ConcatProperties, LenProperties
<1>3. /\ \A i \in 1..Len(t) : (t \o u)[i] = t[i]
      /\ \A i \in 1..Len(u) : (t \o u)[Len(t) + i] = u[i]
  <2>1. ASSUME NEW i \in 1..Len(u) PROVE (t \o u)[Len(t) + i] = u[i]
    <3>1. Len(t) + i \in 1..Len(t) + Len(u) /\ ~(Len(t) + i <= Len(t)) /\ (Len(t) + i) - Len(t) = i
      BY <1>2
    <3> QED BY <1>1, <3>1, ConcatProperties
  <2>2. ASSUME NEW i \in 1..Len(t) PROVE (t \o u)[i] = t[i]
    <3>1. i \in 1..Len(t) + Len(u) /\ i <= Len(t)
      BY <1>2
    <3> QED BY <1>1, <3>1, ConcatProperties
  <2> QED BY <2>1, <2>2
<1>4. \A x \in Tokens : t \o Append(u, x) = Append(t \o u, x)
  BY <1>1, ConcatAppend
<1>5. \A v \in Texts : (t \o u) \o v = t \o (u \o v)
  BY <1>1, ConcatAssociative DEF Texts
<1>6. t \o <<>> = t /\ <<>> \o t = t
  BY <1>1, ConcatEmptySeq
<1> QED BY <1>2, <1>3, <1>4, <1>5, <1>6 DEF Texts

\* They are a text.
LEMMA ConcatType ==
  ASSUME NEW t \in Texts, NEW u \in Texts
  PROVE  t \o u \in Texts
BY ConcatProperties DEF Texts

\* With one more character.
LEMMA ConcatMore ==
  ASSUME NEW t \in Texts, NEW u \in Texts, NEW x \in Tokens
  PROVE  t \o Append(u, x) = Append(t \o u, x)
BY ConcatAppend DEF Texts

\* Three of them.
LEMMA ConcatThree ==
  ASSUME NEW t \in Texts, NEW u \in Texts, NEW v \in Texts
  PROVE  (t \o u) \o v = t \o (u \o v)
BY ConcatAssociative DEF Texts

\* With nothing.
LEMMA ConcatNone ==
  ASSUME NEW t \in Texts
  PROVE  t \o <<>> = t /\ <<>> \o t = t
BY TextsAre, ConcatText

\* The texts a stream is made of.
Whole == {t \in Texts : Regular(t) /\ Closed(t)}

\* Put together they are one.
LEMMA WholeConcat ==
  /\ <<>> \in Whole
  /\ \A t, u \in Whole : t \o u \in Whole
<1>1. <<>> \in Whole
  <2>1. Len(<<>>) = 0
    OBVIOUS
  <2> QED BY <2>1, TextsAre DEF Whole, Regular, Closed
<1>2. ASSUME NEW t \in Whole, NEW u \in Whole PROVE t \o u \in Whole
  <2>1. t \in Texts /\ u \in Texts /\ Regular(t) /\ Regular(u) /\ Closed(t) /\ Closed(u)
    BY DEF Whole
  <2>2. PICK m \in Nat, n \in Nat, w \in Texts :
          /\ m = Len(t) /\ n = Len(u) /\ w = t \o u /\ Len(w) = m + n
          /\ \A i \in 1..m : w[i] = t[i]
          /\ \A i \in 1..n : w[m + i] = u[i]
    <3>1. /\ t \o u \in Texts /\ Len(t) \in Nat /\ Len(u) \in Nat
          /\ Len(t \o u) = Len(t) + Len(u)
          /\ \A i \in 1..Len(t) : (t \o u)[i] = t[i]
          /\ \A i \in 1..Len(u) : (t \o u)[Len(t) + i] = u[i]
      BY <2>1, ConcatText
    <3> QED BY <3>1, Zenon
  <2>3. ASSUME NEW i \in 1..m + n, w[i] = "CR", i < m + n PROVE w[i + 1] = "LF"
    <3>1. CASE i < m
      <4>1. i \in 1..m /\ i + 1 \in 1..m
        BY <3>1
      <4> QED BY <2>1, <2>2, <2>3, <3>1, <4>1 DEF Regular
    <3>2. CASE i = m
      <4>1. m \in 1..m /\ m # 0
        BY <3>2
      <4>2. t # <<>> /\ Last(t) = t[m] /\ w[m] = t[m]
        BY <2>2, <4>1 DEF Last
      <4> QED BY <2>1, <2>3, <3>2, <4>2 DEF Closed
    <3>3. CASE i > m
      <4>1. PICK k \in 1..n : i = m + k
        <5>1. i - m \in 1..n /\ i = m + (i - m)
          BY <3>3
        <5> QED BY <5>1
      <4>2. k < n /\ k + 1 \in 1..n /\ i + 1 = m + (k + 1)
        BY <2>3, <4>1
      <4> QED BY <2>1, <2>2, <2>3, <4>1, <4>2 DEF Regular
    <3> QED BY <3>1, <3>2, <3>3
  <2>4. Regular(w)
    BY <2>2, <2>3 DEF Regular
  <2>5. CASE n = 0
    <3>1. u = <<>>
      BY <2>1, <2>2, <2>5, EmptySeq DEF Texts
    <3>2. t \o <<>> = t
      BY <2>1, ConcatText
    <3> QED BY <2>2, <3>1, <3>2
  <2>6. CASE n # 0
    <3>1. n \in 1..n /\ u # <<>> /\ Last(u) = u[n] /\ Last(w) = w[m + n]
      BY <2>2, <2>6 DEF Last
    <3>2. Closed(w)
      BY <2>1, <2>2, <3>1 DEF Closed
    <3> QED BY <2>2, <2>4, <3>2 DEF Whole
  <2> QED BY <2>5, <2>6
<1> QED BY <1>1, <1>2

\* Texts in which no line ends, but perhaps at a separator.
Inner == Tokens \ {"LF", "CR"}
Plain == Seq(Inner)

\* They are texts.
LEMMA PlainIsText == Plain \subseteq Texts /\ Inner \subseteq Tokens
BY SeqMonotonic DEF Plain, Texts, Inner

\* Lines and their ends are whole.
LEMMA PlainIsWhole == Plain \subseteq Whole /\ Eols \subseteq Whole
<1>1. ASSUME NEW t \in Plain PROVE t \in Whole
  <2>1. t \in Texts /\ \A i \in 1..Len(t) : t[i] # "CR"
    <3>1. t \in Texts
      BY PlainIsText
    <3>2. \A i \in 1..Len(t) : t[i] \in Inner
      BY DEF Plain
    <3> QED BY <3>1, <3>2 DEF Inner
  <2>2. Len(t) \in Nat /\ (t # <<>> => Len(t) # 0)
    BY <2>1, EmptySeq, LenProperties DEF Texts
  <2>3. t # <<>> => Len(t) \in 1..Len(t)
    BY <2>2
  <2> QED BY <2>1, <2>3 DEF Whole, Regular, Closed, Last
<1>2. ASSUME NEW t \in Eols PROVE t \in Whole
  <2>1. <<"LF">> \in Texts /\ <<"CR", "LF">> \in Texts
    BY TokensUsed, OneIsText DEF Texts
  <2>2. CASE t = <<"LF">>
    <3>1. Len(t) = 1 /\ t[1] = "LF"
      BY <2>2
    <3> QED BY <2>1, <2>2, <3>1 DEF Whole, Regular, Closed, Last
  <2>3. CASE t = <<"CR", "LF">>
    <3>1. Len(t) = 2 /\ t[1] = "CR" /\ t[2] = "LF"
      BY <2>3
    <3>2. \A i \in 1..2 : i < 2 => i = 1
      OBVIOUS
    <3> QED BY <2>1, <2>3, <3>1, <3>2 DEF Whole, Regular, Closed, Last
  <2> QED BY <2>2, <2>3 DEF Eols
<1> QED BY <1>1, <1>2

\* A text whose beginning is regular.
LEMMA RegularBefore ==
  ASSUME NEW t \in Texts, NEW u \in Texts, Regular(t \o u)
  PROVE  Regular(t)
<1>1. PICK m \in Nat, n \in Nat, w \in Texts :
        /\ m = Len(t) /\ n = Len(u) /\ w = t \o u /\ Len(w) = m + n
        /\ \A i \in 1..m : w[i] = t[i]
  <2>1. /\ t \o u \in Texts /\ Len(t) \in Nat /\ Len(u) \in Nat
        /\ Len(t \o u) = Len(t) + Len(u)
        /\ \A i \in 1..Len(t) : (t \o u)[i] = t[i]
    BY ConcatText
  <2> QED BY <2>1, Zenon
<1>2. ASSUME NEW i \in 1..m, t[i] = "CR", i < m PROVE t[i + 1] = "LF"
  <2>1. i \in 1..m + n /\ i < m + n /\ i + 1 \in 1..m
    BY <1>2
  <2> QED BY <1>1, <1>2, <2>1 DEF Regular
<1> QED BY <1>1, <1>2 DEF Regular

-----------------------------------------------------------------------------
(***************************************************************************)
(* Lines put together.                                                     *)
(***************************************************************************)
\* The last of some sequences is put at the end of the others.
LEMMA FlattenLast ==
  ASSUME NEW S, NEW n \in Nat, NEW m, m = [i \in 1..n + 1 |-> m[i]],
         \A i \in 1..n + 1 : m[i] \in Seq(S)
  PROVE  FlattenSeq(m) = FlattenSeq([i \in 1..n |-> m[i]]) \o m[n + 1]
<1> DEFINE f == [i \in 1..n |-> m[i]]
<1>1. n + 1 \in 1..n + 1 /\ n + 1 \in Nat /\ \A i \in 1..n : i \in 1..n + 1
  OBVIOUS
<1>2. f \in Seq(Seq(S)) /\ Len(f) = n /\ m \in Seq(Seq(S)) /\ Len(m) = n + 1
  <2>1. f = [i \in 1..n |-> f[i]] /\ \A i \in 1..n : f[i] \in Seq(S)
    BY <1>1
  <2> HIDE DEF f
  <2>2. f \in Seq(Seq(S)) /\ Len(f) = n
    BY <2>1, IsSequence
  <2>3. m \in Seq(Seq(S)) /\ Len(m) = n + 1
    BY <1>1, IsSequence
  <2> QED BY <2>2, <2>3
<1>3. m = Append(f, m[n + 1])
  <2>0. m[n + 1] \in Seq(S) /\ \A i \in 1..n : f[i] = m[i]
    BY <1>1
  <2> HIDE DEF f
  <2>1. /\ Append(f, m[n + 1]) \in Seq(Seq(S)) /\ Len(Append(f, m[n + 1])) = n + 1
        /\ \A i \in 1..n : Append(f, m[n + 1])[i] = f[i]
        /\ Append(f, m[n + 1])[n + 1] = m[n + 1]
    BY <1>2, <2>0, AppendProperties
  <2>2. \A i \in 1..n + 1 : i \in 1..n \/ i = n + 1
    OBVIOUS
  <2>3. \A i \in 1..n + 1 : m[i] = Append(f, m[n + 1])[i]
    BY <2>0, <2>1, <2>2
  <2> QED BY <1>2, <2>1, <2>3, SeqEqual
<1>4. m[n + 1] \in Seq(S)
  BY <1>1
<1> HIDE DEF f
<1>5. FlattenSeq(Append(f, m[n + 1])) = FlattenSeq(f) \o m[n + 1]
  BY <1>2, <1>4, FlattenAppend
<1> QED BY <1>3, <1>5 DEF f

\* An element more.
LEMMA AppendFacts ==
  ASSUME NEW S, NEW s \in Seq(S), NEW x \in S
  PROVE  /\ Len(s) \in Nat /\ DOMAIN s = 1..Len(s) /\ DOMAIN Append(s, x) = 1..Len(s) + 1
         /\ Append(s, x) \in Seq(S) /\ Len(Append(s, x)) = Len(s) + 1
         /\ \A i \in 1..Len(s) : Append(s, x)[i] = s[i] /\ s[i] \in S
         /\ Append(s, x)[Len(s) + 1] = x
OBVIOUS

\* One more element is mapped to one more.
LEMMA Maps ==
  ASSUME NEW A, NEW B, NEW g \in [A -> B]
  PROVE  /\ [i \in DOMAIN <<>> |-> g[<<>>[i]]] = <<>>
         /\ \A s \in Seq(A) : /\ [i \in DOMAIN s |-> g[s[i]]] \in Seq(B)
                            /\ Len([i \in DOMAIN s |-> g[s[i]]]) = Len(s)
         /\ \A s \in Seq(A) : \A x \in A :
              [i \in DOMAIN Append(s, x) |-> g[Append(s, x)[i]]]
                = Append([i \in DOMAIN s |-> g[s[i]]], g[x])
<1> DEFINE Map(s) == [i \in DOMAIN s |-> g[s[i]]]
<1>1. Map(<<>>) = <<>>
  OBVIOUS
<1>2. ASSUME NEW s \in Seq(A) PROVE Map(s) \in Seq(B) /\ Len(Map(s)) = Len(s)
  <2>1. Len(s) \in Nat /\ DOMAIN s = 1..Len(s) /\ \A i \in 1..Len(s) : s[i] \in A
    OBVIOUS
  <2>2. \A i \in 1..Len(s) : Map(s)[i] \in B
    BY <2>1
  <2>3. Map(s) = [i \in 1..Len(s) |-> Map(s)[i]]
    BY <2>1
  <2> HIDE DEF Map
  <2> QED BY <2>1, <2>2, <2>3, IsSequence
<1>3. ASSUME NEW s \in Seq(A), NEW x \in A PROVE Map(Append(s, x)) = Append(Map(s), g[x])
  <2>1. PICK n \in Nat : n = Len(s)
    OBVIOUS
  <2>2. PICK more \in Seq(A) : more = Append(s, x)
    BY AppendFacts
  <2>3. /\ DOMAIN more = 1..n + 1 /\ DOMAIN s = 1..n /\ Len(more) = n + 1
        /\ \A i \in 1..n : more[i] = s[i]
        /\ more[n + 1] = x
    BY <2>1, <2>2, AppendFacts
  <2>4. \A i \in 1..n : i \in 1..n + 1
    OBVIOUS
  <2>5. /\ \A i \in 1..n : Map(more)[i] = Map(s)[i]
        /\ Map(more)[n + 1] = g[x]
    BY <2>3, <2>4
  <2>6. /\ Map(more) \in Seq(B) /\ Len(Map(more)) = n + 1
        /\ Map(s) \in Seq(B) /\ Len(Map(s)) = n
    BY <1>2, <2>1, <2>3
  <2>7. PICK y \in B : y = g[x]
    OBVIOUS
  <2> HIDE DEF Map
  <2>8. /\ Append(Map(s), y) \in Seq(B) /\ Len(Append(Map(s), y)) = n + 1
        /\ \A i \in 1..n : Append(Map(s), y)[i] = Map(s)[i]
        /\ Append(Map(s), y)[n + 1] = y
    BY <2>6, <2>7, AppendFacts
  <2>9. \A i \in 1..n + 1 : Map(more)[i] = Append(Map(s), y)[i]
    <3>1. \A i \in 1..n + 1 : i \in 1..n \/ i = n + 1
      OBVIOUS
    <3> QED BY <2>5, <2>7, <2>8, <3>1
  <2>10. Map(more) = Append(Map(s), y)
    BY <2>6, <2>8, <2>9, SeqEqual
  <2> QED BY <2>2, <2>7, <2>10
<1> QED BY <1>1, <1>2, <1>3

\* The lines of a text put together.
LEMMA Joined ==
  /\ JoinLines(<<>>) = <<>>
  /\ \A ls \in Seq(Texts) : JoinLines(ls) \in Texts
  /\ \A ls \in Seq(Texts) : \A x \in Texts :
       JoinLines(Append(ls, x)) = IF ls = <<>> THEN x ELSE JoinLines(ls) \o (<<"LF">> \o x)
<1> DEFINE Ls(ls) == [i \in DOMAIN ls |-> (IF i = 1 THEN <<>> ELSE <<"LF">>) \o ls[i]]
<1>0. <<"LF">> \in Texts /\ <<>> \in Texts
  BY TokensUsed, OneIsText, TextsAre
<1>1. \A ls : JoinLines(ls) = FlattenSeq(Ls(ls))
  BY DEF JoinLines
<1>2. JoinLines(<<>>) = <<>>
  <2>1. Ls(<<>>) = <<>>
    OBVIOUS
  <2> HIDE DEF Ls
  <2> QED BY <1>1, <2>1, FlattenEmpty
<1>3. ASSUME NEW t \in Texts, NEW i PROVE (IF i = 1 THEN <<>> ELSE <<"LF">>) \o t \in Texts
  <2>1. <<>> \o t \in Texts /\ <<"LF">> \o t \in Texts
    BY <1>0, ConcatText
  <2> QED BY <2>1
<1>4. ASSUME NEW ls \in Seq(Texts) PROVE Ls(ls) \in Seq(Texts)
  <2>1. Len(ls) \in Nat /\ DOMAIN ls = 1..Len(ls) /\ \A i \in 1..Len(ls) : ls[i] \in Texts
    OBVIOUS
  <2>2. \A i \in 1..Len(ls) : Ls(ls)[i] \in Texts
    BY <1>3, <2>1
  <2>3. Ls(ls) = [i \in 1..Len(ls) |-> Ls(ls)[i]]
    BY <2>1
  <2> HIDE DEF Ls
  <2> QED BY <2>1, <2>2, <2>3, IsSequence
<1>5. ASSUME NEW ls \in Seq(Texts) PROVE JoinLines(ls) \in Texts
  <2> HIDE DEF Ls
  <2> QED BY <1>1, <1>4, FlattenType DEF Texts
<1>6. ASSUME NEW ls \in Seq(Texts), NEW x \in Texts
      PROVE  JoinLines(Append(ls, x)) = IF ls = <<>> THEN x ELSE JoinLines(ls) \o (<<"LF">> \o x)
  <2>1. PICK n \in Nat : n = Len(ls)
    OBVIOUS
  <2>2. PICK more \in Seq(Texts) :
          /\ more = Append(ls, x) /\ DOMAIN more = 1..n + 1 /\ DOMAIN ls = 1..n
          /\ \A i \in 1..n : more[i] = ls[i] /\ i # n + 1 /\ i \in 1..n + 1
          /\ more[n + 1] = x
    <3>1. \A i \in 1..n : i # n + 1 /\ i \in 1..n + 1
      OBVIOUS
    <3>2. PICK more \in Seq(Texts) : more = Append(ls, x)
      BY AppendFacts
    <3>3. /\ DOMAIN more = 1..n + 1 /\ DOMAIN ls = 1..n
          /\ \A i \in 1..n : more[i] = ls[i]
          /\ more[n + 1] = x
      BY <2>1, <3>2, AppendFacts
    <3> QED BY <3>1, <3>2, <3>3
  <2>3. Ls(more) = [i \in 1..n + 1 |-> Ls(more)[i]]
    BY <2>2
  <2>4. \A i \in 1..n + 1 : Ls(more)[i] \in Texts
    <3>1. \A i \in 1..n + 1 : more[i] \in Texts
      BY <2>2
    <3> QED BY <1>3, <2>2, <3>1
  <2>5. [i \in 1..n |-> Ls(more)[i]] = Ls(ls)
    BY <2>2
  <2>6. Ls(more)[n + 1] = (IF ls = <<>> THEN <<>> ELSE <<"LF">>) \o x
    <3>1. n + 1 \in 1..n + 1 /\ (n + 1 = 1 <=> n = 0)
      OBVIOUS
    <3>2. n = 0 <=> ls = <<>>
      BY <2>1, EmptySeq
    <3> QED BY <2>2, <3>1, <3>2
  <2>7. <<>> \o x = x
    BY <1>0, ConcatText
  <2>8. JoinLines(more) = JoinLines(ls) \o ((IF ls = <<>> THEN <<>> ELSE <<"LF">>) \o x)
    <3> HIDE DEF Ls
    <3>1. FlattenSeq(Ls(more)) = FlattenSeq([i \in 1..n |-> Ls(more)[i]]) \o Ls(more)[n + 1]
      BY <2>3, <2>4, FlattenLast DEF Texts
    <3> QED BY <1>1, <2>5, <2>6, <3>1
  <2>9. CASE ls = <<>>
    BY <1>0, <1>2, <2>2, <2>7, <2>8, <2>9
  <2>10. CASE ls # <<>>
    BY <2>2, <2>8, <2>10
  <2> QED BY <2>9, <2>10
<1> QED BY <1>2, <1>5, <1>6

\* Lines with their ends.
LEMMA EndedIs ==
  ASSUME NEW end \in Texts
  PROVE  /\ Ended(<<>>, end) = <<>>
         /\ \A ls \in Seq(Texts) : Ended(ls, end) \in Texts
         /\ \A ls \in Seq(Texts) : \A x \in Texts :
              Ended(Append(ls, x), end) = Ended(ls, end) \o (x \o end)
<1> DEFINE g == [l \in Texts |-> l \o end]
           Ls(ls) == [i \in DOMAIN ls |-> g[ls[i]]]
<1>1. \A l \in Texts : g[l] = l \o end
  OBVIOUS
<1>2. g \in [Texts -> Texts]
  BY ConcatText
<1>3. ASSUME NEW ls \in Seq(Texts) PROVE Ended(ls, end) = FlattenSeq(Ls(ls))
  <2>1. [i \in DOMAIN ls |-> ls[i] \o end] = Ls(ls)
    <3>1. \A i \in DOMAIN ls : ls[i] \in Texts
      OBVIOUS
    <3> QED BY <3>1
  <2> HIDE DEF Ls
  <2> QED BY <2>1 DEF Ended
<1> HIDE DEF g
<1>4. /\ Ls(<<>>) = <<>>
      /\ \A ls \in Seq(Texts) : Ls(ls) \in Seq(Texts)
      /\ \A ls \in Seq(Texts) : \A x \in Texts : Ls(Append(ls, x)) = Append(Ls(ls), g[x])
  BY <1>2, Maps
<1> HIDE DEF Ls
<1>5. Ended(<<>>, end) = <<>>
  <2>1. <<>> \in Seq(Texts)
    OBVIOUS
  <2> QED BY <1>3, <1>4, <2>1, FlattenEmpty
<1>6. ASSUME NEW ls \in Seq(Texts) PROVE Ended(ls, end) \in Texts
  BY <1>3, <1>4, FlattenType DEF Texts
<1>7. ASSUME NEW ls \in Seq(Texts), NEW x \in Texts
      PROVE  Ended(Append(ls, x), end) = Ended(ls, end) \o (x \o end)
  <2>1. Append(ls, x) \in Seq(Texts) /\ x \o end \in Texts
    BY AppendFacts, ConcatText
  <2>2. FlattenSeq(Append(Ls(ls), x \o end)) = FlattenSeq(Ls(ls)) \o (x \o end)
    BY <1>4, <2>1, FlattenAppend DEF Texts
  <2> QED BY <1>1, <1>3, <1>4, <2>1, <2>2
<1> QED BY <1>5, <1>6, <1>7

-----------------------------------------------------------------------------
(***************************************************************************)
(* What the server writes, and how it splits: a block for each item.       *)
(***************************************************************************)
\* A text without the end of a line goes to the last part.
LEMMA FeedPlain ==
  ASSUME NEW t \in Texts, NEW q \in Seq(Texts), NEW c \in Texts, Split(t) = Append(q, c)
  PROVE  \A l \in Plain : Split(t \o l) = Append(q, c \o l)
<1> DEFINE T == {l \in Plain : Split(t \o l) = Append(q, c \o l)}
<1>1. <<>> \in T
  <2>1. t \o <<>> = t /\ c \o <<>> = c
    BY TextsAre, ConcatText
  <2>2. <<>> \in Plain
    BY DEF Plain
  <2> QED BY <2>1, <2>2
<1>2. ASSUME NEW l \in T, NEW x \in Inner PROVE Append(l, x) \in T
  <2>1. l \in Plain /\ l \in Texts /\ x \in Tokens /\ Split(t \o l) = Append(q, c \o l)
    BY PlainIsText
  <2>2. /\ t \o l \in Texts /\ c \o l \in Texts
        /\ t \o Append(l, x) = Append(t \o l, x) /\ c \o Append(l, x) = Append(c \o l, x)
    BY <2>1, ConcatType, ConcatMore
  <2>3. Append(l, x) \in Plain
    BY <2>1, AppendFacts DEF Plain
  <2>4. x # "LF" /\ x # "CR"
    BY DEF Inner
  <2>5. Split(Append(t \o l, x)) = feed(Append(q, c \o l), x)
    BY <2>1, <2>2, Feed
  <2>6. feed(Append(q, c \o l), x) = Append(q, Append(c \o l, x))
    <3>1. PICK d \in Texts : d = c \o l
      BY <2>2
    <3>2. ready(d, x) = d /\ ~EndsPart(d, x)
      BY <2>4 DEF ready, EndsPart
    <3>3. feed(Append(q, d), x) = Append(q, Append(d, x))
      BY <2>1, <3>2, FeedIs
    <3> QED BY <3>1, <3>3
  <2> QED BY <2>2, <2>3, <2>5, <2>6
<1>3. T = Plain
  <2>1. T \in SUBSET Seq(Inner)
    BY DEF Plain
  <2> HIDE DEF T
  <2> QED BY <1>1, <1>2, <2>1, AppendInduction DEF Plain
<1>4. \A l \in T : Split(t \o l) = Append(q, c \o l)
  OBVIOUS
<1> HIDE DEF T
<1> QED BY <1>3, <1>4

\* The end of a line is one LF, and the end of a part after another one.
LEMMA FeedEnd ==
  ASSUME NEW t \in Texts, NEW q \in Seq(Texts), NEW c \in Texts, Split(t) = Append(q, c),
         Closed(c), NEW end \in Eols
  PROVE  /\ EndsPart(c, "LF") => Split(t \o end) = Append(Append(q, Front(c)), <<>>)
         /\ ~EndsPart(c, "LF") => Split(t \o end) = Append(q, Append(c, "LF"))
<1>0. "LF" \in Tokens /\ "CR" \in Tokens
  BY TokensUsed
<1>1. ASSUME NEW u \in Texts, NEW d \in Texts, Split(u) = Append(q, d), stripped(d) = c
      PROVE  /\ EndsPart(c, "LF") => Split(Append(u, "LF")) = Append(Append(q, Front(c)), <<>>)
             /\ ~EndsPart(c, "LF") => Split(Append(u, "LF")) = Append(q, Append(c, "LF"))
  <2>1. ready(d, "LF") = c
    BY <1>1 DEF ready
  <2>2. Split(Append(u, "LF")) = feed(Append(q, d), "LF")
    BY <1>0, <1>1, Feed
  <2> QED BY <1>0, <2>1, <2>2, FeedIs
<1>2. CASE end = <<"LF">>
  <2>1. stripped(c) = c
    BY DEF stripped, Closed
  <2>2. t \o end = Append(t, "LF")
    BY <1>0, <1>2, OneIsText
  <2> QED BY <1>1, <2>1, <2>2
<1>3. CASE end = <<"CR", "LF">>
  <2>1. PICK u \in Texts : u = Append(t, "CR")
    BY <1>0, TextsAre
  <2>2. t \o end = Append(u, "LF")
    <3>1. end = Append(<<"CR">>, "LF") /\ <<"CR">> \in Texts /\ t \o <<"CR">> = Append(t, "CR")
      BY <1>0, <1>3, OneIsText
    <3>2. t \o Append(<<"CR">>, "LF") = Append(t \o <<"CR">>, "LF")
      BY <1>0, <3>1, ConcatMore
    <3> QED BY <2>1, <3>1, <3>2
  <2>3. PICK d \in Texts : d = Append(c, "CR") /\ d # <<>> /\ Last(d) = "CR" /\ Front(d) = c
    <3>1. /\ Append(c, "CR") \in Texts /\ Append(c, "CR") # <<>>
          /\ Last(Append(c, "CR")) = "CR" /\ Front(Append(c, "CR")) = c
      BY <1>0, TextsAre
    <3> QED BY <3>1
  <2>4. Split(u) = Append(q, d)
    <3>1. ready(c, "CR") = c /\ ~EndsPart(c, "CR")
      BY DEF ready, EndsPart
    <3>2. feed(Append(q, c), "CR") = Append(q, Append(c, "CR"))
      BY <1>0, <3>1, FeedIs
    <3>3. Split(u) = feed(Append(q, c), "CR")
      BY <1>0, <2>1, Feed
    <3> QED BY <2>3, <3>2, <3>3
  <2>5. stripped(d) = c
    BY <2>3 DEF stripped
  <2> QED BY <1>1, <2>2, <2>4, <2>5
<1> QED BY <1>2, <1>3 DEF Eols

LineHeads == FieldNames \cup {":"}

\* The lines of the server are not empty: they begin with a field name or a colon.
ServerLines == {l \in Plain : l # <<>> /\ \E h \in LineHeads, r \in Inlines : l = <<h>> \o r}

\* Where a line ends a text ends.
LEMMA LastOfLine ==
  ASSUME NEW c \in Texts, NEW l \in ServerLines
  PROVE  c \o l \in Texts /\ Closed(c \o l) /\ ~EndsPart(c \o l, "LF")
<1>1. PICK k \in Plain, x \in Inner : l = Append(k, x)
  <2>1. l \in Seq(Inner) /\ l # <<>>
    BY DEF ServerLines, Plain
  <2> QED BY <2>1, FrontLast DEF Plain
<1>2. k \in Texts /\ x \in Tokens
  BY PlainIsText
<1>3. c \o l = Append(c \o k, x) /\ c \o k \in Texts
  BY <1>1, <1>2, ConcatType, ConcatMore
<1>4. c \o l \in Texts /\ Last(c \o l) = x /\ x # "CR" /\ x # "LF"
  BY <1>2, <1>3, TextsAre DEF Inner
<1> QED BY <1>4 DEF Closed, EndsPart

\* A line and its end.
LEMMA FeedLine ==
  ASSUME NEW t \in Texts, NEW q \in Seq(Texts), NEW c \in Texts, Split(t) = Append(q, c),
         NEW l \in ServerLines, NEW end \in Eols
  PROVE  Split(t \o (l \o end)) = Append(q, Append(c \o l, "LF"))
<1>1. l \in Plain /\ l \in Texts /\ end \in Texts
  BY PlainIsText, PlainIsWhole DEF ServerLines, Whole
<1>2. Split(t \o l) = Append(q, c \o l) /\ t \o l \in Texts
  <2>1. Split(t \o l) = Append(q, c \o l)
    BY <1>1, FeedPlain
  <2> QED BY <1>1, <2>1, ConcatType
<1>3. c \o l \in Texts /\ Closed(c \o l) /\ ~EndsPart(c \o l, "LF")
  BY LastOfLine
<1>4. Split((t \o l) \o end) = Append(q, Append(c \o l, "LF"))
  BY <1>2, <1>3, FeedEnd
<1>5. (t \o l) \o end = t \o (l \o end)
  BY <1>1, ConcatThree
<1> QED BY <1>4, <1>5

\* Some lines and their ends.
LEMMA FeedLines ==
  ASSUME NEW t \in Texts, NEW q \in Seq(Texts), Split(t) = Append(q, <<>>), NEW end \in Eols
  PROVE  \A ls \in Seq(ServerLines) :
           ls # <<>> => Split(t \o Ended(ls, end)) = Append(q, Append(JoinLines(ls), "LF"))
<1> DEFINE Good(ls) == Split(t \o Ended(ls, end))
                         = Append(q, IF ls = <<>> THEN <<>> ELSE Append(JoinLines(ls), "LF"))
           T == {ls \in Seq(ServerLines) : Good(ls)}
<1>0. end \in Texts /\ ServerLines \subseteq Texts /\ "LF" \in Tokens /\ <<"LF">> \in Texts
  BY PlainIsText, PlainIsWhole, TokensUsed, OneIsText DEF ServerLines, Whole
<1>00. Seq(ServerLines) \subseteq Seq(Texts)
  BY <1>0, SeqMonotonic
<1>1. <<>> \in T
  <2>1. t \o Ended(<<>>, end) = t
    BY <1>0, EndedIs, ConcatNone
  <2>2. <<>> \in Seq(ServerLines)
    OBVIOUS
  <2> QED BY <2>1, <2>2
<1>2. ASSUME NEW ls \in T, NEW x \in ServerLines PROVE Append(ls, x) \in T
  <2>1. ls \in Seq(ServerLines) /\ ls \in Seq(Texts) /\ x \in Texts /\ Good(ls)
    BY <1>0, <1>00
  <2>2. Append(ls, x) \in Seq(ServerLines) /\ Append(ls, x) # <<>>
    BY <2>1, FrontLast
  <2>3. PICK e \in Texts, j \in Texts : e = Ended(ls, end) /\ j = JoinLines(ls)
    BY <1>0, <2>1, EndedIs, Joined
  <2>4. Ended(Append(ls, x), end) = e \o (x \o end)
    BY <1>0, <2>1, <2>3, EndedIs
  <2>5. x \o end \in Texts /\ t \o e \in Texts
    BY <1>0, <2>1, <2>3, ConcatType
  <2>6. t \o Ended(Append(ls, x), end) = (t \o e) \o (x \o end)
    <3>1. (t \o e) \o (x \o end) = t \o (e \o (x \o end))
      BY <2>5, ConcatThree
    <3> QED BY <2>4, <3>1
  <2>7. PICK c \in Texts : c = (IF ls = <<>> THEN <<>> ELSE Append(j, "LF"))
    BY <1>0, <2>3, TextsAre
  <2>8. Split(t \o e) = Append(q, c)
    BY <2>1, <2>3, <2>7
  <2>9. Split((t \o e) \o (x \o end)) = Append(q, Append(c \o x, "LF"))
    <3> HIDE DEF T
    <3>1. PICK u \in Texts : u = t \o e
      BY <2>5
    <3>2. Split(u) = Append(q, c)
      BY <2>8, <3>1
    <3>3. Split(u \o (x \o end)) = Append(q, Append(c \o x, "LF"))
      <4>1. u \in Texts /\ q \in Seq(Texts) /\ c \in Texts /\ x \in ServerLines /\ end \in Eols
        OBVIOUS
      <4> QED BY <3>2, <4>1, FeedLine, SMTT(30)
    <3> QED BY <3>1, <3>3
  <2>10. JoinLines(Append(ls, x)) = c \o x
    <3>1. CASE ls = <<>>
      <4>1. JoinLines(Append(ls, x)) = x
        BY <2>1, <3>1, Joined
      <4>2. <<>> \o x = x
        BY <2>1, ConcatNone
      <4> QED BY <2>7, <3>1, <4>1, <4>2
    <3>2. CASE ls # <<>>
      <4>1. JoinLines(Append(ls, x)) = j \o (<<"LF">> \o x)
        BY <2>1, <2>3, <3>2, Joined
      <4>2. (j \o <<"LF">>) \o x = j \o (<<"LF">> \o x)
        BY <1>0, <2>1, <2>3, ConcatThree
      <4>3. j \o <<"LF">> = c
        BY <1>0, <2>3, <2>7, <3>2, OneIsText
      <4> QED BY <4>1, <4>2, <4>3
    <3> QED BY <3>1, <3>2
  <2> QED BY <2>2, <2>6, <2>9, <2>10
<1>3. T = Seq(ServerLines)
  <2>1. T \in SUBSET Seq(ServerLines)
    OBVIOUS
  <2> HIDE DEF T
  <2> QED BY <1>1, <1>2, <2>1, AppendInduction
<1>4. \A ls \in T : ls # <<>> => Split(t \o Ended(ls, end)) = Append(q, Append(JoinLines(ls), "LF"))
  OBVIOUS
<1> HIDE DEF T
<1> QED BY <1>3, <1>4

\* A field name or a colon begins a line of the server.
LEMMA HeadedLine ==
  ASSUME NEW h \in LineHeads, NEW r \in Inlines
  PROVE  <<h>> \in Texts /\ r \in Plain /\ r \in Texts /\ <<h>> \o r \in ServerLines
<1>1. h \in Inner /\ h \in Tokens /\ <<h>> \in Plain
  <2>1. h \in Inner
    BY TokensUsed DEF LineHeads, FieldNames, Inner
  <2> QED BY <2>1, PlainIsText, OneElement DEF Plain
<1>2. r \in Plain
  <2>1. (Tokens \ ({"LF", "CR"} \cup FieldNames)) \subseteq Inner
    BY DEF Inner
  <2> QED BY <2>1, SeqMonotonic DEF Inlines, Plain
<1>3. <<h>> \o r \in Plain /\ Len(<<h>> \o r) = 1 + Len(r) /\ Len(r) \in Nat
  BY <1>1, <1>2 DEF Plain
<1>4. <<h>> \o r # <<>>
  BY <1>3
<1> QED BY <1>1, <1>2, <1>3, <1>4, PlainIsText DEF ServerLines

\* The lines of data of an event.
DataLines(lines) == [i \in DOMAIN lines |-> <<"data:">> \o lines[i]]

\* One more.
LEMMA DataLinesAre ==
  /\ DataLines(<<>>) = <<>>
  /\ \A ls \in Seq(Inlines) : DataLines(ls) \in Seq(ServerLines) /\ Len(DataLines(ls)) = Len(ls)
  /\ \A ls \in Seq(Inlines) : \A l \in Inlines :
       DataLines(Append(ls, l)) = Append(DataLines(ls), <<"data:">> \o l)
<1> DEFINE g == [l \in Inlines |-> <<"data:">> \o l]
           Ls(ls) == [i \in DOMAIN ls |-> g[ls[i]]]
<1>1. \A l \in Inlines : g[l] = <<"data:">> \o l
  OBVIOUS
<1>2. g \in [Inlines -> ServerLines]
  <2>1. "data:" \in LineHeads
    BY DEF LineHeads, FieldNames
  <2> QED BY <2>1, HeadedLine
<1>3. ASSUME NEW ls \in Seq(Inlines) PROVE DataLines(ls) = Ls(ls)
  <2>1. \A i \in DOMAIN ls : ls[i] \in Inlines
    OBVIOUS
  <2> QED BY <2>1 DEF DataLines
<1> HIDE DEF g
<1>4. /\ Ls(<<>>) = <<>>
      /\ \A ls \in Seq(Inlines) : Ls(ls) \in Seq(ServerLines) /\ Len(Ls(ls)) = Len(ls)
      /\ \A ls \in Seq(Inlines) : \A x \in Inlines : Ls(Append(ls, x)) = Append(Ls(ls), g[x])
  BY <1>2, Maps
<1> HIDE DEF Ls
<1>5. \A ls \in Seq(Inlines) : \A x \in Inlines : Append(ls, x) \in Seq(Inlines)
  BY AppendFacts
<1>6. <<>> \in Seq(Inlines)
  OBVIOUS
<1> QED BY <1>1, <1>3, <1>4, <1>5, <1>6

\* The name of an event, a line if there is one.
NameLines(name) == IF name = <<>> THEN <<>> ELSE << <<"event:">> \o name >>

\* An item has lines.
LEMMA ItemLinesAre ==
  ASSUME NEW item \in Items
  PROVE  /\ ItemLines(item) \in Seq(ServerLines) /\ ItemLines(item) # <<>>
         /\ item.comment => ItemLines(item) = << <<":">> \o <<"word">> >>
         /\ ~item.comment => /\ item.name \in Inlines /\ item.lines \in Seq(Inlines)
                             /\ NameLines(item.name) \in Seq(ServerLines)
                             /\ ItemLines(item) = NameLines(item.name) \o DataLines(item.lines)
<1>1. CASE item.comment
  <2>1. ItemLines(item) = << <<":">> \o <<"word">> >>
    <3>1. <<":", "word">> = <<":">> \o <<"word">>
      OBVIOUS
    <3> QED BY <1>1, <3>1 DEF ItemLines
  <2>2. <<":">> \o <<"word">> \in ServerLines
    <3>1. "word" \in Tokens \ ({"LF", "CR"} \cup FieldNames)
      BY TokensUsed DEF FieldNames
    <3>2. <<"word">> \in Inlines
      BY <3>1, OneElement DEF Inlines
    <3>3. ":" \in LineHeads
      BY DEF LineHeads
    <3> QED BY <3>2, <3>3, HeadedLine
  <2>3. ItemLines(item) \in Seq(ServerLines) /\ ItemLines(item) # <<>>
    BY <2>1, <2>2, OneElement
  <2> QED BY <1>1, <2>1, <2>3
<1>2. CASE ~item.comment
  <2>1. item.name \in Inlines /\ item.lines \in Seq(Inlines)
          /\ (item.name # <<>> \/ item.lines # <<>>)
    BY <1>2, ItemsAssumption
  <2>2. ItemLines(item) = NameLines(item.name) \o DataLines(item.lines)
    BY <1>2 DEF ItemLines, NameLines, DataLines
  <2>3. NameLines(item.name) \in Seq(ServerLines)
    <3>1. "event:" \in LineHeads
      BY DEF LineHeads, FieldNames
    <3>2. <<"event:">> \o item.name \in ServerLines
      BY <2>1, <3>1, HeadedLine
    <3> QED BY <3>2 DEF NameLines
  <2>4. DataLines(item.lines) \in Seq(ServerLines) /\ Len(DataLines(item.lines)) = Len(item.lines)
    BY <2>1, DataLinesAre
  <2>5. ItemLines(item) # <<>>
    <3>1. item.name # <<>> => NameLines(item.name) # <<>>
      BY DEF NameLines
    <3>2. item.lines # <<>> => DataLines(item.lines) # <<>>
      BY <2>1, <2>4
    <3> QED BY <2>1, <2>2, <2>3, <2>4, <3>1, <3>2
  <2>6. ItemLines(item) \in Seq(ServerLines)
    BY <2>2, <2>3, <2>4, ConcatProperties
  <2> QED BY <1>2, <2>1, <2>2, <2>3, <2>5, <2>6
<1>3. item.comment \in BOOLEAN
  BY ItemsAssumption
<1> QED BY <1>1, <1>2, <1>3

\* The block of an item.
BlockOf(item) == JoinLines(ItemLines(item))

\* The end of a line is a text.
LEMMA EolsAre == \A end \in Eols : end \in Texts /\ end \in Whole
BY PlainIsWhole DEF Whole

\* The lines of the server are texts.
LEMMA ServerLinesAre ==
  /\ ServerLines \subseteq Texts /\ ServerLines \subseteq Whole
  /\ Seq(ServerLines) \subseteq Seq(Texts)
<1>1. ServerLines \subseteq Texts /\ ServerLines \subseteq Whole
  BY PlainIsText, PlainIsWhole DEF ServerLines
<1> QED BY <1>1, SeqMonotonic

\* Its lines with their ends are whole.
LEMMA EndedWhole ==
  ASSUME NEW end \in Eols
  PROVE  \A ls \in Seq(ServerLines) : Ended(ls, end) \in Whole
<1> DEFINE T == {ls \in Seq(ServerLines) : Ended(ls, end) \in Whole}
<1>0. end \in Texts /\ end \in Whole
  BY EolsAre
<1>1. <<>> \in T
  <2>1. <<>> \in Seq(ServerLines)
    OBVIOUS
  <2> QED BY <1>0, <2>1, EndedIs, WholeConcat
<1>2. ASSUME NEW ls \in T, NEW x \in ServerLines PROVE Append(ls, x) \in T
  <2>1. ls \in Seq(ServerLines) /\ ls \in Seq(Texts) /\ x \in Texts /\ x \in Whole
    BY ServerLinesAre
  <2>2. Append(ls, x) \in Seq(ServerLines)
    BY <2>1, AppendFacts
  <2>3. Ended(Append(ls, x), end) = Ended(ls, end) \o (x \o end)
    BY <1>0, <2>1, EndedIs
  <2>4. x \o end \in Whole
    BY <1>0, <2>1, WholeConcat
  <2> QED BY <2>2, <2>3, <2>4, WholeConcat
<1>3. T = Seq(ServerLines)
  <2>1. T \in SUBSET Seq(ServerLines)
    OBVIOUS
  <2> HIDE DEF T
  <2> QED BY <1>1, <1>2, <2>1, AppendInduction
<1>4. \A ls \in T : Ended(ls, end) \in Whole
  OBVIOUS
<1> HIDE DEF T
<1> QED BY <1>3, <1>4

\* An item adds its block.
LEMMA FeedItem ==
  ASSUME NEW item \in Items, NEW end \in Eols
  PROVE  /\ ItemBytes(item, end) \in Whole
         /\ BlockOf(item) \in Texts
         /\ ItemBytes(item, end) # <<>>
         /\ \A t \in Texts, q \in Seq(Texts) :
              Split(t) = Append(q, <<>>) =>
                Split(t \o ItemBytes(item, end)) = Append(Append(q, BlockOf(item)), <<>>)
<1>1. PICK ls \in Seq(ServerLines) : ls = ItemLines(item) /\ ls # <<>>
  BY ItemLinesAre
<1>2. PICK e \in Texts : e = Ended(ls, end) /\ e \in Whole
  BY EndedWhole DEF Whole
<1>3. end \in Texts /\ end \in Whole /\ ItemBytes(item, end) = e \o end
  BY <1>1, <1>2, EolsAre DEF ItemBytes
<1>4. PICK b \in Texts : b = BlockOf(item) /\ b = JoinLines(ls)
  BY <1>1, ServerLinesAre, Joined DEF BlockOf
<1>5. ItemBytes(item, end) # <<>>
  <2>1. Len(e \o end) = Len(e) + Len(end) /\ Len(e) \in Nat
    BY <1>3, ConcatText
  <2>2. Len(end) \in {1, 2}
    BY DEF Eols
  <2>3. Len(e \o end) # 0
    <3>1. \A m \in Nat : \A n \in {1, 2} : m + n # 0
      OBVIOUS
    <3> QED BY <2>1, <2>2, <3>1
  <2> QED BY <1>3, <2>3
<1>6. ASSUME NEW t \in Texts, NEW q \in Seq(Texts), Split(t) = Append(q, <<>>)
      PROVE  Split(t \o (e \o end)) = Append(Append(q, b), <<>>)
  <2>1. PICK u \in Texts : u = t \o e
    BY ConcatType
  <2>2. PICK c \in Texts : c = Append(b, "LF") /\ c # <<>> /\ Last(c) = "LF" /\ Front(c) = b
    <3>1. "LF" \in Tokens
      BY TokensUsed
    <3>2. /\ Append(b, "LF") \in Texts /\ Append(b, "LF") # <<>>
          /\ Last(Append(b, "LF")) = "LF" /\ Front(Append(b, "LF")) = b
      BY <3>1, TextsAre
    <3> QED BY <3>2
  <2>3. Split(u) = Append(q, c)
    <3>1. Split(t \o Ended(ls, end)) = Append(q, Append(JoinLines(ls), "LF"))
      BY <1>1, <1>6, FeedLines
    <3> QED BY <1>2, <1>4, <2>1, <2>2, <3>1
  <2>4. EndsPart(c, "LF") /\ Closed(c)
    BY <2>2 DEF EndsPart, Closed
  <2>5. Split(u \o end) = Append(Append(q, b), <<>>)
    <3>1. Split(u \o end) = Append(Append(q, Front(c)), <<>>)
      BY <2>3, <2>4, FeedEnd
    <3> QED BY <2>2, <3>1
  <2>6. (t \o e) \o end = t \o (e \o end)
    BY <1>3, ConcatThree
  <2> QED BY <2>1, <2>5, <2>6
<1>7. e \o end \in Whole
  BY <1>2, <1>3, WholeConcat
<1> QED BY <1>3, <1>4, <1>5, <1>6, <1>7

\* The blocks of some items.
BlocksOf(items) == [i \in DOMAIN items |-> BlockOf(items[i])]

\* One more item.
LEMMA BlocksAre ==
  /\ BlocksOf(<<>>) = <<>>
  /\ \A s \in Seq(Items) : BlocksOf(s) \in Seq(Texts) /\ Len(BlocksOf(s)) = Len(s)
  /\ \A s \in Seq(Items) : \A x \in Items : BlocksOf(Append(s, x)) = Append(BlocksOf(s), BlockOf(x))
<1> DEFINE g == [item \in Items |-> BlockOf(item)]
           Map(s) == [i \in DOMAIN s |-> g[s[i]]]
<1>1. \A item \in Items : g[item] = BlockOf(item)
  OBVIOUS
<1>2. g \in [Items -> Texts]
  <2>1. <<"LF">> \in Eols
    BY DEF Eols
  <2> QED BY <2>1, FeedItem
<1>3. ASSUME NEW s \in Seq(Items) PROVE BlocksOf(s) = Map(s)
  <2>1. \A i \in DOMAIN s : s[i] \in Items
    OBVIOUS
  <2> QED BY <2>1 DEF BlocksOf
<1> HIDE DEF g
<1>4. /\ Map(<<>>) = <<>>
      /\ \A s \in Seq(Items) : Map(s) \in Seq(Texts) /\ Len(Map(s)) = Len(s)
      /\ \A s \in Seq(Items) : \A x \in Items : Map(Append(s, x)) = Append(Map(s), g[x])
  BY <1>2, Maps
<1> HIDE DEF Map
<1>5. \A s \in Seq(Items) : \A x \in Items : Append(s, x) \in Seq(Items)
  BY AppendFacts
<1>6. <<>> \in Seq(Items)
  OBVIOUS
<1> QED BY <1>1, <1>3, <1>4, <1>5, <1>6

\* The bytes of one more item come after the others'.
LEMMA StreamBytesAre ==
  ASSUME NEW end \in Eols
  PROVE  /\ StreamBytes(<<>>, end) = <<>>
         /\ \A s \in Seq(Items) : StreamBytes(s, end) \in Texts
         /\ \A s \in Seq(Items) : \A x \in Items :
              StreamBytes(Append(s, x), end) = StreamBytes(s, end) \o ItemBytes(x, end)
<1> DEFINE g == [item \in Items |-> ItemBytes(item, end)]
           Map(s) == [i \in DOMAIN s |-> g[s[i]]]
<1>1. \A item \in Items : g[item] = ItemBytes(item, end)
  OBVIOUS
<1>2. g \in [Items -> Texts]
  BY FeedItem DEF Whole
<1>3. ASSUME NEW s \in Seq(Items) PROVE StreamBytes(s, end) = FlattenSeq(Map(s))
  <2>1. \A i \in DOMAIN s : s[i] \in Items
    OBVIOUS
  <2>2. [i \in DOMAIN s |-> ItemBytes(s[i], end)] = Map(s)
    BY <2>1
  <2> HIDE DEF Map
  <2> QED BY <2>2 DEF StreamBytes
<1> HIDE DEF g
<1>4. /\ Map(<<>>) = <<>>
      /\ \A s \in Seq(Items) : Map(s) \in Seq(Texts) /\ Len(Map(s)) = Len(s)
      /\ \A s \in Seq(Items) : \A x \in Items : Map(Append(s, x)) = Append(Map(s), g[x])
  BY <1>2, Maps
<1> HIDE DEF Map
<1>5. StreamBytes(<<>>, end) = <<>>
  <2>1. <<>> \in Seq(Items)
    OBVIOUS
  <2> QED BY <1>3, <1>4, <2>1, FlattenEmpty
<1>6. ASSUME NEW s \in Seq(Items) PROVE StreamBytes(s, end) \in Texts
  BY <1>3, <1>4, FlattenType DEF Texts
<1>7. ASSUME NEW s \in Seq(Items), NEW x \in Items
      PROVE  StreamBytes(Append(s, x), end) = StreamBytes(s, end) \o ItemBytes(x, end)
  <2>1. Append(s, x) \in Seq(Items)
    BY AppendFacts
  <2>2. g[x] \in Texts
    BY <1>2
  <2>3. FlattenSeq(Append(Map(s), g[x])) = FlattenSeq(Map(s)) \o g[x]
    BY <1>4, <2>2, FlattenAppend DEF Texts
  <2> QED BY <1>1, <1>3, <1>4, <2>1, <2>3
<1> QED BY <1>5, <1>6, <1>7

\* A stream splits into the blocks of its items.
LEMMA StreamSplits ==
  ASSUME NEW end \in Eols
  PROVE  \A s \in Seq(Items) : /\ StreamBytes(s, end) \in Whole
                              /\ Split(StreamBytes(s, end)) = Append(BlocksOf(s), <<>>)
<1> DEFINE Good(s) == /\ StreamBytes(s, end) \in Whole
                      /\ Split(StreamBytes(s, end)) = Append(BlocksOf(s), <<>>)
           T == {s \in Seq(Items) : Good(s)}
<1>1. <<>> \in T
  <2>1. StreamBytes(<<>>, end) = <<>> /\ BlocksOf(<<>>) = <<>>
    BY StreamBytesAre, BlocksAre
  <2>2. << <<>> >> = Append(<<>>, <<>>)
    OBVIOUS
  <2>3. <<>> \in Seq(Items)
    OBVIOUS
  <2>4. Good(<<>>)
    BY <2>1, <2>2, Feed, WholeConcat
  <2> QED BY <2>3, <2>4
<1>2. ASSUME NEW s \in T, NEW x \in Items PROVE Append(s, x) \in T
  <2>1. s \in Seq(Items) /\ Good(s)
    OBVIOUS
  <2>2. Append(s, x) \in Seq(Items)
    BY <2>1, AppendFacts
  <2>3. PICK t \in Texts, q \in Seq(Texts) : t = StreamBytes(s, end) /\ q = BlocksOf(s)
    BY <2>1, StreamBytesAre, BlocksAre
  <2>4. Split(t) = Append(q, <<>>) /\ t \in Whole
    BY <2>1, <2>3
  <2>5. StreamBytes(Append(s, x), end) = t \o ItemBytes(x, end)
    BY <2>1, <2>3, StreamBytesAre
  <2>6. BlocksOf(Append(s, x)) = Append(q, BlockOf(x))
    BY <2>1, <2>3, BlocksAre
  <2>7. Split(t \o ItemBytes(x, end)) = Append(Append(q, BlockOf(x)), <<>>)
    BY <2>4, FeedItem
  <2>8. t \o ItemBytes(x, end) \in Whole
    BY <2>4, FeedItem, WholeConcat
  <2>9. Good(Append(s, x))
    BY <2>5, <2>6, <2>7, <2>8
  <2> QED BY <2>2, <2>9
<1>3. T = Seq(Items)
  <2>1. T \in SUBSET Seq(Items)
    OBVIOUS
  <2> HIDE DEF T
  <2> QED BY <1>1, <1>2, <2>1, AppendInduction
<1>4. \A s \in T : Good(s)
  OBVIOUS
<1> HIDE DEF T
<1> QED BY <1>3, <1>4

-----------------------------------------------------------------------------
(***************************************************************************)
(* How much of it has arrived: the blocks of the first items, and a tail.  *)
(***************************************************************************)
\* A text cut somewhere.
LEMMA CutAt ==
  ASSUME NEW t \in Texts, NEW a \in 0..Len(t)
  PROVE  /\ SubSeq(t, 1, a) \in Texts /\ Len(SubSeq(t, 1, a)) = a
         /\ \E v \in Texts : t = SubSeq(t, 1, a) \o v /\ Len(v) = Len(t) - a
<1>1. t \in Seq(Tokens) /\ Len(t) \in Nat /\ a \in Nat /\ a <= Len(t)
  BY LenProperties DEF Texts
<1> DEFINE s == SubSeq(t, 1, a)
           v == SubSeq(t, a + 1, Len(t))
<1>2. s \in Texts /\ Len(s) = a /\ \A i \in 1..a : s[i] = t[i]
  BY <1>1 DEF Texts
<1>3. v \in Texts /\ Len(v) = Len(t) - a /\ \A i \in 1..Len(t) - a : v[i] = t[a + i]
  BY <1>1 DEF Texts
<1> HIDE DEF s, v
<1>4. /\ s \o v \in Texts /\ Len(s \o v) = Len(t)
      /\ \A i \in 1..a : (s \o v)[i] = s[i]
      /\ \A i \in 1..Len(t) - a : (s \o v)[a + i] = v[i]
  <2>1. /\ s \o v \in Texts /\ Len(s \o v) = Len(s) + Len(v)
        /\ \A i \in 1..Len(s) : (s \o v)[i] = s[i]
        /\ \A i \in 1..Len(v) : (s \o v)[Len(s) + i] = v[i]
    BY <1>2, <1>3, ConcatText
  <2> QED BY <1>1, <1>2, <1>3, <2>1
<1>5. \A i \in 1..Len(t) : (s \o v)[i] = t[i]
  <2> TAKE i \in 1..Len(t)
  <2>1. CASE i <= a
    BY <1>1, <1>2, <1>4, <2>1
  <2>2. CASE ~(i <= a)
    <3>1. PICK k \in 1..Len(t) - a : i = a + k
      <4>1. i - a \in 1..Len(t) - a /\ i = a + (i - a)
        BY <1>1, <2>2
      <4> QED BY <4>1
    <3> QED BY <1>3, <1>4, <3>1
  <2> QED BY <2>1, <2>2
<1>6. t = s \o v
  BY <1>1, <1>4, <1>5, SeqEqual DEF Texts
<1> QED BY <1>2, <1>3, <1>6 DEF s

\* What comes after does not matter.
LEMMA CutBefore ==
  ASSUME NEW t \in Texts, NEW u \in Texts, NEW a \in 0..Len(t)
  PROVE  SubSeq(t \o u, 1, a) = SubSeq(t, 1, a) /\ a \in 0..Len(t \o u)
<1>1. /\ t \o u \in Texts /\ Len(t) \in Nat /\ Len(u) \in Nat /\ Len(t \o u) = Len(t) + Len(u)
      /\ \A i \in 1..Len(t) : (t \o u)[i] = t[i]
  BY ConcatText
<1>2. a \in 0..Len(t \o u)
  BY <1>1
<1>3. \A i \in 1..a : i \in 1..Len(t)
  BY <1>1
<1>4. ASSUME NEW s \in Texts, a <= Len(s)
      PROVE  /\ SubSeq(s, 1, a) \in Texts /\ Len(SubSeq(s, 1, a)) = a
             /\ \A i \in 1..a : SubSeq(s, 1, a)[i] = s[i]
  BY <1>4 DEF Texts
<1>5. a <= Len(t) /\ a <= Len(t \o u)
  BY <1>1, <1>2
<1>6. \A i \in 1..a : SubSeq(t \o u, 1, a)[i] = SubSeq(t, 1, a)[i]
  BY <1>1, <1>3, <1>4, <1>5
<1>7. SubSeq(t \o u, 1, a) = SubSeq(t, 1, a)
  BY <1>1, <1>4, <1>5, <1>6, SeqEqual DEF Texts
<1> QED BY <1>2, <1>7

\* The whole of it.
LEMMA CutWhole ==
  ASSUME NEW t \in Texts
  PROVE  SubSeq(t, 1, Len(t)) = t /\ Len(t) \in 0..Len(t)
BY DEF Texts

\* Blocks are added, never taken back.
LEMMA Grow ==
  ASSUME NEW t \in Texts
  PROVE  \A y \in Texts : \E r \in Seq(Texts) : Front(Split(t \o y)) = Front(Split(t)) \o r
<1> DEFINE T == {y \in Texts : \E r \in Seq(Texts) : Front(Split(t \o y)) = Front(Split(t)) \o r}
<1>0. PICK b \in Seq(Texts), d \in Texts : Split(t) = Append(b, d) /\ Front(Split(t)) = b
  BY Feed, PartingsAre
<1>1. <<>> \in T
  <2>1. t \o <<>> = t /\ b \o <<>> = b /\ <<>> \in Seq(Texts)
    BY ConcatNone, ConcatEmptySeq
  <2> QED BY <1>0, <2>1, TextsAre
<1>2. ASSUME NEW y \in T, NEW x \in Tokens PROVE Append(y, x) \in T
  <2>1. y \in Texts /\ Append(y, x) \in Texts
    BY TextsAre
  <2>2. PICK r \in Seq(Texts) : Front(Split(t \o y)) = b \o r
    BY <1>0
  <2>3. PICK u \in Texts : u = t \o y
    BY <2>1, ConcatType
  <2>4. PICK q \in Seq(Texts), c \in Texts : Split(u) = Append(q, c) /\ Front(Split(u)) = q
    BY Feed, PartingsAre
  <2>5. Split(t \o Append(y, x)) = feed(Append(q, c), x)
    <3>1. t \o Append(y, x) = Append(u, x)
      BY <2>1, <2>3, ConcatMore
    <3> QED BY <2>4, <3>1, Feed
  <2>6. PICK e \in Texts : e = ready(c, x)
    BY FeedIs
  <2>7. CASE EndsPart(e, x)
    <3>1. PICK f \in Texts : f = Front(e)
      BY <2>6, <2>7, FeedIs
    <3>2. Split(t \o Append(y, x)) = Append(Append(q, f), <<>>)
      BY <2>5, <2>6, <2>7, <3>1, FeedIs
    <3>3. Append(q, f) \in Seq(Texts) /\ Append(r, f) \in Seq(Texts)
      BY AppendFacts
    <3>4. Front(Split(t \o Append(y, x))) = Append(q, f)
      <4>1. <<>> \in Texts
        BY TextsAre
      <4> QED BY <3>2, <3>3, <4>1, AppendPart
    <3>5. b \o Append(r, f) = Append(b \o r, f)
      BY ConcatPart
    <3> QED BY <1>0, <2>1, <2>2, <2>3, <2>4, <3>3, <3>4, <3>5
  <2>8. CASE ~EndsPart(e, x)
    <3>1. PICK f \in Texts : f = Append(e, x)
      BY TextsAre
    <3>2. Split(t \o Append(y, x)) = Append(q, f)
      BY <2>5, <2>6, <2>8, <3>1, FeedIs
    <3>3. Front(Split(t \o Append(y, x))) = q
      BY <3>2, AppendPart
    <3> QED BY <1>0, <2>1, <2>2, <2>3, <2>4, <3>3
  <2> QED BY <2>7, <2>8
<1>3. T = Texts
  <2>1. T \in SUBSET Seq(Tokens)
    BY DEF Texts
  <2> HIDE DEF T
  <2> QED BY <1>1, <1>2, <2>1, AppendInduction DEF Texts
<1>4. \A y \in T : \E r \in Seq(Texts) : Front(Split(t \o y)) = Front(Split(t)) \o r
  OBVIOUS
<1> HIDE DEF T
<1> QED BY <1>3, <1>4

\* A text is split into some parts and a last one.
SplitsTo(t, q, c) == Split(t) = Append(q, c)

\* An item that has not arrived to its end has no block yet.
LEMMA NoBlockYet ==
  ASSUME NEW t \in Texts, NEW q \in Seq(Texts), SplitsTo(t, q, <<>>),
         NEW p \in Texts, NEW w \in Texts, w = t \o p, NEW v \in Texts, v # <<>>,
         NEW z \in Texts, z = w \o v, NEW b \in Texts, SplitsTo(z, Append(q, b), <<>>)
  PROVE  Front(Split(w)) = q
<1>1. PICK k \in Texts, x \in Tokens : v = Append(k, x)
  <2>1. Front(v) \in Texts /\ Last(v) \in Tokens /\ v = Append(Front(v), Last(v))
    BY TextsAre
  <2> QED BY <2>1
<1>3. PICK u \in Texts : u = w \o k
  BY ConcatType
<1>4. w \o v = Append(u, x)
  BY <1>1, <1>3, ConcatMore
<1>5. PICK r \in Seq(Texts), c \in Texts : Split(u) = Append(r, c) /\ Front(Split(u)) = r
  BY Feed, PartingsAre
<1>6. Append(Append(q, b), <<>>) = feed(Append(r, c), x)
  <2>1. Split(Append(u, x)) = feed(Split(u), x)
    BY Feed
  <2> QED BY <1>4, <1>5, <2>1 DEF SplitsTo
<1>7. <<>> \in Texts /\ Append(q, b) \in Seq(Texts)
  BY TextsAre, AppendFacts
<1>8. r = q
  <2>1. PICK d \in Texts : d = ready(c, x)
    BY FeedIs
  <2>2. CASE EndsPart(d, x)
    <3>1. PICK f \in Texts : f = Front(d)
      BY <2>1, <2>2, FeedIs
    <3>2. Append(Append(q, b), <<>>) = Append(Append(r, f), <<>>) /\ Append(r, f) \in Seq(Texts)
      BY <1>6, <2>1, <2>2, <3>1, FeedIs, AppendFacts
    <3>3. Append(q, b) = Append(r, f)
      <4>1. Front(Append(Append(q, b), <<>>)) = Append(q, b)
        BY <1>7, AppendPart
      <4>2. Front(Append(Append(r, f), <<>>)) = Append(r, f)
        BY <1>7, <3>2, AppendPart
      <4> QED BY <3>2, <4>1, <4>2
    <3>4. Front(Append(q, b)) = q /\ Front(Append(r, f)) = r
      BY AppendPart
    <3> QED BY <3>3, <3>4
  <2>3. CASE ~EndsPart(d, x)
    <3>1. PICK f \in Texts : f = Append(d, x) /\ f # <<>>
      <4>1. Append(d, x) \in Texts /\ Append(d, x) # <<>>
        BY TextsAre
      <4> QED BY <4>1
    <3>2. Append(Append(q, b), <<>>) = Append(r, f)
      BY <1>6, <2>1, <2>3, <3>1, FeedIs
    <3> QED BY <1>7, <3>1, <3>2, AppendPart
  <2> QED BY <2>2, <2>3
<1>9. Front(Split(t)) = q
  BY <1>7, AppendPart DEF SplitsTo
<1>10. PICK g \in Seq(Texts) : Front(Split(w)) = q \o g
  BY <1>9, Grow
<1>11. PICK h \in Seq(Texts) : q = (q \o g) \o h
  <2>1. PICK h \in Seq(Texts) : Front(Split(w \o k)) = Front(Split(w)) \o h
    BY Grow
  <2> QED BY <1>3, <1>5, <1>8, <1>10, <2>1
<1>12. g = <<>>
  BY <1>11
<1>13. q \o <<>> = q
  BY ConcatEmptySeq
<1> QED BY <1>10, <1>12, <1>13

\* The first items of a stream.
LEMMA FirstItems ==
  ASSUME NEW S, NEW s \in Seq(S), NEW n \in 0..Len(s)
  PROVE  /\ SubSeq(s, 1, n) \in Seq(S) /\ Len(SubSeq(s, 1, n)) = n
         /\ \A i \in 1..n : SubSeq(s, 1, n)[i] = s[i]
         /\ n = Len(s) => SubSeq(s, 1, n) = s
         /\ n < Len(s) => /\ s[n + 1] \in S
                          /\ SubSeq(s, 1, n + 1) = Append(SubSeq(s, 1, n), s[n + 1])
         /\ \A x \in S : SubSeq(Append(s, x), 1, n) = SubSeq(s, 1, n)
<1>1. ASSUME NEW u \in Seq(S), NEW k \in 0..Len(u)
      PROVE  /\ SubSeq(u, 1, k) \in Seq(S) /\ Len(SubSeq(u, 1, k)) = k
             /\ \A i \in 1..k : SubSeq(u, 1, k)[i] = u[i]
  OBVIOUS
<1>2. Len(s) \in Nat /\ n \in Nat /\ n <= Len(s)
  OBVIOUS
<1>3. PICK f \in Seq(S) : f = SubSeq(s, 1, n) /\ Len(f) = n /\ \A i \in 1..n : f[i] = s[i]
  BY <1>1
<1>4. ASSUME n = Len(s) PROVE f = s
  BY <1>2, <1>3, <1>4, SeqEqual
<1>5. ASSUME n < Len(s)
      PROVE  s[n + 1] \in S /\ SubSeq(s, 1, n + 1) = Append(f, s[n + 1])
  <2>1. n + 1 \in 1..Len(s) /\ n + 1 \in 0..Len(s)
    BY <1>2, <1>5
  <2>2. PICK x \in S : x = s[n + 1]
    BY <2>1
  <2>3. PICK g \in Seq(S) :
          g = SubSeq(s, 1, n + 1) /\ Len(g) = n + 1 /\ \A i \in 1..n + 1 : g[i] = s[i]
    BY <1>1, <2>1
  <2>4. /\ Append(f, x) \in Seq(S) /\ Len(Append(f, x)) = n + 1
        /\ \A i \in 1..n : Append(f, x)[i] = f[i]
        /\ Append(f, x)[n + 1] = x
    BY <1>3, AppendFacts
  <2>5. \A i \in 1..n + 1 : i \in 1..n \/ i = n + 1
    BY <1>2
  <2>6. \A i \in 1..n + 1 : g[i] = Append(f, x)[i]
    BY <1>3, <2>2, <2>3, <2>4, <2>5
  <2>7. g = Append(f, x)
    BY <2>3, <2>4, <2>6, SeqEqual
  <2> QED BY <2>2, <2>3, <2>7
<1>6. ASSUME NEW x \in S PROVE SubSeq(Append(s, x), 1, n) = f
  <2>1. PICK u \in Seq(S) : u = Append(s, x) /\ Len(u) = Len(s) + 1
          /\ \A i \in 1..Len(s) : u[i] = s[i]
    <3>1. /\ Append(s, x) \in Seq(S) /\ Len(Append(s, x)) = Len(s) + 1
          /\ \A i \in 1..Len(s) : Append(s, x)[i] = s[i]
      BY AppendFacts
    <3> QED BY <3>1
  <2>2. n \in 0..Len(u) /\ \A i \in 1..n : i \in 1..Len(s)
    BY <1>2, <2>1
  <2>3. PICK g \in Seq(S) : g = SubSeq(u, 1, n) /\ Len(g) = n /\ \A i \in 1..n : g[i] = u[i]
    BY <1>1, <2>2
  <2>4. \A i \in 1..n : g[i] = f[i]
    BY <1>3, <2>1, <2>2, <2>3
  <2>5. g = f
    BY <1>3, <2>3, <2>4, SeqEqual
  <2> QED BY <2>1, <2>3, <2>5
<1> QED BY <1>3, <1>4, <1>5, <1>6

\* A stream begins with the bytes of its first items.
LEMMA StreamBegins ==
  ASSUME NEW end \in Eols
  PROVE  \A s \in Seq(Items) : \A n \in 0..Len(s) :
           \E rest \in Texts : StreamBytes(s, end) = StreamBytes(SubSeq(s, 1, n), end) \o rest
<1> DEFINE Good(s) == \A n \in 0..Len(s) :
             \E rest \in Texts : StreamBytes(s, end) = StreamBytes(SubSeq(s, 1, n), end) \o rest
           T == {s \in Seq(Items) : Good(s)}
<1>0. ASSUME NEW s \in Seq(Items)
      PROVE  \E rest \in Texts : StreamBytes(s, end)
               = StreamBytes(SubSeq(s, 1, Len(s)), end) \o rest
  <2>1. Len(s) \in 0..Len(s)
    OBVIOUS
  <2>2. SubSeq(s, 1, Len(s)) = s
    BY <2>1, FirstItems
  <2>3. StreamBytes(s, end) = StreamBytes(s, end) \o <<>>
    BY StreamBytesAre, ConcatNone
  <2>4. <<>> \in Texts
    BY TextsAre
  <2> QED BY <2>2, <2>3, <2>4
<1>1. <<>> \in T
  <2>1. <<>> \in Seq(Items) /\ \A n \in 0..Len(<<>>) : n = Len(<<>>)
    OBVIOUS
  <2>2. Good(<<>>)
    BY <1>0, <2>1
  <2> QED BY <2>1, <2>2
<1>2. ASSUME NEW s \in T, NEW x \in Items PROVE Append(s, x) \in T
  <2>1. s \in Seq(Items) /\ Good(s)
    OBVIOUS
  <2>2. /\ Append(s, x) \in Seq(Items) /\ Len(s) \in Nat /\ Len(Append(s, x)) = Len(s) + 1
    BY <2>1, AppendFacts
  <2>3. ASSUME NEW n \in 0..Len(s)
        PROVE  \E rest \in Texts :
                 StreamBytes(Append(s, x), end)
                   = StreamBytes(SubSeq(Append(s, x), 1, n), end) \o rest
    <3>1. SubSeq(Append(s, x), 1, n) = SubSeq(s, 1, n) /\ SubSeq(s, 1, n) \in Seq(Items)
      BY <2>1, FirstItems
    <3>2. PICK rest \in Texts : StreamBytes(s, end) = StreamBytes(SubSeq(s, 1, n), end) \o rest
      BY <2>1
    <3>3. PICK t \in Texts : t = StreamBytes(SubSeq(s, 1, n), end)
      BY <3>1, StreamBytesAre
    <3>4. PICK b \in Texts : b = ItemBytes(x, end)
      BY FeedItem DEF Whole
    <3>5. StreamBytes(Append(s, x), end) = (t \o rest) \o b
      BY <2>1, <3>2, <3>3, <3>4, StreamBytesAre
    <3>6. (t \o rest) \o b = t \o (rest \o b) /\ rest \o b \in Texts
      BY ConcatThree, ConcatType
    <3> QED BY <3>1, <3>3, <3>5, <3>6
  <2>4. Good(Append(s, x))
    <3>1. \A n \in 0..Len(s) + 1 : n \in 0..Len(s) \/ n = Len(s) + 1
      BY <2>2
    <3> QED BY <1>0, <2>2, <2>3, <3>1
  <2> QED BY <2>2, <2>4
<1>3. T = Seq(Items)
  <2>1. T \in SUBSET Seq(Items)
    OBVIOUS
  <2> HIDE DEF T
  <2> QED BY <1>1, <1>2, <2>1, AppendInduction
<1>4. \A s \in T : Good(s)
  OBVIOUS
<1> HIDE DEF T
<1> QED BY <1>3, <1>4

\* The bytes of the first n items.
FirstBytes(items, n, end) == StreamBytes(SubSeq(items, 1, n), end)

\* The blocks that have arrived are those of the items that have.
LEMMA BlocksArrived ==
  ASSUME NEW end \in Eols, NEW items \in Seq(Items), NEW a \in 0..Len(StreamBytes(items, end)),
         NEW n \in 0..Len(items), Len(FirstBytes(items, n, end)) <= a,
         n = Len(items) \/ a < Len(FirstBytes(items, n + 1, end))
  PROVE  Front(Split(SubSeq(StreamBytes(items, end), 1, a))) = BlocksOf(SubSeq(items, 1, n))
<1>1. PICK s \in Seq(Items) : s = SubSeq(items, 1, n)
  BY FirstItems
<1>2. PICK w \in Texts : w = StreamBytes(items, end)
  BY StreamBytesAre
<1>3. PICK t \in Texts : t = StreamBytes(s, end)
  BY StreamBytesAre
<1>4. PICK q \in Seq(Texts) : q = BlocksOf(s) /\ Split(t) = Append(q, <<>>)
  BY <1>3, BlocksAre, StreamSplits
<1>5. a \in Nat /\ a <= Len(w) /\ Len(t) \in Nat /\ Len(t) <= a /\ Len(w) \in Nat
  BY <1>1, <1>2, <1>3, LenProperties DEF FirstBytes, Texts
<1>6. CASE n = Len(items)
  <2>1. s = items
    BY <1>1, <1>6, FirstItems
  <2>2. a = Len(w) /\ w = t
    BY <1>2, <1>3, <1>5, <2>1
  <2>3. SubSeq(w, 1, a) = t
    BY <2>2, CutWhole
  <2>4. Front(Split(t)) = q
    <3>1. <<>> \in Texts
      BY TextsAre
    <3> QED BY <1>4, <3>1, AppendPart
  <2> QED BY <1>1, <1>2, <1>4, <2>3, <2>4
<1>7. CASE n # Len(items)
  <2>1. n < Len(items) /\ n + 1 \in 0..Len(items)
    BY <1>7
  <2>2. PICK x \in Items : SubSeq(items, 1, n + 1) = Append(s, x)
    BY <1>1, <2>1, FirstItems
  <2>3. PICK i \in Texts : i = ItemBytes(x, end)
    BY FeedItem DEF Whole
  <2>4. PICK z \in Texts : z = t \o i /\ Len(z) \in Nat
    BY ConcatText
  <2>5. z = FirstBytes(items, n + 1, end)
    BY <1>3, <2>2, <2>3, <2>4, StreamBytesAre DEF FirstBytes
  <2>6. a < Len(z) /\ a \in 0..Len(z)
    BY <1>5, <1>7, <2>4, <2>5
  <2>7. PICK b \in Texts : b = BlockOf(x) /\ Split(z) = Append(Append(q, b), <<>>)
    BY <1>4, <2>3, <2>4, FeedItem
  <2>8. PICK rest \in Texts : w = z \o rest
    BY <1>2, <2>1, <2>5, StreamBegins DEF FirstBytes
  <2>9. PICK u \in Texts : u = SubSeq(z, 1, a) /\ Len(u) = a
    BY <2>6, CutAt
  <2>10. SubSeq(w, 1, a) = u
    BY <2>6, <2>8, <2>9, CutBefore
  <2>11. PICK v \in Texts : z = u \o v /\ Len(v) = Len(z) - a
    BY <2>6, <2>9, CutAt
  <2>12. v # <<>>
    <3>1. Len(v) # 0
      BY <1>5, <2>4, <2>6, <2>11
    <3> QED BY <3>1
  <2>13. Len(t) \in 0..Len(u) /\ Len(t) \in 0..Len(t)
    BY <1>5, <2>9
  <2>14. SubSeq(u, 1, Len(t)) = t
    <3>1. SubSeq(z, 1, Len(t)) = SubSeq(u, 1, Len(t))
      BY <2>11, <2>13, CutBefore
    <3>2. SubSeq(z, 1, Len(t)) = SubSeq(t, 1, Len(t))
      BY <2>4, <2>13, CutBefore
    <3> QED BY <3>1, <3>2, CutWhole
  <2>15. PICK p \in Texts : u = t \o p
    <3>1. PICK m \in 0..Len(u) : m = Len(t)
      BY <2>13
    <3>2. \E p \in Texts : u = SubSeq(u, 1, m) \o p /\ Len(p) = Len(u) - m
      BY CutAt
    <3> QED BY <2>14, <3>1, <3>2
  <2>16. Front(Split(u)) = q
    <3>1. SplitsTo(t, q, <<>>) /\ SplitsTo(z, Append(q, b), <<>>)
      BY <1>4, <2>7 DEF SplitsTo
    <3> HIDE DEF FirstBytes
    <3>2. /\ t \in Texts /\ q \in Seq(Texts) /\ p \in Texts /\ u \in Texts /\ u = t \o p
          /\ v \in Texts /\ v # <<>> /\ z \in Texts /\ z = u \o v /\ b \in Texts
      BY <2>11, <2>12, <2>15
    <3> QED BY <3>1, <3>2, NoBlockYet
  <2> QED BY <1>1, <1>2, <1>4, <2>10, <2>16
<1> QED BY <1>6, <1>7

-----------------------------------------------------------------------------
(***************************************************************************)
(* What the parser reads in the block of an item.                          *)
(***************************************************************************)
\* A text without a separator.
Unseparated(l) == \A i \in 1..Len(l) : l[i] # "LS"

\* What comes before the first separator.
LEMMA UpToIs ==
  /\ \A l \in Texts : Unseparated(l) => UpToSeparator(l) = l
  /\ \A l \in Texts : \A i \in 1..Len(l) :
       l[i] = "LS" /\ (\A j \in 1..i - 1 : l[j] # "LS") => UpToSeparator(l) = SubSeq(l, 1, i - 1)
<1>1. ASSUME NEW l \in Texts, Unseparated(l) PROVE UpToSeparator(l) = l
  <2>1. {i \in DOMAIN l : l[i] = "LS"} = {}
    BY <1>1 DEF Unseparated, Texts
  <2> QED BY <2>1 DEF UpToSeparator
<1>2. ASSUME NEW l \in Texts, NEW i \in 1..Len(l), l[i] = "LS", \A j \in 1..i - 1 : l[j] # "LS"
      PROVE  UpToSeparator(l) = SubSeq(l, 1, i - 1)
  <2> DEFINE seps == {k \in DOMAIN l : l[k] = "LS"}
             Least(k) == \A j \in seps : k <= j
  <2>1. DOMAIN l = 1..Len(l)
    BY DEF Texts
  <2>2. i \in seps /\ seps \subseteq Nat
    BY <1>2, <2>1
  <2>3. Least(i)
    <3>1. ASSUME NEW j \in seps PROVE i <= j
      <4>1. j \in 1..Len(l) /\ l[j] = "LS"
        BY <2>1
      <4>2. ~(j \in 1..i - 1)
        BY <1>2, <4>1
      <4> QED BY <4>1, <4>2
    <3> QED BY <3>1
  <2>4. PICK k \in seps : k = (CHOOSE m \in seps : Least(m)) /\ Least(k)
    <3> HIDE DEF seps, Least
    <3> QED BY <2>2, <2>3
  <2>5. k = i
    <3>1. k <= i /\ i <= k /\ k \in Nat
      BY <2>2, <2>3, <2>4
    <3> QED BY <3>1
  <2>6. UpToSeparator(l) = SubSeq(l, 1, k - 1)
    <3>1. seps # {}
      BY <2>2
    <3> QED BY <2>4, <3>1 DEF UpToSeparator
  <2> QED BY <2>5, <2>6
<1> QED BY <1>1, <1>2

\* One more character counts if no separator comes before it.
LEMMA UpToMore ==
  ASSUME NEW l \in Texts, NEW x \in Tokens
  PROVE  /\ UpToSeparator(l) \in Texts
         /\ Unseparated(Append(l, x)) <=> Unseparated(l) /\ x # "LS"
         /\ Unseparated(l) /\ x = "LS" => UpToSeparator(Append(l, x)) = l
         /\ ~Unseparated(l) => UpToSeparator(Append(l, x)) = UpToSeparator(l)
<1>1. PICK n \in Nat : n = Len(l)
  BY LenProperties DEF Texts
<1>2. PICK m \in Texts :
        m = Append(l, x) /\ Len(m) = n + 1 /\ (\A i \in 1..n : m[i] = l[i]) /\ m[n + 1] = x
  <2>1. /\ Append(l, x) \in Texts /\ Len(Append(l, x)) = Len(l) + 1
        /\ \A i \in 1..Len(l) : Append(l, x)[i] = l[i]
        /\ Append(l, x)[Len(l) + 1] = x
    BY AppendFacts DEF Texts
  <2> QED BY <1>1, <2>1
<1>3. Unseparated(m) <=> Unseparated(l) /\ x # "LS"
  <2>1. \A i \in 1..n + 1 : i \in 1..n \/ i = n + 1
    OBVIOUS
  <2>2. \A i \in 1..n : i \in 1..n + 1
    OBVIOUS
  <2>3. n + 1 \in 1..n + 1
    OBVIOUS
  <2> QED BY <1>1, <1>2, <2>1, <2>2, <2>3 DEF Unseparated
<1>4. \A k \in 0..n : SubSeq(m, 1, k) = SubSeq(l, 1, k) /\ SubSeq(l, 1, k) \in Texts
  BY <1>1, <1>2, FirstItems DEF Texts
<1>5. ASSUME Unseparated(l), x = "LS" PROVE UpToSeparator(m) = l
  <2>1. n + 1 \in 1..Len(m) /\ (n + 1) - 1 = n /\ n \in 0..n /\ n \in 0..Len(l)
    BY <1>1, <1>2
  <2>2. \A j \in 1..n : m[j] # "LS"
    BY <1>1, <1>2, <1>5 DEF Unseparated
  <2>3. UpToSeparator(m) = SubSeq(m, 1, n)
    BY <1>2, <1>5, <2>1, <2>2, UpToIs
  <2>4. SubSeq(l, 1, n) = l
    BY <1>1, CutWhole
  <2> QED BY <1>4, <2>1, <2>3, <2>4
<1>6. ASSUME ~Unseparated(l) PROVE UpToSeparator(m) = UpToSeparator(l) /\ UpToSeparator(l) \in Texts
  <2> DEFINE seps == {k \in 1..n : l[k] = "LS"}
  <2>1. PICK i \in seps : \A j \in seps : i <= j
    <3>1. seps \subseteq Nat /\ seps # {}
      BY <1>1, <1>6 DEF Unseparated
    <3> HIDE DEF seps
    <3> QED BY <3>1, LeastOf
  <2>2. i \in 1..n /\ i \in 1..n + 1 /\ l[i] = "LS" /\ m[i] = "LS" /\ i - 1 \in 0..n
    BY <1>2, <2>1
  <2>3. \A j \in 1..i - 1 : l[j] # "LS" /\ m[j] # "LS"
    <3> TAKE j \in 1..i - 1
    <3>1. j \in 1..n /\ ~(i <= j)
      BY <2>2
    <3> QED BY <1>2, <2>1, <3>1
  <2>4. UpToSeparator(l) = SubSeq(l, 1, i - 1) /\ UpToSeparator(m) = SubSeq(m, 1, i - 1)
    BY <1>1, <1>2, <2>2, <2>3, UpToIs
  <2> QED BY <1>4, <2>2, <2>4
<1>7. Unseparated(l) => UpToSeparator(l) \in Texts
  BY UpToIs
<1> QED BY <1>2, <1>3, <1>5, <1>6, <1>7

\* A line begins with its head.
LEMMA Headed ==
  ASSUME NEW h \in Tokens, NEW r \in Texts
  PROVE  /\ <<h>> \o r \in Texts /\ <<h>> \o r # <<>>
         /\ (<<h>> \o r)[1] = h /\ Tail(<<h>> \o r) = r
<1>1. ASSUME NEW S, NEW y \in S, NEW s \in Seq(S)
      PROVE  /\ <<y>> \o s \in Seq(S) /\ <<y>> \o s # <<>>
             /\ (<<y>> \o s)[1] = y /\ Tail(<<y>> \o s) = s
  <2>1. /\ <<y>> \o s \in Seq(S) /\ Len(<<y>> \o s) = 1 + Len(s) /\ Len(s) \in Nat
        /\ (<<y>> \o s)[1] = y
        /\ \A i \in 1..Len(s) : (<<y>> \o s)[1 + i] = s[i]
    OBVIOUS
  <2>2. PICK z \in Seq(S) : z = <<y>> \o s
    BY <2>1
  <2>3. z # <<>>
    BY <2>1, <2>2
  <2>4. Tail(z) \in Seq(S) /\ Len(Tail(z)) = Len(s) /\ \A i \in 1..Len(s) : Tail(z)[i] = z[1 + i]
    <3>1. Tail(z) \in Seq(S) /\ Len(Tail(z)) = Len(z) - 1
            /\ \A i \in 1..Len(Tail(z)) : Tail(z)[i] = z[i + 1]
      BY <2>3, HeadTailProperties
    <3> QED BY <2>1, <2>2, <3>1
  <2>5. Tail(z) = s
    BY <2>1, <2>2, <2>4, SeqEqual
  <2> QED BY <2>1, <2>2, <2>3, <2>5
<1> QED BY <1>1 DEF Texts

\* It is no separator.
LEMMA UpToHeaded ==
  ASSUME NEW h \in Tokens, h # "LS"
  PROVE  \A r \in Texts : UpToSeparator(<<h>> \o r) = <<h>> \o UpToSeparator(r)
<1> DEFINE T == {r \in Texts : /\ UpToSeparator(<<h>> \o r) = <<h>> \o UpToSeparator(r)
                               /\ Unseparated(<<h>> \o r) <=> Unseparated(r)}
<1>0. <<h>> \in Texts
  BY OneIsText
<1>1. <<>> \in T
  <2>1. Unseparated(<<>>) /\ Unseparated(<<h>>)
    <3>1. Len(<<>>) = 0 /\ Len(<<h>>) = 1 /\ <<h>>[1] = h
      OBVIOUS
    <3>2. \A i \in 1..1 : i = 1
      OBVIOUS
    <3> QED BY <3>1, <3>2 DEF Unseparated
  <2>2. <<h>> \o <<>> = <<h>> /\ <<>> \in Texts
    BY <1>0, ConcatNone, TextsAre
  <2> QED BY <1>0, <2>1, <2>2, UpToIs
<1>2. ASSUME NEW r \in T, NEW x \in Tokens PROVE Append(r, x) \in T
  <2>1. /\ r \in Texts /\ UpToSeparator(<<h>> \o r) = <<h>> \o UpToSeparator(r)
        /\ Unseparated(<<h>> \o r) <=> Unseparated(r)
    OBVIOUS
  <2>2. PICK m \in Texts : m = <<h>> \o r
    BY <1>0, <2>1, ConcatType
  <2>3. Append(r, x) \in Texts /\ <<h>> \o Append(r, x) = Append(m, x) /\ Append(m, x) \in Texts
    <3>1. Append(r, x) \in Texts /\ Append(m, x) \in Texts
      BY <2>1, TextsAre
    <3>2. <<h>> \o Append(r, x) = Append(<<h>> \o r, x)
      BY <1>0, <2>1, ConcatMore
    <3> QED BY <2>2, <3>1, <3>2
  <2>4. Unseparated(Append(m, x)) <=> Unseparated(Append(r, x))
    BY <2>1, <2>2, UpToMore
  <2>5. UpToSeparator(Append(m, x)) = <<h>> \o UpToSeparator(Append(r, x))
    <3>1. CASE Unseparated(r) /\ x = "LS"
      <4>1. UpToSeparator(Append(r, x)) = r
        BY <2>1, <3>1, UpToMore
      <4>2. UpToSeparator(Append(m, x)) = m
        BY <2>1, <2>2, <3>1, UpToMore
      <4> QED BY <2>2, <4>1, <4>2
    <3>2. CASE Unseparated(r) /\ x # "LS"
      <4>1. Unseparated(Append(r, x)) /\ Unseparated(Append(m, x))
        BY <2>1, <2>4, <3>2, UpToMore
      <4> QED BY <2>3, <4>1, UpToIs
    <3>3. CASE ~Unseparated(r)
      BY <2>1, <2>2, <3>3, UpToMore
    <3> QED BY <3>1, <3>2, <3>3
  <2> QED BY <2>3, <2>4, <2>5
<1>3. T = Texts
  <2>1. T \in SUBSET Seq(Tokens)
    BY DEF Texts
  <2> HIDE DEF T
  <2> QED BY <1>1, <1>2, <2>1, AppendInduction DEF Texts
<1>4. \A r \in T : UpToSeparator(<<h>> \o r) = <<h>> \o UpToSeparator(r)
  OBVIOUS
<1> HIDE DEF T
<1> QED BY <1>3, <1>4

\* What a character does to the last line.
LEMMA PutInLine ==
  ASSUME NEW q \in Seq(Texts), NEW c \in Texts, NEW x \in Tokens
  PROVE  /\ Append(q, c) \in Seq(Texts) /\ Append(c, x) \in Texts /\ <<>> \in Texts
         /\ x \in LineEnds => put_in_line(Append(q, c), x) = Append(Append(q, c), <<>>)
         /\ x \notin LineEnds => put_in_line(Append(q, c), x) = Append(q, Append(c, x))
<1>1. Front(Append(q, c)) = q /\ Last(Append(q, c)) = c
  BY AppendPart
<1>2. Append(q, c) \in Seq(Texts) /\ Append(c, x) \in Texts /\ <<>> \in Texts
  BY AppendFacts, TextsAre
<1> QED BY <1>1, <1>2 DEF put_in_line

\* What is read of a piece of a line: nothing if it does not begin with a field name.
NoField(c) == c = <<>> \/ c[1] \notin FieldNames

\* It is read over.
LEMMA ReadsOver ==
  ASSUME NEW q \in Seq(Texts), NEW c \in Texts, NoField(c)
  PROVE  read_lines[Append(q, c)] = read_lines[q]
<1>1. read_lines[Append(q, c)] = read_line(read_lines[q], c)
  BY ReadLines
<1>2. c = <<>> \/ (c[1] # "event:" /\ c[1] # "data:")
  BY DEF NoField, FieldNames
<1> QED BY <1>1, <1>2 DEF read_line

\* Of a line the loop reads what comes before a separator.
LEMMA ReadServerLine ==
  ASSUME NEW t \in Texts, NEW q \in Seq(Texts), splitlines[t] = Append(q, <<>>),
         NEW h \in LineHeads
  PROVE  \A r \in Inlines :
           /\ splitlines[t \o (<<h>> \o r)] \in Partings
           /\ read_lines[splitlines[t \o (<<h>> \o r)]]
                = read_line(read_lines[q], UpToSeparator(<<h>> \o r))
<1> DEFINE Unbroken(r, p, c) == p = q /\ c = <<h>> \o r
           Broken(r, p, c) ==
             read_lines[p] = read_line(read_lines[q], <<h>> \o UpToSeparator(r)) /\ NoField(c)
           Good(r, p, c) == /\ splitlines[t \o (<<h>> \o r)] = Append(p, c)
                            /\ Unseparated(r) => Unbroken(r, p, c)
                            /\ ~Unseparated(r) => Broken(r, p, c)
           T == {r \in Inlines : \E p \in Seq(Texts), c \in Texts : Good(r, p, c)}
           InlineTokens == Tokens \ ({"LF", "CR"} \cup FieldNames)
<1>0. h \in Tokens /\ h \notin LineEnds /\ <<h>> \in Texts /\ h # "LS"
  BY TokensUsed, OneIsText DEF LineHeads, FieldNames, LineEnds
<1>1. <<>> \in T
  <2>1. <<>> \in Inlines /\ <<h>> \o <<>> = <<h>> /\ Unseparated(<<>>)
    <3>1. <<>> \in Inlines
      BY DEF Inlines
    <3>2. Len(<<>>) = 0
      OBVIOUS
    <3> QED BY <1>0, <3>1, <3>2, ConcatNone DEF Unseparated
  <2>2. t \o <<h>> = Append(t, h)
    BY <1>0, OneIsText
  <2>3. splitlines[Append(t, h)] = Append(q, Append(<<>>, h))
    <3>1. splitlines[Append(t, h)] = put_in_line(splitlines[t], h)
      BY <1>0, SplitLines
    <3>2. <<>> \in Texts
      BY TextsAre
    <3> QED BY <1>0, <3>1, <3>2, PutInLine
  <2>4. Append(<<>>, h) = <<h>>
    OBVIOUS
  <2>5. Good(<<>>, q, <<h>>)
    BY <2>1, <2>2, <2>3, <2>4
  <2> HIDE DEF Good
  <2> QED BY <1>0, <2>1, <2>5
<1>2. ASSUME NEW r \in T, NEW x \in InlineTokens PROVE Append(r, x) \in T
  <2>1. PICK p \in Seq(Texts), c \in Texts : Good(r, p, c)
    OBVIOUS
  <2>2. r \in Inlines /\ r \in Texts /\ x \in Tokens /\ x \notin FieldNames
        /\ (x \in LineEnds <=> x = "LS")
    <3>1. r \in Inlines /\ x \in Tokens /\ x \notin FieldNames /\ x # "LF" /\ x # "CR"
      OBVIOUS
    <3>2. r \in Texts
      BY <3>1, HeadedLine
    <3> QED BY <3>1, <3>2 DEF LineEnds
  <2>3. PICK l \in Texts : l = <<h>> \o r
    BY <1>0, <2>2, ConcatType
  <2>4. Append(r, x) \in Inlines /\ <<h>> \o Append(r, x) = Append(l, x) /\ Append(l, x) \in Texts
    <3>1. Append(r, x) \in Inlines
      BY <2>2, AppendFacts DEF Inlines
    <3>2. <<h>> \o Append(r, x) = Append(<<h>> \o r, x)
      BY <1>0, <2>2, ConcatMore
    <3> HIDE DEF T, InlineTokens
    <3> QED BY <2>2, <2>3, <3>1, <3>2, TextsAre
  <2>5. PICK u \in Texts : u = t \o l /\ t \o Append(l, x) = Append(u, x)
    BY <2>2, ConcatType, ConcatMore
  <2>6. splitlines[Append(u, x)] = put_in_line(Append(p, c), x)
    <3>1. splitlines[u] = Append(p, c)
      BY <2>1, <2>3, <2>5
    <3> HIDE DEF T, InlineTokens
    <3> QED BY <2>2, <3>1, SplitLines
  <2>7. PICK d \in Texts, s \in Seq(Texts) : d = Append(c, x) /\ s = Append(p, c) /\ <<>> \in Texts
    <3> HIDE DEF T, InlineTokens
    <3> QED BY <2>2, PutInLine
  <2> HIDE DEF T, InlineTokens
  <2>8. splitlines[t \o (<<h>> \o Append(r, x))] = IF x
          = "LS" THEN Append(s, <<>>) ELSE Append(p, d)
    <3>1. x \in LineEnds => put_in_line(Append(p, c), x) = Append(s, <<>>)
      BY <2>2, <2>7, PutInLine
    <3>2. x \notin LineEnds => put_in_line(Append(p, c), x) = Append(p, d)
      BY <2>2, <2>7, PutInLine
    <3> QED BY <2>2, <2>4, <2>5, <2>6, <3>1, <3>2
  <2>9. Unseparated(Append(r, x)) <=> Unseparated(r) /\ x # "LS"
    BY <2>2, UpToMore
  <2>10. CASE Unseparated(r) /\ x = "LS"
    <3>1. p = q /\ c = <<h>> \o r
      BY <2>1, <2>10
    <3>2. UpToSeparator(Append(r, x)) = r
      BY <2>2, <2>10, UpToMore
    <3>3. read_lines[s] = read_line(read_lines[q], <<h>> \o r)
      BY <2>7, <3>1, ReadLines
    <3>4. Good(Append(r, x), s, <<>>)
      BY <2>8, <2>9, <2>10, <3>2, <3>3 DEF NoField
    <3> HIDE DEF Good
    <3> QED BY <2>4, <2>7, <3>4 DEF T
  <2>11. CASE Unseparated(r) /\ x # "LS"
    <3>1. p = q /\ c = l
      BY <2>1, <2>3, <2>11
    <3>2. Good(Append(r, x), p, d)
      BY <2>4, <2>7, <2>8, <2>9, <2>11, <3>1
    <3> HIDE DEF Good
    <3> QED BY <2>4, <2>7, <3>2 DEF T
  <2>12. CASE ~Unseparated(r) /\ x = "LS"
    <3>1. Broken(r, p, c) /\ UpToSeparator(Append(r, x)) = UpToSeparator(r)
      BY <2>1, <2>2, <2>12, UpToMore
    <3>2. read_lines[s] = read_lines[p]
      BY <2>7, <3>1, ReadsOver
    <3>3. Good(Append(r, x), s, <<>>)
      BY <2>8, <2>9, <2>12, <3>1, <3>2 DEF NoField
    <3> HIDE DEF Good
    <3> QED BY <2>4, <2>7, <3>3 DEF T
  <2>13. CASE ~Unseparated(r) /\ x # "LS"
    <3>1. Broken(r, p, c) /\ UpToSeparator(Append(r, x)) = UpToSeparator(r)
      BY <2>1, <2>2, <2>13, UpToMore
    <3>2. NoField(d)
      <4>1. d # <<>> /\ d[1] = IF c = <<>> THEN x ELSE c[1]
        <5>1. c \in Seq(Tokens) /\ x \in Tokens
          BY <2>2 DEF Texts
        <5>2. Len(d) = Len(c) + 1 /\ Len(c) \in Nat /\ d[Len(c) + 1] = x
              /\ (\A i \in 1..Len(c) : d[i] = c[i]) /\ d \in Seq(Tokens)
          BY <2>7, <5>1, AppendFacts
        <5>3. c = <<>> => Len(c) = 0
          BY <5>1
        <5>4. c # <<>> => 1 \in 1..Len(c)
          BY <5>1
        <5>5. Len(d) # 0
          BY <5>2
        <5> QED BY <5>2, <5>3, <5>4, <5>5
      <4> QED BY <2>2, <3>1, <4>1 DEF NoField
    <3>3. Good(Append(r, x), p, d)
      BY <2>8, <2>9, <2>13, <3>1, <3>2
    <3> HIDE DEF Good
    <3> QED BY <2>4, <2>7, <3>3 DEF T
  <2> QED BY <2>10, <2>11, <2>12, <2>13
<1>3. T = Inlines
  <2>1. T \in SUBSET Seq(InlineTokens)
    BY DEF Inlines
  <2>2. Inlines = Seq(InlineTokens)
    BY DEF Inlines
  <2> HIDE DEF T, InlineTokens
  <2> QED BY <1>1, <1>2, <2>1, <2>2, AppendInduction
<1>4. ASSUME NEW r \in T
      PROVE  /\ splitlines[t \o (<<h>> \o r)] \in Partings
             /\ read_lines[splitlines[t \o (<<h>> \o r)]]
                  = read_line(read_lines[q], UpToSeparator(<<h>> \o r))
  <2>1. PICK p \in Seq(Texts), c \in Texts : Good(r, p, c)
    OBVIOUS
  <2>2. r \in Texts
    <3>1. r \in Inlines
      OBVIOUS
    <3> QED BY <3>1, HeadedLine
  <2>3. UpToSeparator(<<h>> \o r) = <<h>> \o UpToSeparator(r)
    BY <1>0, <2>2, UpToHeaded
  <2>4. Append(p, c) \in Partings
    BY AppendPart
  <2>5. read_lines[Append(p, c)] = read_line(read_lines[q], <<h>> \o UpToSeparator(r))
    <3>1. CASE Unseparated(r)
      <4>1. read_lines[Append(p, c)] = read_line(read_lines[p], c)
        BY ReadLines
      <4>2. UpToSeparator(r) = r
        BY <2>2, <3>1, UpToIs
      <4> QED BY <2>1, <3>1, <4>1, <4>2
    <3>2. CASE ~Unseparated(r)
      BY <2>1, <3>2, ReadsOver
    <3> QED BY <3>1, <3>2
  <2> QED BY <2>1, <2>3, <2>4, <2>5
<1> HIDE DEF T
<1> QED BY <1>3, <1>4

\* Lines as far as they are read.
CutLines(lines) == [i \in DOMAIN lines |-> UpToSeparator(lines[i])]

\* One more.
LEMMA CutLinesAre ==
  /\ CutLines(<<>>) = <<>>
  /\ \A ls \in Seq(Texts) : CutLines(ls) \in Seq(Texts) /\ Len(CutLines(ls)) = Len(ls)
  /\ \A ls \in Seq(Texts) : \A x \in Texts :
       CutLines(Append(ls, x)) = Append(CutLines(ls), UpToSeparator(x))
<1> DEFINE g == [x \in Texts |-> UpToSeparator(x)]
           Map(s) == [i \in DOMAIN s |-> g[s[i]]]
<1>1. \A x \in Texts : g[x] = UpToSeparator(x)
  OBVIOUS
<1>2. g \in [Texts -> Texts]
  <2>1. \A l \in Texts : UpToSeparator(l) \in Texts
    BY TokensUsed, UpToMore
  <2> QED BY <2>1
<1>3. ASSUME NEW s \in Seq(Texts) PROVE CutLines(s) = Map(s)
  <2>1. \A i \in DOMAIN s : s[i] \in Texts
    OBVIOUS
  <2> QED BY <2>1 DEF CutLines
<1> HIDE DEF g
<1>4. /\ Map(<<>>) = <<>>
      /\ \A s \in Seq(Texts) : Map(s) \in Seq(Texts) /\ Len(Map(s)) = Len(s)
      /\ \A s \in Seq(Texts) : \A x \in Texts : Map(Append(s, x)) = Append(Map(s), g[x])
  BY <1>2, Maps
<1> HIDE DEF Map
<1>5. \A s \in Seq(Texts) : \A x \in Texts : Append(s, x) \in Seq(Texts)
  BY AppendFacts
<1>6. <<>> \in Seq(Texts)
  OBVIOUS
<1> QED BY <1>1, <1>3, <1>4, <1>5, <1>6

\* Lines put together are read as they were, each up to a separator.
LEMMA ReadJoined ==
  \A ls \in Seq(ServerLines) :
    /\ splitlines[JoinLines(ls)] \in Partings
    /\ read_lines[splitlines[JoinLines(ls)]] = read_lines[CutLines(ls)]
<1> DEFINE Good(ls) == /\ splitlines[JoinLines(ls)] \in Partings
                       /\ read_lines[splitlines[JoinLines(ls)]] = read_lines[CutLines(ls)]
           T == {ls \in Seq(ServerLines) : Good(ls)}
<1>0. <<>> \in Texts /\ <<>> \in Seq(Texts) /\ << <<>> >> = Append(<<>>, <<>>)
  BY TextsAre
<1>1. <<>> \in T
  <2>1. <<>> \in Seq(ServerLines) /\ JoinLines(<<>>) = <<>> /\ CutLines(<<>>) = <<>>
    BY Joined, CutLinesAre
  <2>2. splitlines[<<>>] = Append(<<>>, <<>>)
    BY <1>0, SplitLines
  <2>3. Append(<<>>, <<>>) \in Partings
    BY <1>0, AppendPart
  <2>4. read_lines[Append(<<>>, <<>>)] = read_lines[<<>>]
    BY <1>0, ReadsOver DEF NoField
  <2>5. Good(<<>>)
    BY <2>1, <2>2, <2>3, <2>4
  <2> HIDE DEF Good
  <2> QED BY <2>1, <2>5
<1>2. ASSUME NEW ls \in T, NEW x \in ServerLines PROVE Append(ls, x) \in T
  <2>1. ls \in Seq(ServerLines) /\ ls \in Seq(Texts) /\ x \in Texts /\ Good(ls)
    BY ServerLinesAre
  <2>2. Append(ls, x) \in Seq(ServerLines)
    BY <2>1, AppendFacts
  <2>3. PICK h \in LineHeads, r \in Inlines : x = <<h>> \o r
    BY DEF ServerLines
  <2>4. PICK j \in Texts : j = JoinLines(ls)
    BY <2>1, Joined
  <2>5. PICK t \in Texts, q \in Seq(Texts) :
          /\ splitlines[t] = Append(q, <<>>) /\ read_lines[q] = read_lines[CutLines(ls)]
          /\ JoinLines(Append(ls, x)) = t \o x
    <3>1. CASE ls = <<>>
      <4>1. splitlines[<<>>] = Append(<<>>, <<>>)
        BY <1>0, SplitLines
      <4>2. read_lines[<<>>] = read_lines[CutLines(ls)]
        BY <3>1, CutLinesAre
      <4>3. JoinLines(Append(ls, x)) = <<>> \o x
        <5>1. JoinLines(Append(ls, x)) = x
          BY <2>1, <3>1, Joined
        <5>2. <<>> \o x = x
          BY <2>1, ConcatNone
        <5> QED BY <5>1, <5>2
      <4> QED BY <1>0, <4>1, <4>2, <4>3
    <3>2. CASE ls # <<>>
      <4>1. "LF" \in Tokens /\ "LF" \in LineEnds /\ <<"LF">> \in Texts
        BY TokensUsed, OneIsText DEF LineEnds
      <4>2. PICK t \in Texts : t = Append(j, "LF") /\ t = j \o <<"LF">>
        BY <4>1, TextsAre, OneIsText
      <4>3. PICK q \in Seq(Texts) : q = splitlines[j] /\ q \in Partings
              /\ read_lines[q] = read_lines[CutLines(ls)]
        BY <2>1, <2>4 DEF Partings
      <4>4. splitlines[t] = Append(q, <<>>)
        <5>1. splitlines[t] = put_in_line(q, "LF")
          BY <4>1, <4>2, <4>3, SplitLines
        <5>2. PICK p \in Seq(Texts), c \in Texts : q = Append(p, c)
          BY <4>3, PartingsAre
        <5> QED BY <4>1, <5>1, <5>2, PutInLine
      <4>5. JoinLines(Append(ls, x)) = t \o x
        <5>1. JoinLines(Append(ls, x)) = j \o (<<"LF">> \o x)
          BY <2>1, <2>4, <3>2, Joined
        <5>2. (j \o <<"LF">>) \o x = j \o (<<"LF">> \o x)
          BY <2>1, <4>1, ConcatThree
        <5> QED BY <4>2, <5>1, <5>2
      <4> QED BY <4>3, <4>4, <4>5
    <3> QED BY <3>1, <3>2
  <2>6. /\ splitlines[t \o (<<h>> \o r)] \in Partings
        /\ read_lines[splitlines[t \o (<<h>> \o r)]]
             = read_line(read_lines[q], UpToSeparator(<<h>> \o r))
    BY <2>5, ReadServerLine
  <2>7. read_lines[CutLines(Append(ls, x))] = read_line(read_lines[CutLines(ls)], UpToSeparator(x))
    <3>1. PICK k \in Seq(Texts) : k = CutLines(ls)
            /\ CutLines(Append(ls, x)) = Append(k, UpToSeparator(x))
      BY <2>1, CutLinesAre
    <3>2. UpToSeparator(x) \in Texts
      BY <2>1, TokensUsed, UpToMore
    <3> QED BY <3>1, <3>2, ReadLines
  <2>8. Good(Append(ls, x))
    BY <2>3, <2>5, <2>6, <2>7
  <2> HIDE DEF Good
  <2> QED BY <2>2, <2>8
<1>3. T = Seq(ServerLines)
  <2>1. T \in SUBSET Seq(ServerLines)
    OBVIOUS
  <2> HIDE DEF T
  <2> QED BY <1>1, <1>2, <2>1, AppendInduction
<1>4. \A ls \in T : Good(ls)
  OBVIOUS
<1> HIDE DEF T
<1> QED BY <1>3, <1>4

\* The fields of an event.
LEMMA ReadEvent ==
  ASSUME NEW name \in Inlines
  PROVE  \A ls \in Seq(Inlines) :
           read_lines[CutLines(NameLines(name) \o DataLines(ls))]
             = [event |-> UpToSeparator(name), data |-> CutLines(ls)]
<1> DEFINE Good(ls) == read_lines[CutLines(NameLines(name) \o DataLines(ls))]
                         = [event |-> UpToSeparator(name), data |-> CutLines(ls)]
           T == {ls \in Seq(Inlines) : Good(ls)}
<1>0. /\ "event:" \in Tokens /\ "data:" \in Tokens /\ "event:" \in LineHeads
           /\ "data:" \in LineHeads
      /\ name \in Texts /\ UpToSeparator(name) \in Texts
  <2>1. "event:" \in LineHeads /\ "data:" \in LineHeads
    BY DEF LineHeads, FieldNames
  <2> QED BY <2>1, TokensUsed, HeadedLine, UpToMore
<1>00. NameLines(name) \in Seq(ServerLines) /\ NameLines(name) \in Seq(Texts)
  <2>1. <<"event:">> \o name \in ServerLines
    BY <1>0, HeadedLine
  <2>2. NameLines(name) \in Seq(ServerLines)
    BY <2>1 DEF NameLines
  <2> QED BY <2>2, ServerLinesAre
<1>1. <<>> \in T
  <2>1. DataLines(<<>>) = <<>> /\ CutLines(<<>>) = <<>> /\ <<>> \in Seq(Inlines)
    BY DataLinesAre, CutLinesAre
  <2>2. NameLines(name) \o <<>> = NameLines(name)
    BY <1>00, ConcatEmptySeq
  <2>3. CASE name = <<>>
    <3>1. NameLines(name) = <<>>
      BY <2>3 DEF NameLines
    <3>2. UpToSeparator(<<>>) = <<>>
      <4>1. Unseparated(<<>>)
        BY DEF Unseparated
      <4> QED BY <4>1, TextsAre, UpToIs
    <3>3. Good(<<>>)
      BY <2>1, <2>2, <2>3, <3>1, <3>2, ReadLines DEF NoFields
    <3> HIDE DEF Good
    <3> QED BY <2>1, <3>3
  <2>4. CASE name # <<>>
    <3>1. PICK l \in Texts : l = <<"event:">> \o name
      BY <1>0, Headed
    <3>2. NameLines(name) = Append(<<>>, l)
      BY <2>4, <3>1 DEF NameLines
    <3>3. UpToSeparator(l) = <<"event:">> \o UpToSeparator(name)
      BY <1>0, <3>1, UpToHeaded
    <3>4. PICK u \in Texts :
            u = UpToSeparator(l) /\ u # <<>> /\ u[1] = "event:" /\ Tail(u) = UpToSeparator(name)
      BY <1>0, <3>3, Headed
    <3>5. CutLines(Append(<<>>, l)) = Append(<<>>, u)
      <4>1. <<>> \in Seq(Texts)
        OBVIOUS
      <4> QED BY <2>1, <3>4, <4>1, CutLinesAre
    <3>6. read_lines[Append(<<>>, u)] = read_line(NoFields, u)
      <4>1. <<>> \in Seq(Texts)
        OBVIOUS
      <4> QED BY <4>1, ReadLines
    <3>7. read_line(NoFields, u) = [event |-> UpToSeparator(name), data |-> <<>>]
      BY <3>4 DEF read_line, NoFields
    <3>8. Good(<<>>)
      BY <2>1, <2>2, <3>2, <3>5, <3>6, <3>7
    <3> HIDE DEF Good
    <3> QED BY <2>1, <3>8
  <2> QED BY <2>3, <2>4
<1>2. ASSUME NEW ls \in T, NEW x \in Inlines PROVE Append(ls, x) \in T
  <2>1. ls \in Seq(Inlines) /\ Good(ls)
    OBVIOUS
  <2>2. Append(ls, x) \in Seq(Inlines)
    BY <2>1, AppendFacts
  <2>3. x \in Texts /\ UpToSeparator(x) \in Texts
    BY <1>0, HeadedLine, UpToMore
  <2>4. PICK d \in Seq(Texts) : d = DataLines(ls)
    BY <2>1, DataLinesAre, ServerLinesAre
  <2>5. PICK l \in Texts : l = <<"data:">> \o x
    BY <1>0, <2>3, Headed
  <2>6. PICK p \in Seq(Texts) : p = NameLines(name) \o d
    BY <1>00, ConcatProperties
  <2>7. NameLines(name) \o DataLines(Append(ls, x)) = Append(p, l)
    <3>1. DataLines(Append(ls, x)) = Append(d, l)
      BY <2>1, <2>4, <2>5, DataLinesAre
    <3>2. NameLines(name) \o Append(d, l) = Append(NameLines(name) \o d, l)
      BY <1>00, ConcatAppend
    <3> QED BY <2>6, <3>1, <3>2
  <2>8. PICK u \in Texts :
          u = UpToSeparator(l) /\ u # <<>> /\ u[1] = "data:" /\ Tail(u) = UpToSeparator(x)
    <3>1. UpToSeparator(l) = <<"data:">> \o UpToSeparator(x)
      BY <1>0, <2>3, <2>5, UpToHeaded
    <3> QED BY <1>0, <2>3, <3>1, Headed
  <2>9. read_lines[CutLines(Append(p, l))] = read_line(read_lines[CutLines(p)], u)
    <3>1. PICK k \in Seq(Texts) : k = CutLines(p) /\ CutLines(Append(p, l)) = Append(k, u)
      BY <2>8, CutLinesAre
    <3> QED BY <3>1, ReadLines
  <2>10. read_lines[CutLines(p)] = [event |-> UpToSeparator(name), data |-> CutLines(ls)]
    BY <2>1, <2>4, <2>6
  <2>11. read_line(read_lines[CutLines(p)], u)
           = [event |-> UpToSeparator(name), data |-> Append(CutLines(ls), UpToSeparator(x))]
    <3>1. ASSUME NEW f PROVE read_line(f, u) = [event |-> f.event, data |-> Append(f.data, Tail(u))]
      <4>1. u[1] # "event:"
        BY <2>8
      <4> QED BY <2>8, <4>1 DEF read_line
    <3>2. PICK v, w : v = UpToSeparator(name) /\ w = CutLines(ls)
      OBVIOUS
    <3>3. read_line([event |-> v, data |-> w], u) = [event |-> v, data |-> Append(w, Tail(u))]
      <4>1. PICK f : f = [event |-> v, data |-> w]
        OBVIOUS
      <4>2. f.event = v /\ f.data = w
        BY <4>1
      <4>3. read_line(f, u) = [event |-> f.event, data |-> Append(f.data, Tail(u))]
        BY <3>1
      <4> QED BY <4>1, <4>2, <4>3
    <3> QED BY <2>8, <2>10, <3>2, <3>3
  <2>12. CutLines(Append(ls, x)) = Append(CutLines(ls), UpToSeparator(x))
    <3>1. ls \in Seq(Texts)
      <4>1. Inlines \subseteq Texts
        BY <1>0, HeadedLine
      <4> QED BY <2>1, <4>1, SeqMonotonic
    <3> QED BY <2>3, <3>1, CutLinesAre
  <2>13. Good(Append(ls, x))
    BY <2>7, <2>9, <2>11, <2>12
  <2> HIDE DEF Good
  <2> QED BY <2>2, <2>13
<1>3. T = Seq(Inlines)
  <2>1. T \in SUBSET Seq(Inlines)
    OBVIOUS
  <2> HIDE DEF T
  <2> QED BY <1>1, <1>2, <2>1, AppendInduction
<1>4. \A ls \in T : Good(ls)
  OBVIOUS
<1> HIDE DEF T
<1> QED BY <1>3, <1>4

\* The block of an item is read as what the item means.
LEMMA BlockMeans == \A item \in Items : parse_block(BlockOf(item)) = Meaning(item)
<1> SUFFICES ASSUME NEW item \in Items PROVE parse_block(BlockOf(item)) = Meaning(item)
  OBVIOUS
<1>1. PICK fields : fields = read_lines[CutLines(ItemLines(item))]
  OBVIOUS
<1>2. read_lines[splitlines[BlockOf(item)]] = fields
  BY <1>1, ItemLinesAre, ReadJoined DEF BlockOf
<1>3. parse_block(BlockOf(item)) =
        IF fields.data = <<>> THEN <<>>
        ELSE <<[event |-> fields.event, data |-> JoinLines(fields.data)]>>
  BY <1>2 DEF parse_block
<1>4. CASE item.comment
  <2>1. PICK l \in Texts : l = <<":">> \o <<"word">> /\ ItemLines(item) = Append(<<>>, l)
    <3>1. <<"word">> \in Texts /\ ":" \in Tokens
      BY TokensUsed, OneIsText
    <3>2. <<":">> \o <<"word">> \in Texts
      BY <3>1, Headed
    <3>3. ItemLines(item) = << <<":">> \o <<"word">> >>
      BY <1>4, ItemLinesAre
    <3>4. PICK l \in Texts : l = <<":">> \o <<"word">>
      BY <3>2
    <3>5. <<l>> = Append(<<>>, l)
      OBVIOUS
    <3> QED BY <3>3, <3>4, <3>5
  <2>2. PICK u \in Texts : u = UpToSeparator(l) /\ NoField(u)
    <3>1. <<"word">> \in Texts /\ ":" \in Tokens /\ UpToSeparator(<<"word">>) \in Texts
      BY TokensUsed, OneIsText, UpToMore
    <3>2. UpToSeparator(l) = <<":">> \o UpToSeparator(<<"word">>)
      BY <2>1, <3>1, UpToHeaded
    <3>3. UpToSeparator(l) \in Texts /\ UpToSeparator(l)[1] = ":"
      BY <3>1, <3>2, Headed
    <3>4. ":" \notin FieldNames
      BY DEF FieldNames
    <3> QED BY <3>3, <3>4 DEF NoField
  <2>3. fields = NoFields
    <3>1. <<>> \in Seq(Texts)
      OBVIOUS
    <3>2. CutLines(Append(<<>>, l)) = Append(<<>>, u)
      BY <2>2, <3>1, CutLinesAre
    <3>3. read_lines[Append(<<>>, u)] = read_lines[<<>>]
      BY <2>2, <3>1, ReadsOver
    <3> QED BY <1>1, <2>1, <3>2, <3>3, ReadLines
  <2> QED BY <1>3, <1>4, <2>3 DEF NoFields, Meaning
<1>5. CASE ~item.comment
  <2>1. item.name \in Inlines /\ item.lines \in Seq(Inlines)
    BY <1>5, ItemLinesAre
  <2>2. ItemLines(item) = NameLines(item.name) \o DataLines(item.lines)
    BY <1>5, ItemLinesAre
  <2>3. fields = [event |-> UpToSeparator(item.name), data |-> CutLines(item.lines)]
    BY <1>1, <2>1, <2>2, ReadEvent
  <2>4. CutLines(item.lines) = <<>> <=> item.lines = <<>>
    <3>1. Inlines \subseteq Texts
      <4>1. ":" \in LineHeads
        BY DEF LineHeads
      <4> QED BY <4>1, HeadedLine
    <3>2. item.lines \in Seq(Texts)
      BY <2>1, <3>1, SeqMonotonic
    <3>3. Len(CutLines(item.lines)) = Len(item.lines) /\ CutLines(item.lines) \in Seq(Texts)
      BY <3>2, CutLinesAre
    <3> QED BY <3>2, <3>3, EmptySeq
  <2> QED BY <1>3, <1>5, <2>3, <2>4 DEF Meaning, CutLines
<1>6. item.comment \in BOOLEAN
  BY ItemsAssumption
<1> QED BY <1>4, <1>5, <1>6

-----------------------------------------------------------------------------
(***************************************************************************)
(* Cut characters: blurred bytes give blurred parts, lines and events.     *)
(***************************************************************************)
\* A function of sequences that is found element by element, and one that is found piece
\* by piece.
ByElement(F, G, A, B) ==
  /\ F \in [Seq(A) -> Seq(B)] /\ G \in [A -> Seq(B)]
  /\ F[<<>>] = <<>>
  /\ \A s \in Seq(A) : \A x \in A : F[Append(s, x)] = F[s] \o G[x]

ByPiece(F, A) == \A s \in Seq(A) : \A u \in Seq(A) : F[s \o u] = F[s] \o F[u]

\* The one is the other.
LEMMA PieceByPiece ==
  ASSUME NEW A, NEW B, NEW F, NEW G, ByElement(F, G, A, B)
  PROVE  ByPiece(F, A)
<1> SUFFICES ASSUME NEW s \in Seq(A) PROVE \A u \in Seq(A) : F[s \o u] = F[s] \o F[u]
  BY DEF ByPiece
<1> DEFINE T == {u \in Seq(A) : F[s \o u] = F[s] \o F[u]}
<1>0. /\ F \in [Seq(A) -> Seq(B)] /\ G \in [A -> Seq(B)] /\ F[<<>>] = <<>>
  BY DEF ByElement
<1>1. <<>> \in T
  <2>1. s \o <<>> = s /\ F[s] \o <<>> = F[s] /\ <<>> \in Seq(A)
    BY <1>0, ConcatEmptySeq
  <2> QED BY <1>0, <2>1
<1>2. ASSUME NEW u \in T, NEW x \in A PROVE Append(u, x) \in T
  <2>1. u \in Seq(A) /\ F[s \o u] = F[s] \o F[u]
    OBVIOUS
  <2>2. s \o u \in Seq(A) /\ s \o Append(u, x) = Append(s \o u, x) /\ Append(u, x) \in Seq(A)
    BY <2>1, ConcatProperties, ConcatAppend, AppendFacts
  <2>3. F[s] \in Seq(B) /\ F[u] \in Seq(B) /\ G[x] \in Seq(B)
    BY <1>0, <2>1
  <2>4. (F[s] \o F[u]) \o G[x] = F[s] \o (F[u] \o G[x])
    <3>1. PICK a \in Seq(B), b \in Seq(B), c \in Seq(B) : a = F[s] /\ b = F[u] /\ c = G[x]
      BY <2>3
    <3>2. (a \o b) \o c = a \o (b \o c)
      BY ConcatAssociative
    <3> QED BY <3>1, <3>2
  <2>5. F[Append(s \o u, x)] = F[s \o u] \o G[x] /\ F[Append(u, x)] = F[u] \o G[x]
    BY <2>1, <2>2 DEF ByElement
  <2> QED BY <2>1, <2>2, <2>4, <2>5
<1>3. T = Seq(A)
  <2>1. T \in SUBSET Seq(A)
    OBVIOUS
  <2> HIDE DEF T
  <2> QED BY <1>1, <1>2, <2>1, AppendInduction
<1>4. \A u \in T : F[s \o u] = F[s] \o F[u]
  OBVIOUS
<1> HIDE DEF T
<1> QED BY <1>3, <1>4

\* A character cut in two.
blur(x) == IF x \in Halves THEN "FFFD" ELSE x

\* What the parser looks for is not cut.
LEMMA BlurKeeps ==
  \A x \in Tokens : /\ blur(x) \in Tokens
                    /\ blur(x) = "LF" <=> x = "LF"
                    /\ blur(x) = "CR" <=> x = "CR"
                    /\ blur(x) \in LineEnds <=> x \in LineEnds
                    /\ blur(x) = "event:" <=> x = "event:"
                    /\ blur(x) = "data:" <=> x = "data:"
<1>1. "FFFD" \in Tokens
  BY TokensUsed
<1> QED BY <1>1 DEF blur, Halves, LineEnds

\* Texts are blurred one character at a time.
LEMMA BlurredAre ==
  /\ Blurred(<<>>) = <<>>
  /\ \A t \in Texts : Blurred(t) \in Texts /\ Len(Blurred(t)) = Len(t)
  /\ \A t \in Texts : \A x \in Tokens : Blurred(Append(t, x)) = Append(Blurred(t), blur(x))
  /\ \A t, u \in Texts : Blurred(t \o u) = Blurred(t) \o Blurred(u)
<1> DEFINE g == [x \in Tokens |-> blur(x)]
           Map(s) == [i \in DOMAIN s |-> g[s[i]]]
<1>1. \A x \in Tokens : g[x] = blur(x)
  OBVIOUS
<1>2. g \in [Tokens -> Tokens]
  BY BlurKeeps
<1>3. ASSUME NEW s \in Texts PROVE Blurred(s) = Map(s)
  <2>1. \A i \in DOMAIN s : s[i] \in Tokens
    BY DEF Texts
  <2> QED BY <2>1 DEF Blurred, blur
<1> HIDE DEF g
<1>4. /\ Map(<<>>) = <<>>
      /\ \A s \in Seq(Tokens) : Map(s) \in Seq(Tokens) /\ Len(Map(s)) = Len(s)
      /\ \A s \in Seq(Tokens) : \A x \in Tokens : Map(Append(s, x)) = Append(Map(s), g[x])
  BY <1>2, Maps
<1> HIDE DEF Map
<1>7. ASSUME NEW t \in Texts, NEW x \in Tokens
      PROVE  Blurred(Append(t, x)) = Append(Blurred(t), blur(x))
  <2>1. Append(t, x) \in Texts
    BY TextsAre
  <2>2. Map(Append(t, x)) = Append(Map(t), g[x])
    BY <1>4 DEF Texts
  <2> QED BY <1>1, <1>3, <2>1, <2>2
<1>8. Blurred(<<>>) = <<>>
  BY <1>3, <1>4, TextsAre
<1>9. \A t \in Texts : Blurred(t) \in Texts /\ Len(Blurred(t)) = Len(t)
  BY <1>3, <1>4 DEF Texts
<1>10. \A t, u \in Texts : Blurred(t \o u) = Blurred(t) \o Blurred(u)
  <2> DEFINE F == [t \in Texts |-> Blurred(t)]
             G == [x \in Tokens |-> <<blur(x)>>]
  <2>1. F \in [Texts -> Texts] /\ \A t \in Texts : F[t] = Blurred(t)
    BY <1>9
  <2>2. G \in [Tokens -> Texts] /\ \A x \in Tokens : G[x] = <<blur(x)>>
    BY BlurKeeps, OneIsText
  <2> HIDE DEF F, G
  <2>3. ASSUME NEW t \in Texts, NEW x \in Tokens PROVE F[Append(t, x)] = F[t] \o G[x]
    <3>1. Append(t, x) \in Texts
      BY TextsAre
    <3>2. PICK y \in Tokens, u \in Texts : y = blur(x) /\ u = Blurred(t)
      BY <1>9, BlurKeeps
    <3>3. u \o <<y>> = Append(u, y)
      BY OneIsText
    <3> QED BY <1>7, <2>1, <2>2, <3>1, <3>2, <3>3
  <2>4. F[<<>>] = <<>>
    BY <1>8, <2>1, TextsAre
  <2>5. \A t, u \in Texts : F[t \o u] = F[t] \o F[u]
    <3>1. \A t \in Texts : \A x \in Tokens : F[Append(t, x)] = F[t] \o G[x]
      BY <2>3
    <3>2. ByElement(F, G, Tokens, Tokens)
      BY <2>1, <2>2, <2>4, <3>1, Zenon DEF ByElement, Texts
    <3>3. ByPiece(F, Tokens)
      BY <3>2, PieceByPiece
    <3> QED BY <3>3 DEF ByPiece, Texts
  <2> QED BY <2>1, <2>5, ConcatType
<1> QED BY <1>7, <1>8, <1>9, <1>10

\* Parts, each blurred.
BlurredAll(parts) == [i \in DOMAIN parts |-> Blurred(parts[i])]

\* One at a time.
LEMMA BlurredAllAre ==
  /\ BlurredAll(<<>>) = <<>>
  /\ \A s \in Seq(Texts) : BlurredAll(s) \in Seq(Texts) /\ Len(BlurredAll(s)) = Len(s)
  /\ \A s \in Seq(Texts) : \A t \in Texts : BlurredAll(Append(s, t))
       = Append(BlurredAll(s), Blurred(t))
<1> DEFINE g == [x \in Texts |-> Blurred(x)]
           Map(s) == [i \in DOMAIN s |-> g[s[i]]]
<1>1. \A x \in Texts : g[x] = Blurred(x)
  OBVIOUS
<1>2. g \in [Texts -> Texts]
  BY BlurredAre
<1>3. ASSUME NEW s \in Seq(Texts) PROVE BlurredAll(s) = Map(s)
  <2>1. \A i \in DOMAIN s : s[i] \in Texts
    OBVIOUS
  <2> QED BY <2>1 DEF BlurredAll
<1> HIDE DEF g
<1>4. /\ Map(<<>>) = <<>>
      /\ \A s \in Seq(Texts) : Map(s) \in Seq(Texts) /\ Len(Map(s)) = Len(s)
      /\ \A s \in Seq(Texts) : \A x \in Texts : Map(Append(s, x)) = Append(Map(s), g[x])
  BY <1>2, Maps
<1> HIDE DEF Map
<1>5. \A s \in Seq(Texts) : \A x \in Texts : Append(s, x) \in Seq(Texts)
  BY AppendFacts
<1>6. <<>> \in Seq(Texts)
  OBVIOUS
<1> QED BY <1>1, <1>3, <1>4, <1>5, <1>6

\* The end of a text is blurred as the text is.
LEMMA BlurredEnd ==
  ASSUME NEW c \in Texts
  PROVE  /\ Blurred(c) \in Texts /\ (Blurred(c) = <<>> <=> c = <<>>)
         /\ c # <<>> => /\ Last(Blurred(c)) = blur(Last(c))
                        /\ Front(Blurred(c)) = Blurred(Front(c)) /\ Front(c) \in Texts
<1>1. CASE c = <<>>
  BY <1>1, BlurredAre
<1>2. CASE c # <<>>
  <2>1. PICK d \in Texts, x \in Tokens : c = Append(d, x) /\ Front(c) = d /\ Last(c) = x
    BY <1>2, TextsAre
  <2>2. PICK b \in Texts, y \in Tokens : b = Blurred(d) /\ y = blur(x)
    BY BlurredAre, BlurKeeps
  <2>3. Blurred(c) = Append(b, y)
    BY <2>1, <2>2, BlurredAre
  <2>4. /\ Append(b, y) \in Texts /\ Append(b, y) # <<>>
        /\ Front(Append(b, y)) = b /\ Last(Append(b, y)) = y
    BY TextsAre
  <2> QED BY <1>2, <2>1, <2>2, <2>3, <2>4
<1> QED BY <1>1, <1>2

\* A blurred byte does to blurred parts what the byte does to the parts.
LEMMA BlurFeed ==
  ASSUME NEW parts \in Partings, NEW x \in Tokens
  PROVE  BlurredAll(feed(parts, x)) = feed(BlurredAll(parts), blur(x))
<1>1. PICK q \in Seq(Texts), c \in Texts : parts = Append(q, c)
  BY PartingsAre
<1>2. PICK bq \in Seq(Texts), bc \in Texts, bx \in Tokens :
        bq = BlurredAll(q) /\ bc = Blurred(c) /\ bx = blur(x)
  BY BlurredAllAre, BlurredAre, BlurKeeps
<1>3. BlurredAll(parts) = Append(bq, bc)
  BY <1>1, <1>2, BlurredAllAre
<1>4. PICK d \in Texts, bd \in Texts : d = ready(c, x) /\ bd = ready(bc, bx)
  BY FeedIs
<1>5. bd = Blurred(d)
  <2>1. bx = "LF" <=> x = "LF"
    BY <1>2, BlurKeeps
  <2>2. stripped(bc) = Blurred(stripped(c))
    <3>1. CASE c = <<>>
      BY <1>2, <3>1, BlurredEnd DEF stripped
    <3>2. CASE c # <<>>
      <4>1. Last(c) \in Tokens
        BY <3>2, TextsAre
      <4>2. Last(bc) = "CR" <=> Last(c) = "CR"
        BY <1>2, <3>2, <4>1, BlurredEnd, BlurKeeps
      <4> QED BY <1>2, <3>2, <4>2, BlurredEnd DEF stripped
    <3> QED BY <3>1, <3>2
  <2> QED BY <1>2, <1>4, <2>1, <2>2 DEF ready
<1>6. EndsPart(bd, bx) <=> EndsPart(d, x)
  <2>1. d # <<>> => Last(d) \in Tokens
    BY TextsAre
  <2> QED BY <1>2, <1>5, <2>1, BlurredEnd, BlurKeeps DEF EndsPart
<1>7. CASE EndsPart(d, x)
  <2>1. PICK f \in Texts : f = Front(d) /\ Blurred(f) = Front(bd) /\ Blurred(f) \in Texts
    BY <1>5, <1>7, BlurredEnd, BlurredAre DEF EndsPart
  <2>2. feed(Append(q, c), x) = Append(Append(q, f), <<>>)
    BY <1>4, <1>7, <2>1, FeedIs
  <2>3. feed(Append(bq, bc), bx) = Append(Append(bq, Blurred(f)), <<>>)
    BY <1>4, <1>6, <1>7, <2>1, FeedIs
  <2>4. BlurredAll(Append(Append(q, f), <<>>)) = Append(Append(bq, Blurred(f)), <<>>)
    <3>1. Append(q, f) \in Seq(Texts) /\ <<>> \in Texts
      BY TextsAre, AppendFacts
    <3> QED BY <1>2, <3>1, BlurredAllAre, BlurredAre
  <2> QED BY <1>1, <1>2, <1>3, <2>2, <2>3, <2>4
<1>8. CASE ~EndsPart(d, x)
  <2>1. PICK f \in Texts : f = Append(d, x) /\ Blurred(f) = Append(bd, bx)
    BY <1>2, <1>5, TextsAre, BlurredAre
  <2>2. feed(Append(q, c), x) = Append(q, f)
    BY <1>4, <1>8, <2>1, FeedIs
  <2>3. feed(Append(bq, bc), bx) = Append(bq, Blurred(f))
    BY <1>4, <1>6, <1>8, <2>1, FeedIs
  <2>4. BlurredAll(Append(q, f)) = Append(bq, Blurred(f))
    BY <1>2, BlurredAllAre
  <2> QED BY <1>1, <1>2, <1>3, <2>2, <2>3, <2>4
<1> QED BY <1>7, <1>8

\* Blurred texts split into the blurred parts.
LEMMA BlurSplit ==
  \A t \in Texts : /\ Front(Split(Blurred(t))) = BlurredAll(Front(Split(t)))
                   /\ Last(Split(Blurred(t))) = Blurred(Last(Split(t)))
<1> DEFINE T == {t \in Texts : BlurredAll(Split(t)) = Split(Blurred(t))}
<1>1. <<>> \in T
  <2>1. <<>> \in Texts /\ <<>> \in Seq(Texts) /\ << <<>> >> = Append(<<>>, <<>>)
    BY TextsAre
  <2>2. BlurredAll(Append(<<>>, <<>>)) = Append(<<>>, <<>>)
    BY <2>1, BlurredAllAre, BlurredAre
  <2>3. Split(<<>>) = Append(<<>>, <<>>)
    BY <2>1, Feed
  <2> QED BY <2>1, <2>2, <2>3, BlurredAre
<1>2. ASSUME NEW t \in T, NEW x \in Tokens PROVE Append(t, x) \in T
  <2>1. t \in Texts /\ Append(t, x) \in Texts /\ BlurredAll(Split(t)) = Split(Blurred(t))
    BY TextsAre
  <2> HIDE DEF T
  <2>2. Split(t) \in Partings /\ Split(Append(t, x)) = feed(Split(t), x)
    BY <2>1, Feed
  <2>3. Blurred(t) \in Texts /\ blur(x) \in Tokens
          /\ Blurred(Append(t, x)) = Append(Blurred(t), blur(x))
    <3>1. Blurred(t) \in Texts /\ Blurred(Append(t, x)) = Append(Blurred(t), blur(x))
      BY <2>1, BlurredAre
    <3> QED BY <3>1, BlurKeeps
  <2>4. Split(Append(Blurred(t), blur(x))) = feed(Split(Blurred(t)), blur(x))
    BY <2>3, Feed
  <2>5. BlurredAll(feed(Split(t), x)) = feed(BlurredAll(Split(t)), blur(x))
    BY <2>2, BlurFeed
  <2> QED BY <2>1, <2>2, <2>3, <2>4, <2>5 DEF T
<1>3. T = Texts
  <2>1. T \in SUBSET Seq(Tokens)
    BY DEF Texts
  <2> HIDE DEF T
  <2> QED BY <1>1, <1>2, <2>1, AppendInduction DEF Texts
<1>4. \A t \in T : BlurredAll(Split(t)) = Split(Blurred(t))
  OBVIOUS
<1> HIDE DEF T
<1>5. ASSUME NEW t \in Texts
      PROVE  /\ Front(Split(Blurred(t))) = BlurredAll(Front(Split(t)))
             /\ Last(Split(Blurred(t))) = Blurred(Last(Split(t)))
  <2>1. PICK q \in Seq(Texts), c \in Texts : Split(t) = Append(q, c)
    BY Feed, PartingsAre
  <2>2. PICK bq \in Seq(Texts), bc \in Texts : bq = BlurredAll(q) /\ bc = Blurred(c)
    BY BlurredAllAre, BlurredAre
  <2>3. Split(Blurred(t)) = Append(bq, bc)
    <3>1. BlurredAll(Append(q, c)) = Append(bq, bc)
      BY <2>2, BlurredAllAre
    <3> QED BY <1>3, <1>4, <2>1, <3>1
  <2>4. Front(Append(q, c)) = q /\ Last(Append(q, c)) = c
    BY AppendPart
  <2>5. Front(Append(bq, bc)) = bq /\ Last(Append(bq, bc)) = bc
    BY AppendPart
  <2> QED BY <2>1, <2>2, <2>3, <2>4, <2>5
<1> QED BY <1>5

\* Blurred texts have the blurred lines.
LEMMA BlurLines ==
  \A t \in Texts : /\ splitlines[t] \in Partings
                   /\ splitlines[Blurred(t)] = BlurredAll(splitlines[t])
<1> DEFINE Good(t) == /\ splitlines[t] \in Partings
                      /\ splitlines[Blurred(t)] = BlurredAll(splitlines[t])
           T == {t \in Texts : Good(t)}
<1>1. <<>> \in T
  <2>1. <<>> \in Texts /\ <<>> \in Seq(Texts) /\ << <<>> >> = Append(<<>>, <<>>)
    BY TextsAre
  <2>2. BlurredAll(Append(<<>>, <<>>)) = Append(<<>>, <<>>)
    BY <2>1, BlurredAllAre, BlurredAre
  <2>3. splitlines[<<>>] = Append(<<>>, <<>>) /\ Append(<<>>, <<>>) \in Partings
    BY <2>1, SplitLines, AppendPart
  <2>4. Good(<<>>)
    BY <2>2, <2>3, BlurredAre
  <2> HIDE DEF Good
  <2> QED BY <2>1, <2>4
<1>2. ASSUME NEW t \in T, NEW x \in Tokens PROVE Append(t, x) \in T
  <2>1. t \in Texts /\ Append(t, x) \in Texts /\ Good(t)
    BY TextsAre
  <2> HIDE DEF T
  <2>2. PICK q \in Seq(Texts), c \in Texts : splitlines[t] = Append(q, c)
    BY <2>1, PartingsAre
  <2>3. PICK bq \in Seq(Texts), bc \in Texts, bx \in Tokens :
          bq = BlurredAll(q) /\ bc = Blurred(c) /\ bx = blur(x)
    BY BlurredAllAre, BlurredAre, BlurKeeps
  <2>4. splitlines[Blurred(t)] = Append(bq, bc)
    <3>1. BlurredAll(Append(q, c)) = Append(bq, bc)
      BY <2>3, BlurredAllAre
    <3> QED BY <2>1, <2>2, <3>1
  <2>5. splitlines[Append(t, x)] = put_in_line(Append(q, c), x)
    BY <2>1, <2>2, SplitLines
  <2>6. splitlines[Blurred(Append(t, x))] = put_in_line(Append(bq, bc), bx)
    <3>1. PICK b \in Texts : b = Blurred(t)
      BY <2>1, BlurredAre
    <3>2. Blurred(Append(t, x)) = Append(b, bx)
      BY <2>1, <2>3, <3>1, BlurredAre
    <3>3. splitlines[Append(b, bx)] = put_in_line(splitlines[b], bx)
      BY SplitLines
    <3> QED BY <2>4, <3>1, <3>2, <3>3
  <2>7. CASE x \in LineEnds
    <3>1. bx \in LineEnds
      BY <2>3, <2>7, BlurKeeps
    <3>0. /\ Append(q, c) \in Seq(Texts) /\ Append(bq, bc) \in Seq(Texts)
          /\ BlurredAll(Append(q, c)) = Append(bq, bc)
      <4>1. Append(q, c) \in Seq(Texts) /\ Append(bq, bc) \in Seq(Texts)
        BY AppendFacts
      <4>2. BlurredAll(Append(q, c)) = Append(bq, bc)
        BY <2>3, BlurredAllAre
      <4> QED BY <4>1, <4>2
    <3>2. PICK p \in Seq(Texts), bp \in Seq(Texts) :
            p = Append(q, c) /\ bp = Append(bq, bc) /\ bp = BlurredAll(p)
      BY <3>0
    <3>3. splitlines[Append(t, x)] = Append(p, <<>>)
      <4>1. put_in_line(Append(q, c), x) = Append(Append(q, c), <<>>)
        BY <2>7, PutInLine
      <4> QED BY <2>5, <3>2, <4>1
    <3>4. splitlines[Blurred(Append(t, x))] = Append(bp, <<>>)
      <4>1. put_in_line(Append(bq, bc), bx) = Append(Append(bq, bc), <<>>)
        BY <3>1, PutInLine
      <4> QED BY <2>6, <3>2, <4>1
    <3>5. BlurredAll(Append(p, <<>>)) = Append(bp, <<>>) /\ Append(p, <<>>) \in Partings
      <4>1. <<>> \in Texts /\ Blurred(<<>>) = <<>>
        BY TextsAre, BlurredAre
      <4>2. BlurredAll(Append(p, <<>>)) = Append(bp, <<>>)
        BY <3>2, <4>1, BlurredAllAre
      <4>3. Append(p, <<>>) \in Partings
        BY <4>1, AppendPart
      <4> QED BY <4>2, <4>3
    <3>6. Good(Append(t, x))
      BY <3>3, <3>4, <3>5
    <3> HIDE DEF Good
    <3> QED BY <2>1, <3>6 DEF T
  <2>8. CASE x \notin LineEnds
    <3>1. bx \notin LineEnds
      BY <2>3, <2>8, BlurKeeps
    <3>0. Append(c, x) \in Texts /\ Append(bc, bx) \in Texts
            /\ Blurred(Append(c, x)) = Append(bc, bx)
      <4>1. Append(c, x) \in Texts /\ Append(bc, bx) \in Texts
        BY TextsAre
      <4>2. Blurred(Append(c, x)) = Append(bc, bx)
        BY <2>3, BlurredAre
      <4> QED BY <4>1, <4>2
    <3>2. PICK d \in Texts, bd \in Texts : d = Append(c, x) /\ bd = Append(bc, bx)
            /\ bd = Blurred(d)
      BY <3>0
    <3>3. splitlines[Append(t, x)] = Append(q, d)
      <4>1. put_in_line(Append(q, c), x) = Append(q, Append(c, x))
        BY <2>8, PutInLine
      <4> QED BY <2>5, <3>2, <4>1
    <3>4. splitlines[Blurred(Append(t, x))] = Append(bq, bd)
      <4>1. put_in_line(Append(bq, bc), bx) = Append(bq, Append(bc, bx))
        BY <3>1, PutInLine
      <4> QED BY <2>6, <3>2, <4>1
    <3>5. BlurredAll(Append(q, d)) = Append(bq, bd) /\ Append(q, d) \in Partings
      <4>1. BlurredAll(Append(q, d)) = Append(bq, bd)
        BY <2>3, <3>2, BlurredAllAre
      <4>2. Append(q, d) \in Partings
        BY AppendPart
      <4> QED BY <4>1, <4>2
    <3>6. Good(Append(t, x))
      BY <3>3, <3>4, <3>5
    <3> HIDE DEF Good
    <3> QED BY <2>1, <3>6 DEF T
  <2> QED BY <2>7, <2>8
<1>3. T = Texts
  <2>1. T \in SUBSET Seq(Tokens)
    BY DEF Texts
  <2> HIDE DEF T
  <2> QED BY <1>1, <1>2, <2>1, AppendInduction DEF Texts
<1>4. \A t \in T : Good(t)
  OBVIOUS
<1> HIDE DEF T
<1> QED BY <1>3, <1>4

FieldValues == [event : Texts, data : Seq(Texts)]

BlurFields(f) == [event |-> Blurred(f.event), data |-> BlurredAll(f.data)]

\* The head and the rest of a blurred line.
LEMMA BlurredHead ==
  ASSUME NEW l \in Texts, l # <<>>
  PROVE  /\ l[1] \in Tokens /\ Tail(l) \in Texts
         /\ Blurred(l) # <<>> /\ Blurred(l)[1] = blur(l[1]) /\ Tail(Blurred(l)) = Blurred(Tail(l))
<1>1. PICK n \in Nat : n = Len(l) /\ n # 0
  BY EmptySeq, LenProperties DEF Texts
<1>2. \A s \in Texts : \A i \in 1..Len(s) : s[i] \in Tokens /\ Blurred(s)[i] = blur(s[i])
  BY DEF Blurred, blur, Texts
<1>3. ASSUME NEW s \in Texts, Len(s) = n
      PROVE  /\ Tail(s) \in Texts /\ Len(Tail(s)) = n - 1
             /\ \A i \in 1..n - 1 : Tail(s)[i] = s[i + 1]
  <2>1. s # <<>> /\ s \in Seq(Tokens)
    BY <1>1, <1>3 DEF Texts
  <2>2. Tail(s) \in Seq(Tokens) /\ Len(Tail(s)) = Len(s) - 1
          /\ \A i \in 1..Len(Tail(s)) : Tail(s)[i] = s[i + 1]
    BY <2>1, HeadTailProperties
  <2> QED BY <1>3, <2>2 DEF Texts
<1>4. 1 \in 1..n
  BY <1>1
<1>5. PICK b \in Texts : b = Blurred(l) /\ Len(b) = n
  BY <1>1, BlurredAre
<1>6. PICK t \in Texts : t = Tail(l) /\ Len(t) = n - 1 /\ \A i \in 1..n - 1 : t[i] = l[i + 1]
  BY <1>1, <1>3
<1>7. b # <<>> /\ l[1] \in Tokens /\ b[1] = blur(l[1])
  BY <1>1, <1>2, <1>4, <1>5, EmptySeq
<1>8. Tail(b) = Blurred(t)
  <2>1. Blurred(t) \in Texts /\ Len(Blurred(t)) = n - 1
    BY <1>6, BlurredAre
  <2>2. Tail(b) \in Texts /\ Len(Tail(b)) = n - 1 /\ \A i \in 1..n - 1 : Tail(b)[i] = b[i + 1]
    BY <1>3, <1>5
  <2>3. \A i \in 1..n - 1 : Tail(b)[i] = Blurred(t)[i]
    <3> TAKE i \in 1..n - 1
    <3>1. i + 1 \in 1..n
      BY <1>1
    <3>2. b[i + 1] = blur(l[i + 1]) /\ Blurred(t)[i] = blur(t[i])
      BY <1>1, <1>2, <1>5, <1>6, <3>1
    <3> QED BY <1>6, <2>2, <3>2
  <2> QED BY <2>1, <2>2, <2>3, SeqEqual DEF Texts
<1> QED BY <1>5, <1>6, <1>7, <1>8

\* A blurred line is read into blurred fields.
LEMMA BlurReadLine ==
  ASSUME NEW f \in FieldValues, NEW l \in Texts
  PROVE  read_line(f, l) \in FieldValues
           /\ read_line(BlurFields(f), Blurred(l)) = BlurFields(read_line(f, l))
<1>1. PICK e \in Texts, d \in Seq(Texts) : f = [event |-> e, data |-> d] /\ f.event = e
        /\ f.data = d
  BY DEF FieldValues
<1>2. PICK be \in Texts, bd \in Seq(Texts) : be = Blurred(e) /\ bd = BlurredAll(d)
  BY BlurredAre, BlurredAllAre
<1>3. PICK bf : bf = BlurFields(f) /\ bf.event = be /\ bf.data = bd
  <2>1. BlurFields(f) = [event |-> be, data |-> bd]
    BY <1>1, <1>2 DEF BlurFields
  <2> QED BY <2>1
<1>4. CASE l = <<>>
  BY <1>3, <1>4, BlurredAre DEF read_line
<1>5. CASE l # <<>>
  <2>1. PICK t \in Texts, h \in Tokens, bl \in Texts :
          /\ t = Tail(l) /\ h = l[1] /\ bl = Blurred(l)
          /\ bl # <<>> /\ bl[1] = blur(h) /\ Tail(bl) = Blurred(t)
    <3>1. /\ l[1] \in Tokens /\ Tail(l) \in Texts
          /\ Blurred(l) # <<>> /\ Blurred(l)[1] = blur(l[1]) /\ Tail(Blurred(l)) = Blurred(Tail(l))
      BY <1>5, BlurredHead
    <3>2. Blurred(l) \in Texts
      BY BlurredAre
    <3> QED BY <3>1, <3>2
  <2>2. (bl[1] = "event:" <=> h = "event:") /\ (bl[1] = "data:" <=> h = "data:")
    BY <2>1, BlurKeeps
  <2>3. CASE h = "event:"
    <3>1. read_line(f, l) = [event |-> t, data |-> d]
      BY <1>1, <1>5, <2>1, <2>3 DEF read_line
    <3>2. read_line(bf, bl) = [event |-> Blurred(t), data |-> bd]
      BY <1>3, <2>1, <2>2, <2>3 DEF read_line
    <3> QED BY <1>2, <1>3, <2>1, <3>1, <3>2 DEF FieldValues, BlurFields
  <2>4. CASE h = "data:"
    <3>1. read_line(f, l) = [event |-> e, data |-> Append(d, t)]
      BY <1>1, <1>5, <2>1, <2>4 DEF read_line
    <3>2. read_line(bf, bl) = [event |-> be, data |-> Append(bd, Blurred(t))]
      BY <1>3, <2>1, <2>2, <2>4 DEF read_line
    <3>3. Append(d, t) \in Seq(Texts) /\ BlurredAll(Append(d, t)) = Append(bd, Blurred(t))
      BY <1>2, AppendFacts, BlurredAllAre
    <3>4. PICK g \in Seq(Texts), bg \in Seq(Texts) :
            /\ g = Append(d, t) /\ bg = Append(bd, Blurred(t)) /\ bg = BlurredAll(g)
      <4>1. Append(bd, Blurred(t)) \in Seq(Texts)
        BY <3>3, BlurredAllAre
      <4> QED BY <3>3, <4>1
    <3>5. PICK r \in FieldValues : r = read_line(f, l) /\ r.event = e /\ r.data = g
      <4>1. read_line(f, l) = [event |-> e, data |-> g]
        BY <3>1, <3>4
      <4>2. [event |-> e, data |-> g] \in FieldValues
        BY DEF FieldValues
      <4> QED BY <4>1, <4>2
    <3>6. BlurFields(r) = [event |-> be, data |-> bg]
      BY <1>2, <3>4, <3>5 DEF BlurFields
    <3> QED BY <1>3, <2>1, <3>2, <3>4, <3>5, <3>6
  <2>5. CASE h # "event:" /\ h # "data:"
    <3>1. read_line(f, l) = f
      BY <1>5, <2>1, <2>5 DEF read_line
    <3>2. read_line(bf, bl) = bf
      BY <2>1, <2>2, <2>5 DEF read_line
    <3> QED BY <1>3, <2>1, <3>1, <3>2
  <2> QED BY <2>3, <2>4, <2>5
<1> QED BY <1>4, <1>5

\* Blurred lines are read into blurred fields.
LEMMA BlurRead ==
  \A ls \in Seq(Texts) :
    read_lines[ls] \in FieldValues /\ read_lines[BlurredAll(ls)] = BlurFields(read_lines[ls])
<1> DEFINE Good(ls) ==
             read_lines[ls] \in FieldValues
               /\ read_lines[BlurredAll(ls)] = BlurFields(read_lines[ls])
           T == {ls \in Seq(Texts) : Good(ls)}
<1>1. <<>> \in T
  <2>1. <<>> \in Seq(Texts) /\ BlurredAll(<<>>) = <<>> /\ read_lines[<<>>] = NoFields
    BY BlurredAllAre, ReadLines
  <2>2. NoFields \in FieldValues /\ BlurFields(NoFields) = NoFields
    <3>1. <<>> \in Texts /\ <<>> \in Seq(Texts)
      BY TextsAre
    <3> QED BY <3>1, BlurredAre, BlurredAllAre DEF NoFields, FieldValues, BlurFields
  <2>3. Good(<<>>)
    BY <2>1, <2>2
  <2> HIDE DEF Good
  <2> QED BY <2>1, <2>3
<1>2. ASSUME NEW ls \in T, NEW l \in Texts PROVE Append(ls, l) \in T
  <2>1. ls \in Seq(Texts) /\ Good(ls)
    OBVIOUS
  <2> HIDE DEF T
  <2>2. PICK f \in FieldValues : f = read_lines[ls] /\ read_lines[BlurredAll(ls)] = BlurFields(f)
    BY <2>1
  <2>3. PICK bs \in Seq(Texts), bl \in Texts : bs = BlurredAll(ls) /\ bl = Blurred(l)
    BY <2>1, BlurredAllAre, BlurredAre
  <2>4. read_lines[Append(ls, l)] = read_line(f, l)
    BY <2>1, <2>2, ReadLines
  <2>5. read_lines[Append(bs, bl)] = read_line(BlurFields(f), bl)
    BY <2>2, <2>3, ReadLines
  <2>6. BlurredAll(Append(ls, l)) = Append(bs, bl)
    BY <2>1, <2>3, BlurredAllAre
  <2>7. Good(Append(ls, l))
    BY <2>3, <2>4, <2>5, <2>6, BlurReadLine
  <2>8. Append(ls, l) \in Seq(Texts)
    BY <2>1, AppendFacts
  <2> HIDE DEF Good
  <2> QED BY <2>7, <2>8 DEF T
<1>3. T = Seq(Texts)
  <2>1. T \in SUBSET Seq(Texts)
    OBVIOUS
  <2> HIDE DEF T
  <2> QED BY <1>1, <1>2, <2>1, AppendInduction
<1>4. \A ls \in T : Good(ls)
  OBVIOUS
<1> HIDE DEF T
<1> QED BY <1>3, <1>4

\* Blurred lines put together are the blurred text.
LEMMA BlurJoin == \A ls \in Seq(Texts) : JoinLines(BlurredAll(ls)) = Blurred(JoinLines(ls))
<1> DEFINE Good(ls) == JoinLines(BlurredAll(ls)) = Blurred(JoinLines(ls))
           T == {ls \in Seq(Texts) : Good(ls)}
<1>0. <<"LF">> \in Texts /\ Blurred(<<"LF">>) = <<"LF">>
  <2>1. "LF" \in Tokens /\ <<>> \in Texts /\ <<"LF">> = Append(<<>>, "LF")
    BY TokensUsed, TextsAre
  <2>2. blur("LF") = "LF"
    BY <2>1, BlurKeeps
  <2>3. Blurred(Append(<<>>, "LF")) = Append(<<>>, "LF")
    BY <2>1, <2>2, BlurredAre
  <2> QED BY <2>1, <2>3, OneIsText
<1>1. <<>> \in T
  <2>1. <<>> \in Seq(Texts)
    OBVIOUS
  <2>2. Good(<<>>)
    BY BlurredAllAre, Joined, BlurredAre
  <2> QED BY <2>1, <2>2
<1>2. ASSUME NEW ls \in T, NEW l \in Texts PROVE Append(ls, l) \in T
  <2>1. ls \in Seq(Texts) /\ Good(ls)
    OBVIOUS
  <2> HIDE DEF T
  <2>2. PICK bs \in Seq(Texts), bl \in Texts :
          bs = BlurredAll(ls) /\ bl = Blurred(l) /\ Len(bs) = Len(ls)
    BY <2>1, BlurredAllAre, BlurredAre
  <2>3. PICK j \in Texts, bj \in Texts : j = JoinLines(ls) /\ bj = Blurred(j) /\ bj = JoinLines(bs)
    <3>1. JoinLines(ls) \in Texts
      BY <2>1, Joined
    <3>2. Blurred(JoinLines(ls)) \in Texts
      BY <3>1, BlurredAre
    <3> QED BY <2>1, <2>2, <3>1, <3>2
  <2>4. BlurredAll(Append(ls, l)) = Append(bs, bl)
    BY <2>1, <2>2, BlurredAllAre
  <2>5. bs = <<>> <=> ls = <<>>
    BY <2>1, <2>2, EmptySeq
  <2>6. ASSUME ls = <<>> PROVE Good(Append(ls, l))
    <3>1. JoinLines(Append(ls, l)) = l
      BY <2>1, <2>6, Joined
    <3>2. JoinLines(Append(bs, bl)) = bl
      BY <2>5, <2>6, Joined
    <3> QED BY <2>2, <2>4, <3>1, <3>2
  <2>7. ASSUME ls # <<>> PROVE Good(Append(ls, l))
    <3>1. JoinLines(Append(ls, l)) = j \o (<<"LF">> \o l)
      BY <2>1, <2>3, <2>7, Joined
    <3>2. JoinLines(Append(bs, bl)) = bj \o (<<"LF">> \o bl)
      BY <2>3, <2>5, <2>7, Joined
    <3>3. PICK e \in Texts : e = <<"LF">> \o l /\ Blurred(e) = <<"LF">> \o bl
      <4>1. PICK lf \in Texts : lf = <<"LF">> /\ Blurred(lf) = lf
        BY <1>0
      <4>2. lf \o l \in Texts
        BY ConcatType
      <4>3. Blurred(lf \o l) = Blurred(lf) \o Blurred(l)
        BY BlurredAre
      <4> QED BY <2>2, <4>1, <4>2, <4>3
    <3>4. Blurred(j \o e) = bj \o Blurred(e)
      <4>1. Blurred(j \o e) = Blurred(j) \o Blurred(e)
        BY BlurredAre
      <4> QED BY <2>3, <4>1
    <3> QED BY <2>4, <3>1, <3>2, <3>3, <3>4
  <2>9. Append(ls, l) \in Seq(Texts)
    BY <2>1, AppendFacts
  <2>8. Good(Append(ls, l))
    BY <2>6, <2>7
  <2> HIDE DEF Good
  <2> QED BY <2>8, <2>9 DEF T
<1>3. T = Seq(Texts)
  <2>1. T \in SUBSET Seq(Texts)
    OBVIOUS
  <2> HIDE DEF T
  <2> QED BY <1>1, <1>2, <2>1, AppendInduction
<1>4. \A ls \in T : Good(ls)
  OBVIOUS
<1> HIDE DEF T
<1> QED BY <1>3, <1>4

Events == [event : Texts, data : Texts]

BlurEvent(e) == [event |-> Blurred(e.event), data |-> Blurred(e.data)]

\* An event blurred is an event.
LEMMA BlurEventIs == \A e \in Events : BlurEvent(e) \in Events
<1> TAKE e \in Events
<1>1. e.event \in Texts /\ e.data \in Texts
  BY DEF Events
<1>2. Blurred(e.event) \in Texts /\ Blurred(e.data) \in Texts
  BY <1>1, BlurredAre
<1> QED BY <1>2 DEF Events, BlurEvent

\* Events are seen one at a time.
LEMMA SeenAre ==
  /\ Seen(<<>>) = <<>>
  /\ \A s \in Seq(Events) : Seen(s) \in Seq(Events) /\ Len(Seen(s)) = Len(s)
  /\ \A s \in Seq(Events) : \A e \in Events : Seen(Append(s, e)) = Append(Seen(s), BlurEvent(e))
<1> DEFINE g == [x \in Events |-> BlurEvent(x)]
           Map(s) == [i \in DOMAIN s |-> g[s[i]]]
<1>1. \A x \in Events : g[x] = BlurEvent(x)
  OBVIOUS
<1>2. g \in [Events -> Events]
  BY BlurEventIs
<1>3. ASSUME NEW s \in Seq(Events) PROVE Seen(s) = Map(s)
  <2>1. \A i \in DOMAIN s : s[i] \in Events
    OBVIOUS
  <2>2. \A i \in DOMAIN s : g[s[i]] = [event |-> Blurred(s[i].event), data |-> Blurred(s[i].data)]
    BY <1>1, <2>1 DEF BlurEvent
  <2> HIDE DEF g
  <2> QED BY <2>2 DEF Seen
<1> HIDE DEF g
<1>4. /\ Map(<<>>) = <<>>
      /\ \A s \in Seq(Events) : Map(s) \in Seq(Events) /\ Len(Map(s)) = Len(s)
      /\ \A s \in Seq(Events) : \A x \in Events : Map(Append(s, x)) = Append(Map(s), g[x])
  BY <1>2, Maps
<1> HIDE DEF Map
<1>5. \A s \in Seq(Events) : \A x \in Events : Append(s, x) \in Seq(Events)
  BY AppendFacts
<1>6. <<>> \in Seq(Events)
  OBVIOUS
<1> QED BY <1>1, <1>3, <1>4, <1>5, <1>6

\* Piece by piece.
LEMMA SeenConcat ==
  \A s \in Seq(Events) : \A u \in Seq(Events) : Seen(s \o u) = Seen(s) \o Seen(u)
<1> DEFINE F == [s \in Seq(Events) |-> Seen(s)]
           G == [x \in Events |-> <<BlurEvent(x)>>]
<1>1. F \in [Seq(Events) -> Seq(Events)] /\ \A s \in Seq(Events) : F[s] = Seen(s)
  BY SeenAre
<1>2. G \in [Events -> Seq(Events)] /\ \A x \in Events : G[x] = <<BlurEvent(x)>>
  BY BlurEventIs
<1> HIDE DEF F, G
<1>3. ASSUME NEW s \in Seq(Events), NEW x \in Events PROVE F[Append(s, x)] = F[s] \o G[x]
  <2>1. Append(s, x) \in Seq(Events)
    BY AppendFacts
  <2>2. PICK y \in Events, u \in Seq(Events) : y = BlurEvent(x) /\ u = Seen(s)
    BY BlurEventIs, SeenAre
  <2>3. u \o <<y>> = Append(u, y)
    OBVIOUS
  <2>4. Seen(Append(s, x)) = Append(u, y)
    BY <2>2, SeenAre
  <2> QED BY <1>1, <1>2, <2>1, <2>2, <2>3, <2>4
<1>4. F[<<>>] = <<>>
  <2>1. <<>> \in Seq(Events)
    OBVIOUS
  <2> QED BY <1>1, <2>1, SeenAre
<1>5. \A s \in Seq(Events) : \A x \in Events : F[Append(s, x)] = F[s] \o G[x]
  BY <1>3
<1>6. ByElement(F, G, Events, Events)
  BY <1>1, <1>2, <1>4, <1>5, Zenon DEF ByElement
<1>7. ByPiece(F, Events)
  BY <1>6, PieceByPiece
<1>8. \A s \in Seq(Events) : \A u \in Seq(Events) : s \o u \in Seq(Events)
  BY ConcatProperties
<1> QED BY <1>1, <1>7, <1>8, Zenon DEF ByPiece

\* One event is seen as one event.
LEMMA SeenOne == \A e \in Events : <<e>> \in Seq(Events) /\ Seen(<<e>>) = <<BlurEvent(e)>>
<1> TAKE e \in Events
<1>1. <<>> \in Seq(Events) /\ <<e>> = Append(<<>>, e) /\ \A x : <<x>> = Append(<<>>, x)
  OBVIOUS
<1>2. Seen(Append(<<>>, e)) = Append(<<>>, BlurEvent(e))
  BY <1>1, SeenAre
<1> QED BY <1>1, <1>2

\* A blurred block is the blurred event.
LEMMA ParseBlurred ==
  \A b \in Texts : parse_block(b) \in Seq(Events) /\ Seen(parse_block(b)) = parse_block(Blurred(b))
<1> TAKE b \in Texts
<1>1. PICK ls \in Seq(Texts) : ls = splitlines[b] /\ splitlines[Blurred(b)] = BlurredAll(ls)
  <2>1. splitlines[b] \in Seq(Texts)
    <3>1. PICK q \in Seq(Texts), c \in Texts : splitlines[b] = Append(q, c)
      BY BlurLines, PartingsAre
    <3> QED BY <3>1, AppendFacts
  <2> QED BY <2>1, BlurLines
<1>2. PICK f \in FieldValues : f = read_lines[ls] /\ read_lines[BlurredAll(ls)] = BlurFields(f)
  BY BlurRead
<1>3. PICK e \in Texts, d \in Seq(Texts) : f.event = e /\ f.data = d
  BY DEF FieldValues
<1>4. PICK be \in Texts, bd \in Seq(Texts) : be = Blurred(e) /\ bd = BlurredAll(d)
        /\ Len(bd) = Len(d)
  <2>1. BlurredAll(d) \in Seq(Texts) /\ Len(BlurredAll(d)) = Len(d)
    BY BlurredAllAre
  <2>2. Blurred(e) \in Texts
    BY BlurredAre
  <2> QED BY <2>1, <2>2
<1>5. PICK bf : bf = BlurFields(f) /\ bf.event = be /\ bf.data = bd
  <2>1. BlurFields(f) = [event |-> be, data |-> bd]
    BY <1>3, <1>4 DEF BlurFields
  <2> QED BY <2>1
<1>6. bd = <<>> <=> d = <<>>
  BY <1>4, EmptySeq
<1>7. PICK j \in Texts : j = JoinLines(d) /\ JoinLines(bd) = Blurred(j)
  <2>1. JoinLines(d) \in Texts
    BY Joined
  <2>2. JoinLines(bd) = Blurred(JoinLines(d))
    BY <1>4, BlurJoin
  <2> QED BY <2>1, <2>2
<1>8. parse_block(b) = IF d = <<>> THEN <<>> ELSE <<[event |-> e, data |-> j]>>
  BY <1>1, <1>2, <1>3, <1>7 DEF parse_block
<1>9. parse_block(Blurred(b)) = IF d = <<>> THEN <<>> ELSE <<[event |-> be, data |-> Blurred(j)]>>
  BY <1>1, <1>2, <1>5, <1>6, <1>7 DEF parse_block
<1>10. CASE d = <<>>
  BY <1>8, <1>9, <1>10, SeenAre
<1>11. CASE d # <<>>
  <2>1. PICK v \in Events : v = [event |-> e, data |-> j] /\ v.event = e /\ v.data = j
    <3>1. [event |-> e, data |-> j] \in Events
      BY DEF Events
    <3> QED BY <3>1
  <2>2. BlurEvent(v) = [event |-> be, data |-> Blurred(j)]
    BY <1>4, <2>1 DEF BlurEvent
  <2>3. <<v>> \in Seq(Events) /\ Seen(<<v>>) = <<BlurEvent(v)>>
    BY SeenOne
  <2> QED BY <1>8, <1>9, <1>11, <2>1, <2>2, <2>3
<1> QED BY <1>10, <1>11

\* One block more gives its event, if it has one.
LEMMA NewEventsAre ==
  /\ NewEvents(<<>>) = <<>>
  /\ \A bs \in Seq(Texts) : NewEvents(bs) \in Seq(Events)
  /\ \A bs \in Seq(Texts) : \A b \in Texts :
       NewEvents(Append(bs, b)) = NewEvents(bs) \o parse_block(b)
<1> DEFINE g == [b \in Texts |-> parse_block(b)]
           Map(bs) == [i \in DOMAIN bs |-> g[bs[i]]]
<1>1. \A b \in Texts : g[b] = parse_block(b)
  OBVIOUS
<1>2. g \in [Texts -> Seq(Events)]
  BY ParseBlurred
<1>3. ASSUME NEW bs \in Seq(Texts) PROVE NewEvents(bs) = FlattenSeq(Map(bs))
  <2>1. \A i \in DOMAIN bs : bs[i] \in Texts
    OBVIOUS
  <2>2. [i \in DOMAIN bs |-> parse_block(bs[i])] = Map(bs)
    BY <1>1, <2>1
  <2> QED BY <2>2 DEF NewEvents
<1> HIDE DEF g
<1>4. /\ Map(<<>>) = <<>>
      /\ \A s \in Seq(Texts) : Map(s) \in Seq(Seq(Events)) /\ Len(Map(s)) = Len(s)
      /\ \A s \in Seq(Texts) : \A x \in Texts : Map(Append(s, x)) = Append(Map(s), g[x])
  BY <1>2, Maps
<1> HIDE DEF Map
<1>5. \A s \in Seq(Texts) : \A x \in Texts : Append(s, x) \in Seq(Texts)
  BY AppendFacts
<1>6. <<>> \in Seq(Texts)
  OBVIOUS
<1>7. NewEvents(<<>>) = <<>>
  BY <1>3, <1>4, <1>6, FlattenEmpty
<1>8. \A s \in Seq(Texts) : NewEvents(s) \in Seq(Events)
  BY <1>3, <1>4, FlattenType
<1>9. ASSUME NEW s \in Seq(Texts), NEW x \in Texts
      PROVE  NewEvents(Append(s, x)) = NewEvents(s) \o parse_block(x)
  <2>1. Map(s) \in Seq(Seq(Events)) /\ g[x] \in Seq(Events)
    BY <1>2, <1>4
  <2>2. FlattenSeq(Append(Map(s), g[x])) = FlattenSeq(Map(s)) \o g[x]
    BY <2>1, FlattenAppend
  <2> QED BY <1>1, <1>3, <1>4, <1>5, <2>2
<1> QED BY <1>7, <1>8, <1>9

\* Piece by piece.
LEMMA NewEventsConcat ==
  \A s \in Seq(Texts) : \A u \in Seq(Texts) : NewEvents(s \o u) = NewEvents(s) \o NewEvents(u)
<1> DEFINE F == [s \in Seq(Texts) |-> NewEvents(s)]
           G == [x \in Texts |-> parse_block(x)]
<1>1. F \in [Seq(Texts) -> Seq(Events)] /\ \A s \in Seq(Texts) : F[s] = NewEvents(s)
  BY NewEventsAre
<1>2. G \in [Texts -> Seq(Events)] /\ \A x \in Texts : G[x] = parse_block(x)
  BY ParseBlurred
<1> HIDE DEF F, G
<1>3. ASSUME NEW s \in Seq(Texts), NEW x \in Texts PROVE F[Append(s, x)] = F[s] \o G[x]
  <2>1. Append(s, x) \in Seq(Texts)
    BY AppendFacts
  <2> QED BY <1>1, <1>2, <2>1, NewEventsAre
<1>4. F[<<>>] = <<>>
  <2>1. <<>> \in Seq(Texts)
    OBVIOUS
  <2> QED BY <1>1, <2>1, NewEventsAre
<1>5. \A s \in Seq(Texts) : \A x \in Texts : F[Append(s, x)] = F[s] \o G[x]
  BY <1>3
<1>6. ByElement(F, G, Texts, Events)
  BY <1>1, <1>2, <1>4, <1>5, Zenon DEF ByElement
<1>7. ByPiece(F, Texts)
  BY <1>6, PieceByPiece
<1>8. \A s \in Seq(Texts) : \A u \in Seq(Texts) : s \o u \in Seq(Texts)
  BY ConcatProperties
<1> QED BY <1>1, <1>7, <1>8, Zenon DEF ByPiece

\* Blurred blocks give the blurred events.
LEMMA NewEventsBlurred == \A bs \in Seq(Texts) : Seen(NewEvents(bs)) = NewEvents(BlurredAll(bs))
<1> DEFINE Good(bs) == Seen(NewEvents(bs)) = NewEvents(BlurredAll(bs))
           T == {bs \in Seq(Texts) : Good(bs)}
<1>1. <<>> \in T
  <2>1. <<>> \in Seq(Texts)
    OBVIOUS
  <2>2. Good(<<>>)
    BY NewEventsAre, BlurredAllAre, SeenAre
  <2> QED BY <2>1, <2>2
<1>2. ASSUME NEW bs \in T, NEW b \in Texts PROVE Append(bs, b) \in T
  <2>1. bs \in Seq(Texts) /\ Good(bs)
    OBVIOUS
  <2> HIDE DEF T
  <2>2. BlurredAll(bs) \in Seq(Texts)
          /\ BlurredAll(Append(bs, b)) = Append(BlurredAll(bs), Blurred(b))
    BY <2>1, BlurredAllAre
  <2>3. NewEvents(Append(bs, b)) = NewEvents(bs) \o parse_block(b) /\ NewEvents(bs) \in Seq(Events)
    BY <2>1, NewEventsAre
  <2>4. parse_block(b) \in Seq(Events) /\ Seen(parse_block(b)) = parse_block(Blurred(b))
    BY ParseBlurred
  <2>5. Seen(NewEvents(bs) \o parse_block(b)) = Seen(NewEvents(bs)) \o Seen(parse_block(b))
    BY <2>3, <2>4, SeenConcat
  <2>6. Blurred(b) \in Texts
    BY BlurredAre
  <2>7. NewEvents(Append(BlurredAll(bs), Blurred(b)))
          = NewEvents(BlurredAll(bs)) \o parse_block(Blurred(b))
    BY <2>2, <2>6, NewEventsAre
  <2>8. Good(Append(bs, b))
    BY <2>1, <2>2, <2>3, <2>4, <2>5, <2>7
  <2>9. Append(bs, b) \in Seq(Texts)
    BY <2>1, AppendFacts
  <2> HIDE DEF Good
  <2> QED BY <2>8, <2>9 DEF T
<1>3. T = Seq(Texts)
  <2>1. T \in SUBSET Seq(Texts)
    OBVIOUS
  <2> HIDE DEF T
  <2> QED BY <1>1, <1>2, <2>1, AppendInduction
<1>4. \A bs \in T : Good(bs)
  OBVIOUS
<1> HIDE DEF T
<1> QED BY <1>3, <1>4

\* Decoding a chunk by itself cuts the characters at its ends and nothing else.
LEMMA DecodeBlurs == \A x \in Texts : decode(x) \in Texts /\ Blurred(decode(x)) = Blurred(x)
<1> TAKE x \in Texts
<1>1. PICK n \in Nat : n = Len(x) /\ DOMAIN x = 1..n /\ \A i \in 1..n : x[i] \in Tokens
  BY DEF Texts
<1>2. /\ DOMAIN decode(x) = 1..n
      /\ \A i \in 1..n : decode(x)[i] = x[i] \/ (decode(x)[i] = "FFFD" /\ x[i] \in Halves)
  <2> DEFINE W(i) == \/ x[i] = "B1" /\ i < Len(x) /\ x[i + 1] = "B2"
                     \/ x[i] = "B2" /\ i > 1 /\ x[i - 1] = "B1"
  <2>1. decode(x) = [i \in 1..n |-> IF x[i] \in Halves /\ ~W(i) THEN "FFFD" ELSE x[i]]
    BY <1>1 DEF decode
  <2> HIDE DEF W
  <2>2. DOMAIN decode(x) = 1..n
    BY <2>1
  <2>3. ASSUME NEW i \in 1..n
        PROVE  decode(x)[i] = x[i] \/ (decode(x)[i] = "FFFD" /\ x[i] \in Halves)
    <3>1. decode(x)[i] = IF x[i] \in Halves /\ ~W(i) THEN "FFFD" ELSE x[i]
      BY <2>1
    <3>2. CASE x[i] \in Halves /\ ~W(i)
      BY <3>1, <3>2
    <3>3. CASE ~(x[i] \in Halves /\ ~W(i))
      BY <3>1, <3>3
    <3> QED BY <3>2, <3>3
  <2> QED BY <2>2, <2>3
<1>3. "FFFD" \in Tokens /\ "FFFD" \notin Halves
  BY TokensUsed DEF Halves
<1>4. decode(x) \in Texts
  <2>1. decode(x) = [i \in 1..n |-> decode(x)[i]] /\ \A i \in 1..n : decode(x)[i] \in Tokens
    BY <1>1, <1>2, <1>3 DEF decode
  <2> QED BY <2>1, IsSequence DEF Texts
<1>5. \A i \in 1..n : blur(decode(x)[i]) = blur(x[i])
  BY <1>2, <1>3 DEF blur
<1>6. /\ Blurred(decode(x)) = [i \in 1..n |-> blur(decode(x)[i])]
      /\ Blurred(x) = [i \in 1..n |-> blur(x[i])]
  BY <1>1, <1>2 DEF Blurred, blur
<1> QED BY <1>4, <1>5, <1>6

-----------------------------------------------------------------------------
(***************************************************************************)
(* The iterator, chunk by chunk.                                           *)
(***************************************************************************)
FirstMeanings(items, n) == FlattenSeq([i \in 1..n |-> Meaning(items[i])])

\* The events of the blocks of the first items are what these items mean.
LEMMA BlocksMean ==
  ASSUME NEW items \in Seq(Items), NEW n \in 0..Len(items)
  PROVE  NewEvents(BlocksOf(SubSeq(items, 1, n))) = FirstMeanings(items, n)
<1>1. PICK s \in Seq(Items) : s = SubSeq(items, 1, n) /\ Len(s) = n
        /\ \A i \in 1..n : s[i] = items[i]
  BY FirstItems
<1>2. DOMAIN s = 1..n /\ \A i \in 1..n : s[i] \in Items
  BY <1>1
<1>3. PICK bs : bs = BlocksOf(s) /\ DOMAIN bs = 1..n /\ \A i \in 1..n : bs[i] = BlockOf(items[i])
  <2>1. BlocksOf(s) = [i \in 1..n |-> BlockOf(s[i])]
    BY <1>2 DEF BlocksOf
  <2>2. \A i \in 1..n : BlocksOf(s)[i] = BlockOf(items[i])
    BY <1>1, <2>1
  <2> QED BY <2>1, <2>2
<1>4. \A i \in 1..n : parse_block(bs[i]) = Meaning(items[i])
  BY <1>1, <1>2, <1>3, BlockMeans
<1>5. NewEvents(bs) = FlattenSeq([i \in 1..n |-> parse_block(bs[i])])
  BY <1>3 DEF NewEvents
<1>6. [i \in 1..n |-> parse_block(bs[i])] = [i \in 1..n |-> Meaning(items[i])]
  BY <1>4
<1> QED BY <1>1, <1>3, <1>5, <1>6 DEF FirstMeanings

\* Some first items have arrived to their end, and the next one has not.
LEMMA LastArrived ==
  ASSUME NEW end \in Eols, NEW items \in Seq(Items), NEW a \in Nat
  PROVE  \E n \in 0..Len(items) :
           /\ Len(FirstBytes(items, n, end)) <= a
           /\ n = Len(items) \/ ~(Len(FirstBytes(items, n + 1, end)) <= a)
<1> DEFINE Late(k) == k = Len(items) + 1 \/ ~(Len(FirstBytes(items, k, end)) <= a)
           T == {k \in 0..Len(items) + 1 : Late(k)}
<1>1. Len(items) \in Nat
  OBVIOUS
<1>2. ~Late(0)
  <2>1. SubSeq(items, 1, 0) = <<>>
    OBVIOUS
  <2>2. Len(FirstBytes(items, 0, end)) = 0
    <3>1. StreamBytes(<<>>, end) = <<>>
      BY StreamBytesAre
    <3>2. FirstBytes(items, 0, end) = <<>>
      BY <2>1, <3>1 DEF FirstBytes
    <3> QED BY <3>2
  <2> QED BY <1>1, <2>2
<1>3. Len(items) + 1 \in T /\ T \in SUBSET Nat
  BY <1>1
<1>4. PICK m \in T : \A k \in T : m <= k
  <2> HIDE DEF T
  <2> QED BY <1>3, LeastOf
<1>5. m \in 1..Len(items) + 1 /\ Late(m) /\ \A k \in 0..Len(items) + 1 : Late(k) => m <= k
  <2>1. m \in 0..Len(items) + 1 /\ Late(m)
    OBVIOUS
  <2>2. \A k \in 0..Len(items) + 1 : Late(k) => m <= k
    BY <1>4
  <2> HIDE DEF Late
  <2> QED BY <1>1, <1>2, <2>1, <2>2
<1>6. PICK n \in 0..Len(items) : m = n + 1
  <2>1. m - 1 \in 0..Len(items) /\ m = (m - 1) + 1
    BY <1>1, <1>5
  <2> QED BY <2>1
<1>7. ~Late(n)
  <2> HIDE DEF Late
  <2>1. n \in 0..Len(items) + 1 /\ ~(n + 1 <= n)
    BY <1>1
  <2> QED BY <1>5, <1>6, <2>1
<1>8. n = Len(items) \/ ~(Len(FirstBytes(items, n + 1, end)) <= a)
  <2>1. Late(n + 1)
    BY <1>5, <1>6
  <2> QED BY <1>1, <2>1
<1> QED BY <1>7, <1>8

Has(w, a) == SubSeq(w, 1, a)

\* What arrives in one chunk.
LEMMA Chunk ==
  ASSUME NEW w \in Texts, NEW a \in 0..Len(w), NEW b \in a + 1..Len(w)
  PROVE  /\ b \in 0..Len(w) /\ Has(w, a) \in Texts /\ SubSeq(w, a + 1, b) \in Texts
         /\ Has(w, b) = Has(w, a) \o SubSeq(w, a + 1, b)
<1>1. PICK n \in Nat : n = Len(w) /\ w \in Seq(Tokens)
  BY DEF Texts
<1>2. b \in 0..n /\ a \in 0..n /\ a \in Nat /\ b \in Nat /\ a < b
  BY <1>1
<1>3. Has(w, a) \in Texts /\ Len(Has(w, a)) = a /\ Has(w, b) \in Texts /\ Len(Has(w, b)) = b
  BY <1>1, <1>2, CutAt DEF Has
<1>4. PICK c \in Texts : c = SubSeq(w, a + 1, b) /\ Len(c) = b - a
        /\ \A i \in 1..b - a : c[i] = w[a + i]
  <2>1. \A i \in a + 1..b : i \in 1..Len(w)
    BY <1>1, <1>2
  <2>2. /\ SubSeq(w, a + 1, b) \in Seq(Tokens)
        /\ Len(SubSeq(w, a + 1, b)) = IF a + 1 <= b THEN b - (a + 1) + 1 ELSE 0
        /\ \A i \in 1..b - (a + 1) + 1 : SubSeq(w, a + 1, b)[i] = w[a + 1 + i - 1]
    BY <1>1, <1>2, <2>1, SubSeqProperties
  <2>3. \A i \in 1..b - a : a + 1 + i - 1 = a + i /\ i \in 1..b - (a + 1) + 1
    BY <1>2
  <2>4. a + 1 <= b /\ b - (a + 1) + 1 = b - a
    BY <1>2
  <2>5. PICK c : c = SubSeq(w, a + 1, b)
    OBVIOUS
  <2>6. c \in Texts /\ Len(c) = b - a
    BY <2>2, <2>4, <2>5 DEF Texts
  <2>7. \A i \in 1..b - a : c[i] = w[a + i]
    BY <2>2, <2>3, <2>5
  <2> QED BY <2>5, <2>6, <2>7
<1>5. /\ \A i \in 1..a : Has(w, a)[i] = w[i]
      /\ \A i \in 1..b : Has(w, b)[i] = w[i]
  BY <1>1, <1>2 DEF Has
<1>6. PICK h \in Texts, k \in Texts :
        /\ h = Has(w, a) /\ k = Has(w, b) /\ Len(h) = a /\ Len(k) = b
        /\ \A i \in 1..a : h[i] = w[i]
        /\ \A i \in 1..b : k[i] = w[i]
  BY <1>3, <1>5
<1>7. h \o c \in Texts /\ Len(h \o c) = b
  <2>1. h \o c \in Texts /\ Len(h \o c) = Len(h) + Len(c)
    BY ConcatText
  <2>2. a + (b - a) = b
    BY <1>2
  <2> QED BY <1>4, <1>6, <2>1, <2>2
<1>8. ASSUME NEW i \in 1..b PROVE k[i] = (h \o c)[i]
  <2>1. CASE i \in 1..a
    <3>1. \A l \in 1..Len(h) : (h \o c)[l] = h[l]
      BY ConcatText
    <3> QED BY <1>6, <2>1, <3>1
  <2>2. CASE i \notin 1..a
    <3>1. PICK j \in 1..b - a : i = a + j
      <4>1. i - a \in 1..b - a /\ i = a + (i - a)
        BY <1>2, <2>2
      <4> QED BY <4>1
    <3>2. (h \o c)[a + j] = c[j]
      <4>1. \A l \in 1..Len(c) : (h \o c)[Len(h) + l] = c[l]
        BY ConcatText
      <4> QED BY <1>4, <1>6, <4>1
    <3> QED BY <1>4, <1>6, <3>1, <3>2
  <2> QED BY <2>1, <2>2
<1>9. k = h \o c
  BY <1>6, <1>7, <1>8, SeqEqual DEF Texts
<1> QED BY <1>1, <1>2, <1>3, <1>4, <1>6, <1>9

\* What the iterator has made of w, which has arrived: it holds the rest of w and has
\* yielded the events of its blocks, but for the characters that were cut.
Parsed(w, buf, es) ==
  /\ buf \in Texts /\ es \in Seq(Events)
  /\ Blurred(buf) = Blurred(Last(Split(w)))
  /\ Seen(es) = Seen(NewEvents(Front(Split(w))))

\* Nothing is made of nothing.
LEMMA ParsedNone == Parsed(<<>>, <<>>, <<>>)
<1>1. <<>> \in Texts /\ <<>> \in Seq(Texts) /\ <<>> \in Seq(Events)
        /\ << <<>> >> = Append(<<>>, <<>>)
  BY TextsAre
<1>2. Front(Split(<<>>)) = <<>> /\ Last(Split(<<>>)) = <<>>
  <2>1. Split(<<>>) = Append(<<>>, <<>>)
    BY <1>1, Feed
  <2>2. Front(Append(<<>>, <<>>)) = <<>> /\ Last(Append(<<>>, <<>>)) = <<>>
    BY <1>1, AppendPart
  <2> QED BY <2>1, <2>2
<1> QED BY <1>1, <1>2, NewEventsAre DEF Parsed

\* One chunk more is parsed on.
LEMMA ParsedOn ==
  ASSUME NEW w \in Texts, Rests(w), NEW buf \in Texts, NEW es \in Seq(Events), Parsed(w, buf, es),
         NEW x \in Texts, NEW text \in Texts, text = buf \o decode(x)
  PROVE  Parsed(w \o x, Last(Split(text)), es \o NewEvents(Front(Split(text))))
<1>1. PICK q \in Seq(Texts), c \in Texts :
        Split(w) = Append(q, c) /\ Front(Split(w)) = q /\ Last(Split(w)) = c
  BY Feed, PartingsAre
<1>2. Settled(c)
  BY <1>1 DEF Rests
<1>3. c \o x \in Texts /\ Split(w \o x) = q \o Split(c \o x)
  <2>1. Split(w \o x) = q \o Split(c \o x)
    <3>1. \A y \in Texts : Split(w \o y) = q \o Split(c \o y)
      <4>1. Split(w) = Append(q, c)
        BY <1>1
      <4>2. SplitsOn(w, q, c)
        BY <1>2, <4>1, SplitOn
      <4> QED BY <4>2 DEF SplitsOn
    <3> QED BY <3>1
  <2> QED BY <2>1, ConcatType
<1>4. PICK r \in Seq(Texts), d \in Texts :
        Split(c \o x) = Append(r, d) /\ Front(Split(c \o x)) = r /\ Last(Split(c \o x)) = d
  BY <1>3, Feed, PartingsAre
<1>5. Front(Split(w \o x)) = q \o r /\ Last(Split(w \o x)) = d
  <2>1. q \o r \in Seq(Texts) /\ q \o Append(r, d) = Append(q \o r, d)
    BY ConcatPart
  <2>2. Front(Append(q \o r, d)) = q \o r /\ Last(Append(q \o r, d)) = d
    BY <2>1, AppendPart
  <2> QED BY <1>3, <1>4, <2>1, <2>2
<1>6. Blurred(text) = Blurred(c \o x)
  <2>1. decode(x) \in Texts /\ Blurred(decode(x)) = Blurred(x)
    BY DecodeBlurs
  <2>2. Blurred(buf \o decode(x)) = Blurred(buf) \o Blurred(decode(x))
    BY <2>1, BlurredAre
  <2>3. Blurred(c \o x) = Blurred(c) \o Blurred(x)
    BY BlurredAre
  <2>4. Blurred(buf) = Blurred(c)
    BY <1>1 DEF Parsed
  <2> QED BY <2>1, <2>2, <2>3, <2>4
<1>7. PICK rt \in Seq(Texts), dt \in Texts : Front(Split(text)) = rt /\ Last(Split(text)) = dt
  BY Feed, PartingsAre
<1>8. BlurredAll(rt) = BlurredAll(r) /\ Blurred(dt) = Blurred(d)
  <2>1. /\ Front(Split(Blurred(text))) = BlurredAll(Front(Split(text)))
        /\ Last(Split(Blurred(text))) = Blurred(Last(Split(text)))
    BY BlurSplit
  <2>2. /\ Front(Split(Blurred(c \o x))) = BlurredAll(Front(Split(c \o x)))
        /\ Last(Split(Blurred(c \o x))) = Blurred(Last(Split(c \o x)))
    BY <1>3, BlurSplit
  <2> QED BY <1>4, <1>6, <1>7, <2>1, <2>2
<1>9. Seen(es \o NewEvents(rt)) = Seen(NewEvents(q \o r)) /\ es \o NewEvents(rt) \in Seq(Events)
  <2>1. PICK n \in Seq(Events), nq \in Seq(Events), nr \in Seq(Events) :
          n = NewEvents(rt) /\ nq = NewEvents(q) /\ nr = NewEvents(r)
    BY NewEventsAre
  <2>2. Seen(n) = Seen(nr)
    BY <1>8, <2>1, NewEventsBlurred
  <2>3. NewEvents(q \o r) = nq \o nr
    BY <2>1, NewEventsConcat
  <2>4. Seen(es \o n) = Seen(es) \o Seen(n)
    BY SeenConcat
  <2>5. Seen(nq \o nr) = Seen(nq) \o Seen(nr)
    BY SeenConcat
  <2>6. Seen(es) = Seen(nq)
    BY <1>1, <2>1 DEF Parsed
  <2>7. es \o n \in Seq(Events)
    BY ConcatProperties
  <2> QED BY <2>1, <2>2, <2>3, <2>4, <2>5, <2>6, <2>7
<1> QED BY <1>5, <1>7, <1>8, <1>9 DEF Parsed

\* What holds of the stream at every time.
StreamInv ==
  /\ sent \in Seq(Items) /\ eol \in Eols
  /\ wire = StreamBytes(sent, eol)
  /\ arrived \in 0..Len(wire)
  /\ Parsed(Has(wire, arrived), buffer, events)

\* No stream has begun.
NoStream == sent = <<>> /\ wire = <<>> /\ arrived = 0 /\ buffer = <<>> /\ events = <<>>

\* Nothing has arrived of a stream that begins.
LEMMA HasNothing ==
  ASSUME NEW w \in Texts
  PROVE  0 \in 0..Len(w) /\ Has(w, 0) = <<>>
<1>1. Len(w) \in Nat /\ SubSeq(w, 1, 0) = <<>>
  BY DEF Texts
<1> QED BY <1>1 DEF Has

\* The first state has no stream.
LEMMA StreamInitially ==
  ASSUME SseInit
  PROVE  StreamInv /\ NoStream
<1>1. eol \in Eols /\ <<>> \in Seq(Items) /\ <<>> \in Texts
  BY TextsAre DEF SseInit, Eols
<1>2. StreamBytes(<<>>, eol) = <<>>
  BY <1>1, StreamBytesAre
<1> QED BY <1>1, <1>2, HasNothing, ParsedNone DEF SseInit, StreamInv, NoStream

\* A stream begins.
LEMMA StreamBegun ==
  ASSUME NoStream, Stream
  PROVE  StreamInv'
<1>0. PICK n \in 1..MaxItems : \E items \in [1..n -> Items], end \in Eols :
        sent' = items /\ eol' = end /\ wire' = StreamBytes(items, end)
  BY DEF Stream
<1>1. PICK items \in [1..n -> Items], end \in Eols :
        sent' = items /\ eol' = end /\ wire' = StreamBytes(items, end)
  BY <1>0
<1>2. items \in Seq(Items)
  <2>1. n \in Nat /\ items = [i \in 1..n |-> items[i]] /\ \A i \in 1..n : items[i] \in Items
    OBVIOUS
  <2> QED BY <2>1, IsSequence
<1>3. StreamBytes(items, end) \in Texts
  BY <1>2, StreamBytesAre
<1>4. arrived' = 0 /\ buffer' = <<>> /\ events' = <<>>
  BY DEF NoStream, Stream
<1>5. wire' \in Texts
  BY <1>1, <1>3
<1>6. 0 \in 0..Len(wire') /\ Has(wire', 0) = <<>>
  BY <1>5, HasNothing
<1>7. Parsed(Has(wire', arrived'), buffer', events')
  BY <1>4, <1>6, ParsedNone
<1> QED BY <1>1, <1>2, <1>4, <1>6, <1>7 DEF StreamInv

\* A chunk is read.
LEMMA ChunkRead ==
  ASSUME StreamInv, ReadChunk
  PROVE  StreamInv'
<1>1. PICK upto \in arrived + 1..Len(wire) :
        /\ arrived' = upto
        /\ buffer' = Last(Split(buffer \o decode(SubSeq(wire, arrived + 1, upto))))
        /\ events' = events \o
             NewEvents(Front(Split(buffer \o decode(SubSeq(wire, arrived + 1, upto)))))
        /\ UNCHANGED <<sent, eol, wire>>
  BY DEF ReadChunk, split_blocks, Split
<1>2. wire \in Whole /\ wire \in Texts /\ Regular(wire)
  <2>1. StreamBytes(sent, eol) \in Whole
    BY StreamSplits DEF StreamInv
  <2> QED BY <2>1 DEF StreamInv, Whole
<1>3. arrived \in 0..Len(wire)
  BY DEF StreamInv
<1>4. PICK w \in Texts, x \in Texts :
        /\ upto \in 0..Len(wire) /\ w = Has(wire, arrived) /\ x = SubSeq(wire, arrived + 1, upto)
        /\ Has(wire, upto) = w \o x
  BY <1>2, <1>3, Chunk
<1>5. Rests(w)
  <2>1. PICK v \in Texts : wire = w \o v
    BY <1>2, <1>3, <1>4, CutAt DEF Has
  <2>2. Regular(w)
    BY <1>2, <2>1, RegularBefore
  <2> QED BY <2>2, RegularRests
<1>6. Parsed(w, buffer, events) /\ buffer \in Texts /\ events \in Seq(Events)
  BY <1>4 DEF StreamInv, Parsed
<1>7. PICK text \in Texts : text = buffer \o decode(x)
  BY <1>6, DecodeBlurs, ConcatType
<1>8. Parsed(w \o x, Last(Split(text)), events \o NewEvents(Front(Split(text))))
  BY <1>5, <1>6, <1>7, ParsedOn
<1> QED BY <1>1, <1>4, <1>7, <1>8 DEF StreamInv

\* The stream is left alone.
LEMMA StreamStays ==
  ASSUME UNCHANGED sseVars
  PROVE  (StreamInv => StreamInv') /\ (NoStream => NoStream')
BY DEF sseVars, StreamInv, NoStream

\* The events are those of the items that have arrived.
LEMMA StreamYields ==
  ASSUME StreamInv
  PROVE  EventsAsSent
<1>1. /\ sent \in Seq(Items) /\ eol \in Eols /\ wire = StreamBytes(sent, eol)
      /\ arrived \in 0..Len(StreamBytes(sent, eol)) /\ arrived \in Nat /\ Len(sent) \in Nat
  <2>1. StreamBytes(sent, eol) \in Texts
    BY StreamBytesAre DEF StreamInv
  <2> QED BY <2>1 DEF StreamInv, Texts
<1>2. PICK n \in 0..Len(sent) :
        /\ Len(FirstBytes(sent, n, eol)) <= arrived
        /\ n = Len(sent) \/ ~(Len(FirstBytes(sent, n + 1, eol)) <= arrived)
  BY <1>1, LastArrived
<1>3. n \in Complete /\ n + 1 \notin Complete
  BY <1>1, <1>2 DEF Complete, FirstBytes
<1>4. n = Len(sent) \/ arrived < Len(FirstBytes(sent, n + 1, eol))
  <2>1. CASE n # Len(sent)
    <3>1. n + 1 \in 0..Len(sent)
      BY <1>1, <2>1
    <3>2. SubSeq(sent, 1, n + 1) \in Seq(Items)
      BY <1>1, <3>1, FirstItems
    <3>3. FirstBytes(sent, n + 1, eol) \in Texts
      BY <1>1, <3>2, StreamBytesAre DEF FirstBytes
    <3>4. Len(FirstBytes(sent, n + 1, eol)) \in Nat
      BY <3>3 DEF Texts
    <3> QED BY <1>1, <1>2, <2>1, <3>4
  <2> QED BY <2>1
<1>5. Front(Split(Has(wire, arrived))) = BlocksOf(SubSeq(sent, 1, n))
  BY <1>1, <1>2, <1>4, BlocksArrived DEF Has
<1>6. NewEvents(BlocksOf(SubSeq(sent, 1, n))) = Meant(n)
  BY <1>1, BlocksMean DEF FirstMeanings, Meant
<1>7. Seen(events) = Seen(Meant(n))
  BY <1>5, <1>6 DEF StreamInv, Parsed
<1> QED BY <1>3, <1>7 DEF EventsAsSent

=============================================================================
