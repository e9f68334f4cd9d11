----------------------------- MODULE Recursion ------------------------------
(***************************************************************************)
(* Recursion and induction over any structure whose parts are smaller than *)
(* the whole.  A module that defines a function by recursion instantiates  *)
(* this one with its domain S, the size of an element and the body of the  *)
(* definition, and learns that the function exists; one that shows P of    *)
(* every element instantiates it with P.                                   *)
(***************************************************************************)
EXTENDS Naturals, WellFoundedInduction, TLAPS

CONSTANTS S,            \* the elements
          size(_),      \* how large an element is
          Body(_, _),   \* the value of the function f at x, from its values at smaller elements
          P(_)          \* what is to be shown of every element

\* Elements have a size.
Sized == \A x \in S : size(x) \in Nat

Smaller(x) == {y \in S : size(y) < size(x)}

\* The body asks for values at smaller elements only.
Recurs ==
  \A x \in S : \A f, g : (\A y \in Smaller(x) : f[y] = g[y]) => Body(f, x) = Body(g, x)

\* What holds of all smaller elements holds of an element.
Inherits == \A x \in S : (\A y \in Smaller(x) : P(y)) => P(x)

-----------------------------------------------------------------------------
\* A set of elements that is not empty has a smallest one.
LEMMA SmallestOf ==
  ASSUME Sized, NEW T \in SUBSET S, T # {}
  PROVE  \E x \in T : \A y \in T : size(x) <= size(y)
<1> DEFINE Sizes == {size(x) : x \in T}
<1>1. Sizes \in SUBSET Nat /\ Sizes # {}
  BY DEF Sized
<1>2. PICK n \in Sizes : \A m \in Sizes : <<m, n>> \notin OpToRel(<, Nat)
  <2> HIDE DEF Sizes
  <2> QED BY <1>1, NatLessThanWellFounded, WFMin, Zenon
<1>3. \A m \in Sizes : ~(m < n)
  BY <1>1, <1>2 DEF OpToRel
<1>4. PICK x \in T : n = size(x)
  BY <1>2
<1>5. \A y \in T : size(y) \in Sizes /\ size(y) \in Nat
  BY DEF Sized
<1>6. size(x) \in Nat /\ x \in T
  BY <1>4, <1>5
<1> HIDE DEF Sizes
<1> QED BY <1>3, <1>4, <1>5, <1>6

\* Induction: what holds of an element if it holds of the smaller ones holds of all.
THEOREM Induction == Sized /\ Inherits => \A x \in S : P(x)
<1> SUFFICES ASSUME Sized, Inherits, {x \in S : ~P(x)} # {} PROVE FALSE
  OBVIOUS
<1>1. PICK x \in {y \in S : ~P(y)} : \A y \in {z \in S : ~P(z)} : size(x) <= size(y)
  BY SmallestOf
<1>2. \A y \in Smaller(x) : P(y)
  BY <1>1 DEF Sized, Smaller
<1> QED BY <1>1, <1>2 DEF Inherits

-----------------------------------------------------------------------------
\* f obeys the definition at every element of size up to n.
Obeys(f, n) ==
  /\ f = [x \in S |-> f[x]]
  /\ \A x \in S : size(x) <= n => f[x] = Body(f, x)

\* Two such functions agree where both obey.
LEMMA Agree ==
  ASSUME Sized, Recurs, NEW m \in Nat, NEW n \in Nat, NEW f, NEW g, Obeys(f, m), Obeys(g, n)
  PROVE  \A x \in S : size(x) <= m /\ size(x) <= n => f[x] = g[x]
<1> DEFINE Differ == {x \in S : size(x) <= m /\ size(x) <= n /\ f[x] # g[x]}
<1> SUFFICES ASSUME Differ # {} PROVE FALSE
  OBVIOUS
<1>1. PICK x \in Differ : \A y \in Differ : size(x) <= size(y)
  <2>1. Differ \in SUBSET S
    OBVIOUS
  <2> HIDE DEF Differ
  <2> QED BY <2>1, SmallestOf
<1>2. \A y \in Smaller(x) : f[y] = g[y]
  BY <1>1 DEF Sized, Smaller
<1>3. Body(f, x) = Body(g, x)
  BY <1>1, <1>2 DEF Recurs
<1>4. f[x] = Body(f, x) /\ g[x] = Body(g, x)
  BY <1>1 DEF Obeys
<1> QED BY <1>1, <1>3, <1>4

\* There is one for every size: each is the body of the one before.
LEMMA ObeysUpTo ==
  ASSUME Sized, Recurs, NEW n \in Nat
  PROVE  \E f : Obeys(f, n)
<1> DEFINE None == {m \in Nat : ~\E f : Obeys(f, m)}
<1> SUFFICES ASSUME None # {} PROVE FALSE
  OBVIOUS
<1>1. PICK m \in None : \A k \in None : <<k, m>> \notin OpToRel(<, Nat)
  <2>1. None \in SUBSET Nat
    OBVIOUS
  <2> HIDE DEF None
  <2> QED BY <2>1, NatLessThanWellFounded, WFMin, Zenon
<1>2. PICK f : m # 0 => Obeys(f, m - 1)
  <2>1. CASE m = 0
    BY <2>1
  <2>2. CASE m # 0
    <3>1. PICK k \in Nat : m = k + 1 /\ k = m - 1 /\ k < m
      <4>1. m \in Nat
        BY <1>1
      <4> HIDE DEF None
      <4> QED BY <2>2, <4>1
    <3>2. k \notin None
      BY <1>1, <3>1 DEF OpToRel
    <3> QED BY <3>1, <3>2
  <2> QED BY <2>1, <2>2
<1> DEFINE g == [x \in S |-> Body(f, x)]
<1>3. ASSUME NEW x \in S, size(x) <= m PROVE g[x] = Body(g, x)
  <2>1. ASSUME NEW y \in Smaller(x) PROVE f[y] = g[y]
    <3>1. y \in S /\ size(y) \in Nat /\ size(x) \in Nat /\ size(y) < size(x) /\ m \in Nat
      BY <1>1, <2>1 DEF Smaller, Sized
    <3>2. m # 0 /\ size(y) <= m - 1
      BY <3>1, <1>3
    <3> QED BY <1>2, <3>1, <3>2 DEF Obeys
  <2>2. Body(f, x) = Body(g, x)
    <3> HIDE DEF g
    <3> QED BY <2>1 DEF Recurs
  <2> QED BY <2>2
<1>4. Obeys(g, m)
  <2>1. g = [x \in S |-> g[x]]
    OBVIOUS
  <2> HIDE DEF g
  <2> QED BY <1>3, <2>1 DEF Obeys
<1> QED BY <1>1, <1>4

\* The function exists.
THEOREM Existence == Sized /\ Recurs => \E f : f = [x \in S |-> Body(f, x)]
<1> SUFFICES ASSUME Sized, Recurs PROVE \E f : f = [x \in S |-> Body(f, x)]
  OBVIOUS
<1> DEFINE upTo(n) == CHOOSE f : Obeys(f, n)
           F == [x \in S |-> upTo(size(x))[x]]
<1>1. \A n \in Nat : Obeys(upTo(n), n)
  BY ObeysUpTo
<1>2. ASSUME NEW x \in S PROVE F[x] = Body(F, x)
  <2>1. size(x) \in Nat /\ \A y \in Smaller(x) : y \in S /\ size(y) \in Nat /\ size(y) <= size(x)
    BY DEF Sized, Smaller
  <2>2. ASSUME NEW y \in Smaller(x) PROVE upTo(size(x))[y] = F[y]
    <3>1. Obeys(upTo(size(x)), size(x)) /\ Obeys(upTo(size(y)), size(y))
      BY <1>1, <2>1
    <3>2. upTo(size(x))[y] = upTo(size(y))[y]
      <4> HIDE DEF upTo
      <4> QED BY <2>1, <3>1, Agree
    <3> QED BY <2>1, <3>2
  <2>3. Body(upTo(size(x)), x) = Body(F, x)
    <3> HIDE DEF F, upTo
    <3> QED BY <2>2 DEF Recurs
  <2>4. upTo(size(x))[x] = Body(upTo(size(x)), x)
    <3> HIDE DEF upTo
    <3> QED BY <1>1, <2>1 DEF Obeys
  <2> QED BY <2>3, <2>4
<1>3. F = [x \in S |-> Body(F, x)]
  BY <1>2
<1> QED BY <1>3

=============================================================================
