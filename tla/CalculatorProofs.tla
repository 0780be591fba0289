-------------------------- MODULE CalculatorProofs --------------------------
(***************************************************************************)
(* The calculators, for any expressions and stacks of any size: what they  *)
(* return is what the expression means, unless a push did not fit.         *)
(*                                                                         *)
(* The argument goes from the inside out.  Meaning is a recursive function *)
(* over spans of tokens; MeaningIs gives its equation back, by the least   *)
(* length at which it could fail.  Computes says of a piece of output that *)
(* it leaves its meaning on any number stack, and Left of a span that what *)
(* it put out and what it left on the operator stack compute what it means.*)
(* SpansConvert proves that of every span, again by the shortest one that  *)
(* could fail.  CalcInv ties the steps of the program to both.             *)
(***************************************************************************)
EXTENDS Calculator, FiniteSetTheorems, SequenceTheorems, WellFoundedInduction, TLAPS

(* The least-number principle, from the library's well-founded relations.  *)
LEMMA LeastNumber == ASSUME NEW T \in SUBSET Nat, T # {} PROVE \E n \in T : \A k \in T : n <= k
<1> DEFINE R == OpToRel(<, Nat)
<1>1. IsWellFoundedOn(R, Nat)
  BY NatLessThanWellFounded
<1>2. \A x, y \in Nat : <<x, y>> \in R <=> x < y
  BY DEF OpToRel
<1> HIDE DEF R
<1>3. PICK n \in T : \A k \in T : ~(<<k, n>> \in R)
  BY <1>1, WFMin
<1>4. \A k \in T : ~(k < n)
  BY <1>2, <1>3, Zenon
<1>5. \A k \in T : n <= k
  BY <1>4
<1> QED
  BY <1>5, Zenon
-----------------------------------------------------------------------------
(* The tokens, and the last place of a set of places. *)
Toks == [k : STRING, v : Int]

LEMMA HighestIs ==
  ASSUME NEW b \in Nat, NEW S \in SUBSET (1 .. b)
  PROVE  /\ Highest(S) \in 0 .. b
         /\ S = {} => Highest(S) = 0
         /\ S # {} => Highest(S) \in S
         /\ \A j \in S : j <= Highest(S)
<1>1. CASE S = {}
  BY <1>1 DEF Highest
<1>2. CASE S # {}
  <2> DEFINE T == {b - x : x \in S}
  <2>0. \A x \in S : x \in 1 .. b /\ x \in 0 .. b /\ b - x \in Nat
    <3> TAKE x \in S
    <3>1. x \in 1 .. b
      OBVIOUS
    <3> QED BY <3>1
  <2>1. T # {} /\ T \in SUBSET Nat
    BY <1>2, <2>0
  <2>2. PICK n \in T : \A k \in T : n <= k
    BY <2>1, LeastNumber
  <2>3. PICK x \in S : \A y \in S : b - x <= b - y
    BY <2>2
  <2>4. \A y \in S : y <= x
    BY <2>3
  <2>5. \E i \in S : \A j \in S : j <= i
    BY <2>4
  <2>6. Highest(S) \in S /\ \A j \in S : j <= Highest(S)
    BY <1>2, <2>5 DEF Highest
  <2> QED BY <1>2, <2>0, <2>6
<1> QED BY <1>1, <1>2

LEMMA HighestAt ==
  ASSUME NEW b \in Nat, NEW S \in SUBSET (1 .. b)
  PROVE  /\ S = {} => Highest(S) = 0
         /\ \A h \in S : (\A j \in S : j <= h) => Highest(S) = h
<1>1. ASSUME NEW h \in S, \A j \in S : j <= h PROVE Highest(S) = h
  <2>1. Highest(S) \in S /\ h <= Highest(S) /\ Highest(S) <= h
    BY <1>1, HighestIs
  <2>2. Highest(S) \in 1 .. b /\ h \in 1 .. b
    BY <2>1
  <2> QED BY <2>1, <2>2
<1> QED BY <1>1, HighestIs

(***************************************************************************)
(* Where a span is split.                                                  *)
(***************************************************************************)
Spans(s) == (1 .. Len(s) + 1) \X (0 .. Len(s))

LEMMA Priorities ==
  /\ \A k \in Operators : get_priority(k) \in 1 .. 2
  /\ \A k \in Operators : get_priority(k) = 1 <=> k \in {"+", "-"}
  /\ get_priority("(") = 0
  /\ \A k \in Operators : k \notin {"num", "(", ")"}
  /\ Operators = {"+", "-"} \cup {"*", "/"}
<1>1. /\ get_priority("(") = 0
      /\ get_priority("+") = 1 /\ get_priority("-") = 1
      /\ get_priority("*") = 2 /\ get_priority("/") = 2
  BY DEF get_priority
<1>2. \A k \in Operators : \/ k = "+" \/ k = "-" \/ k = "*" \/ k = "/"
  BY DEF Operators
<1>3. \A k \in Operators : k \notin {"num", "(", ")"}
  BY DEF Operators
<1>4. \A k \in Operators : get_priority(k) \in 1 .. 2
  BY <1>1, <1>2
<1>5. ASSUME NEW k \in Operators PROVE get_priority(k) = 1 <=> k \in {"+", "-"}
  BY <1>1, <1>2
<1>6. Operators = {"+", "-"} \cup {"*", "/"}
  BY DEF Operators
<1> QED BY <1>1, <1>3, <1>4, <1>5, <1>6

LEMMA SplitIs ==
  ASSUME NEW s \in Seq(Toks), NEW i \in 1 .. Len(s) + 1, NEW j \in 0 .. Len(s),
         SplitPoints(s, i, j, Operators) # {}
  PROVE  LET p == Split(s, i, j) IN
         /\ p \in i .. j /\ s[p].k \in Operators /\ Depth(s, i, p) = 0
         /\ p \in SplitPoints(s, i, j, Operators)
         /\ \A q \in SplitPoints(s, i, j, Operators) :
              /\ get_priority(s[p].k) <= get_priority(s[q].k)
              /\ p < q => get_priority(s[p].k) < get_priority(s[q].k)
<1> DEFINE weak == SplitPoints(s, i, j, {"+", "-"})
           strong == SplitPoints(s, i, j, {"*", "/"})
           all == IF weak # {} THEN weak ELSE strong
           p == Split(s, i, j)
<1>0. Len(s) \in Nat
  BY LenProperties
<1>1. weak \cup strong = SplitPoints(s, i, j, Operators)
  BY Priorities DEF SplitPoints
<1>2. all # {} /\ all \in SUBSET (1 .. Len(s))
  BY <1>1, <1>0 DEF SplitPoints
<1>3. p = Highest(all)
  BY DEF Split
<1>4. p \in all /\ \A q \in all : q <= p
  <2> HIDE DEF all
  <2>1. Highest(all) \in all /\ \A q \in all : q <= Highest(all)
    BY <1>0, <1>2, HighestIs
  <2> QED BY <2>1, <1>3
<1> HIDE DEF p
<1>5. p \in SplitPoints(s, i, j, Operators)
  BY <1>1, <1>4
<1>6. \A q \in SplitPoints(s, i, j, Operators) : s[q].k \in Operators /\ q \in i .. j /\ Depth(s, i, q) = 0
  BY DEF SplitPoints
<1>7. /\ \A q \in weak : get_priority(s[q].k) = 1
      /\ \A q \in strong : get_priority(s[q].k) = 2
  <2>1. \A q \in weak : s[q].k \in {"+", "-"}
    BY DEF SplitPoints
  <2>2. \A q \in strong : s[q].k \in {"*", "/"}
    BY DEF SplitPoints
  <2>3. \A k \in {"+", "-"} : get_priority(k) = 1
    BY Priorities
  <2>4. \A k \in {"*", "/"} : get_priority(k) = 2
    <3>1. \A k \in {"*", "/"} : k \in Operators /\ k \notin {"+", "-"}
      BY DEF Operators
    <3>2. \A k \in {"*", "/"} : get_priority(k) \in 1 .. 2 /\ get_priority(k) # 1
      BY <3>1, Priorities
    <3> QED BY <3>2
  <2> QED BY <2>1, <2>2, <2>3, <2>4, Zenon
<1>8. ASSUME NEW q \in SplitPoints(s, i, j, Operators)
      PROVE  /\ get_priority(s[p].k) <= get_priority(s[q].k)
             /\ p < q => get_priority(s[p].k) < get_priority(s[q].k)
  <2>1. CASE weak # {}
    <3>1. get_priority(s[p].k) = 1
      BY <2>1, <1>4, <1>7
    <3>2. CASE q \in weak
      BY <3>1, <3>2, <2>1, <1>4, <1>6, <1>5, <1>7
    <3>3. CASE q \in strong
      BY <3>1, <3>3, <1>7
    <3> QED BY <3>2, <3>3, <1>1
  <2>2. CASE weak = {}
    <3>1. q \in strong
      BY <2>2, <1>1
    <3> QED BY <3>1, <2>2, <1>4, <1>6, <1>5, <1>7
  <2> QED BY <2>1, <2>2
<1> QED BY <1>5, <1>6, <1>8 DEF p

LEMMA ParensOfTwo ==
  ASSUME NEW s, NEW i \in Int, NEW k \in Int, NEW p \in Int, i <= k + 1, k <= p, NEW c
  PROVE  /\ Cardinality(Parens(s, i, k, c)) \in Nat /\ Cardinality(Parens(s, k + 1, p, c)) \in Nat
         /\ Cardinality(Parens(s, i, p, c)) = Cardinality(Parens(s, i, k, c)) + Cardinality(Parens(s, k + 1, p, c))
<1> DEFINE A == Parens(s, i, k, c)
           B == Parens(s, k + 1, p, c)
<1>1. IsFiniteSet(A) /\ IsFiniteSet(B)
  <2>1. IsFiniteSet(i .. k) /\ IsFiniteSet(k + 1 .. p)
    BY FS_Interval
  <2>2. A \in SUBSET (i .. k) /\ B \in SUBSET (k + 1 .. p)
    BY DEF Parens
  <2> QED BY <2>1, <2>2, FS_Subset
<1>2. A \cap B = {} /\ A \cup B = Parens(s, i, p, c)
  BY DEF Parens
<1>3. Cardinality(A \cap B) = 0
  BY <1>2, FS_EmptySet
<1>4. Cardinality(A \cup B) = Cardinality(A) + Cardinality(B) - 0
  BY <1>1, <1>3, FS_Union
<1>5. Cardinality(A) \in Nat /\ Cardinality(B) \in Nat
  BY <1>1, FS_CardinalityType
<1>6. Cardinality(A \cup B) = Cardinality(A) + Cardinality(B)
  BY <1>4, <1>5
<1> QED BY <1>2, <1>5, <1>6, Zenon

LEMMA DepthOfTwo ==
  ASSUME NEW s, NEW i \in Int, NEW k \in Int, NEW p \in Int, i <= k + 1, k <= p, Depth(s, i, k) = 0
  PROVE  Depth(s, i, p) = Depth(s, k + 1, p)
BY ParensOfTwo DEF Depth

LEMMA SplitPointsOfSides ==
  ASSUME NEW s \in Seq(Toks), NEW i \in 1 .. Len(s) + 1, NEW j \in 0 .. Len(s),
         NEW p \in SplitPoints(s, i, j, Operators)
  PROVE  /\ SplitPoints(s, i, p - 1, Operators) \subseteq SplitPoints(s, i, j, Operators)
         /\ SplitPoints(s, p + 1, j, Operators) \subseteq SplitPoints(s, i, j, Operators)
<1>0. Len(s) \in Nat
  BY LenProperties
<1>1. p \in i .. j /\ p \in Int /\ i \in Int /\ j \in Int /\ Depth(s, i, p) = 0
  BY <1>0 DEF SplitPoints
<1>2. \A q \in p + 1 .. j : Depth(s, i, q) = Depth(s, p + 1, q)
  BY <1>1, DepthOfTwo
<1> QED BY <1>1, <1>2 DEF SplitPoints

(***************************************************************************)
(* Meaning is what its recursive definition says: for every n there is a   *)
(* function that obeys it on the spans of up to n tokens.                  *)
(***************************************************************************)
Body(s, m, i, j) ==
  IF SplitPoints(s, i, j, Operators) # {}
  THEN Combined(s[Split(s, i, j)].k, m[<<i, Split(s, i, j) - 1>>], m[<<Split(s, i, j) + 1, j>>])
  ELSE IF i = j /\ s[i].k = "num" THEN Known(s[i].v)
  ELSE IF i + 1 < j /\ s[i].k = "(" /\ s[j].k = ")" THEN m[<<i + 1, j - 1>>]
  ELSE Malformed

Obeys(s, m, n) ==
  \A i \in 1 .. Len(s) + 1, j \in 0 .. Len(s) : j - i < n => m[<<i, j>>] = Body(s, m, i, j)

(* The body looks at shorter spans only. *)
LEMMA BodyAgrees ==
  ASSUME NEW s \in Seq(Toks), NEW i \in 1 .. Len(s) + 1, NEW j \in 0 .. Len(s), NEW m, NEW w,
         \A a \in 1 .. Len(s) + 1, b \in 0 .. Len(s) : b - a < j - i => m[<<a, b>>] = w[<<a, b>>]
  PROVE  Body(s, m, i, j) = Body(s, w, i, j)
<1>0. Len(s) \in Nat
  BY LenProperties
<1>1. CASE SplitPoints(s, i, j, Operators) # {}
  <2> DEFINE p == Split(s, i, j)
  <2>1. p \in i .. j
    BY <1>1, SplitIs
  <2> HIDE DEF p
  <2>2. m[<<i, p - 1>>] = w[<<i, p - 1>>]
    BY <2>1, <1>0
  <2>3. m[<<p + 1, j>>] = w[<<p + 1, j>>]
    BY <2>1, <1>0
  <2>4. /\ Body(s, m, i, j) = Combined(s[p].k, m[<<i, p - 1>>], m[<<p + 1, j>>])
        /\ Body(s, w, i, j) = Combined(s[p].k, w[<<i, p - 1>>], w[<<p + 1, j>>])
    BY <1>1 DEF Body, p
  <2> QED BY <2>2, <2>3, <2>4
<1>2. CASE SplitPoints(s, i, j, Operators) = {} /\ i + 1 < j
  <2>1. m[<<i + 1, j - 1>>] = w[<<i + 1, j - 1>>]
    BY <1>0, <1>2
  <2> QED BY <1>2, <2>1 DEF Body
<1>3. CASE SplitPoints(s, i, j, Operators) = {} /\ ~(i + 1 < j)
  BY <1>3 DEF Body
<1> QED BY <1>1, <1>2, <1>3

LEMMA ObeysMore ==
  ASSUME NEW s \in Seq(Toks), NEW n \in Nat, NEW m, Obeys(s, m, n)
  PROVE  \E w : w = [span \in Spans(s) |-> w[span]] /\ Obeys(s, w, n + 1)
<1> DEFINE w == [span \in Spans(s) |->
                   IF span[2] - span[1] < n THEN m[span] ELSE Body(s, m, span[1], span[2])]
<1>0. Len(s) \in Nat
  BY LenProperties
<1>1. ASSUME NEW i \in 1 .. Len(s) + 1, NEW j \in 0 .. Len(s)
      PROVE  w[<<i, j>>] = IF j - i < n THEN m[<<i, j>>] ELSE Body(s, m, i, j)
  <2>1. <<i, j>> \in Spans(s) /\ <<i, j>>[1] = i /\ <<i, j>>[2] = j
    BY DEF Spans
  <2> QED BY <2>1
<1>2. w = [span \in Spans(s) |-> w[span]]
  OBVIOUS
<1> HIDE DEF w
<1>3. ASSUME NEW i \in 1 .. Len(s) + 1, NEW j \in 0 .. Len(s), j - i < n + 1
      PROVE  w[<<i, j>>] = Body(s, w, i, j)
  <2>1. \A a \in 1 .. Len(s) + 1, b \in 0 .. Len(s) : b - a < j - i => m[<<a, b>>] = w[<<a, b>>]
    <3> SUFFICES ASSUME NEW a \in 1 .. Len(s) + 1, NEW b \in 0 .. Len(s), b - a < j - i
                 PROVE  m[<<a, b>>] = w[<<a, b>>]
      OBVIOUS
    <3>1. b - a < n
      BY <1>0, <1>3
    <3> QED BY <3>1, <1>1
  <2>2. Body(s, m, i, j) = Body(s, w, i, j)
    BY <2>1, BodyAgrees
  <2>3. w[<<i, j>>] = Body(s, m, i, j)
    <3>1. CASE j - i < n
      <4>1. m[<<i, j>>] = Body(s, m, i, j)
        BY <3>1 DEF Obeys
      <4> QED BY <3>1, <4>1, <1>1
    <3> QED BY <3>1, <1>1
  <2> QED BY <2>2, <2>3
<1>4. Obeys(s, w, n + 1)
  BY <1>3 DEF Obeys
<1> QED BY <1>2, <1>4

LEMMA ObeyedSomehow ==
  ASSUME NEW s \in Seq(Toks), NEW n \in Nat
  PROVE  \E w : Obeys(s, w, n)
<1> DEFINE T == {a \in Nat : ~\E w : Obeys(s, w, a)}
<1>0. Len(s) \in Nat
  BY LenProperties
<1>1. SUFFICES ASSUME T # {} PROVE FALSE
  OBVIOUS
<1>2. PICK a \in T : \A b \in T : a <= b
  BY <1>1, LeastNumber
<1>3. a \in Nat /\ ~\E w : Obeys(s, w, a)
  BY <1>2
<1>4. a # 0
  <2> DEFINE w == [span \in Spans(s) |-> Malformed]
  <2>1. ASSUME NEW i \in 1 .. Len(s) + 1, NEW j \in 0 .. Len(s), j - i < 0
        PROVE  w[<<i, j>>] = Body(s, w, i, j)
    <3>1. SplitPoints(s, i, j, Operators) = {} /\ i # j /\ ~(i + 1 < j)
      BY <2>1, <1>0 DEF SplitPoints
    <3>2. Body(s, w, i, j) = Malformed
      BY <3>1 DEF Body
    <3>3. <<i, j>> \in Spans(s)
      BY DEF Spans
    <3> QED BY <3>2, <3>3
  <2> HIDE DEF w
  <2>2. Obeys(s, w, 0)
    BY <2>1 DEF Obeys
  <2> QED BY <2>2, <1>3
<1>5. a - 1 \in Nat /\ a - 1 \notin T
  BY <1>2, <1>3, <1>4
<1>6. PICK m : Obeys(s, m, a - 1)
  BY <1>5
<1>7. \E w : Obeys(s, w, (a - 1) + 1)
  BY <1>5, <1>6, ObeysMore
<1>8. (a - 1) + 1 = a
  BY <1>3
<1> QED BY <1>3, <1>7, <1>8

LEMMA MeaningIs ==
  ASSUME NEW s \in Seq(Toks)
  PROVE  \A i \in 1 .. Len(s) + 1, j \in 0 .. Len(s) : Meaning(s)[<<i, j>>] = Body(s, Meaning(s), i, j)
<1> DEFINE Solves(m) == m = [span \in Spans(s) |-> Body(s, m, span[1], span[2])]
<1>0. Len(s) \in Nat
  BY LenProperties
<1>1. \E m : Solves(m)
  <2>1. PICK u : Obeys(s, u, Len(s))
    BY <1>0, ObeyedSomehow
  <2>2. PICK m : m = [span \in Spans(s) |-> m[span]] /\ Obeys(s, m, Len(s) + 1)
    BY <1>0, <2>1, ObeysMore
  <2>3. ASSUME NEW span \in Spans(s) PROVE m[span] = Body(s, m, span[1], span[2])
    <3>1. /\ span[1] \in 1 .. Len(s) + 1 /\ span[2] \in 0 .. Len(s)
          /\ span = <<span[1], span[2]>>
      BY DEF Spans
    <3>2. span[2] - span[1] < Len(s) + 1
      BY <3>1, <1>0
    <3>3. m[<<span[1], span[2]>>] = Body(s, m, span[1], span[2])
      BY <3>1, <3>2, <2>2 DEF Obeys
    <3> QED BY <3>1, <3>3
  <2>4. Solves(m)
    BY <2>2, <2>3
  <2> QED BY <2>4
<1>2. Meaning(s) = CHOOSE m : Solves(m)
  BY DEF Meaning, Body, Spans
<1>3. Solves(Meaning(s))
  BY <1>1, <1>2
<1> QED
  <2> SUFFICES ASSUME NEW i \in 1 .. Len(s) + 1, NEW j \in 0 .. Len(s)
               PROVE  Meaning(s)[<<i, j>>] = Body(s, Meaning(s), i, j)
    OBVIOUS
  <2>1. <<i, j>> \in Spans(s) /\ <<i, j>>[1] = i /\ <<i, j>>[2] = j
    BY DEF Spans
  <2> QED BY <2>1, <1>3

(***************************************************************************)
(* What repolish does with a token and a number stack: it goes on, it      *)
(* finds that it must divide by zero, or something else is wrong.          *)
(***************************************************************************)
Good(t, S) ==
  \/ t.k = "num"
  \/ t.k \in Operators /\ Len(S) >= 2 /\ ~(t.k = "/" /\ Top(S) = 0)
Zero(t, S) == t.k = "/" /\ Len(S) >= 2 /\ Top(S) = 0
After(t, S) ==
  IF t.k = "num" THEN Append(S, t.v)
  ELSE Append(Popped(Popped(S)), Apply(t.k, S[Len(S) - 1], Top(S)))

(* T is the number stack after each of the first n tokens of Q, from S on. *)
Stacks == [Nat -> Seq(Int)]
RunsTo(Q, T, S, n) ==
  /\ T[0] = S
  /\ \A q \in 1 .. n : Good(Q[q], T[q - 1]) /\ T[q] = After(Q[q], T[q - 1])

(* Wherever it begins, Q goes on until it has put its meaning on the stack *)
(* or has met a division by zero.                                          *)
Meanings == {Undefined} \cup {Known(v) : v \in Int}
Computes(Q, m) ==
  /\ Q \in Seq(Toks)
  /\ \A S \in Seq(Int), T \in Stacks, n \in 0 .. Len(Q) : RunsTo(Q, T, S, n) =>
       /\ m = Undefined => n < Len(Q) /\ (Good(Q[n + 1], T[n]) \/ Zero(Q[n + 1], T[n]))
       /\ m # Undefined => IF n < Len(Q) THEN Good(Q[n + 1], T[n]) ELSE T[n] = Append(S, m.val)

(* Meanings, and what combining two of them gives. *)
LEMMA MeaningTypes ==
  /\ \A v \in Int : Known(v) \in Meanings /\ Known(v) # Undefined /\ Known(v).val = v /\ Known(v).is = "known"
  /\ \A m \in Meanings : m # Malformed /\ (m # Undefined => m.val \in Int /\ m = Known(m.val))
<1>1. ASSUME NEW v \in Int
      PROVE  /\ Known(v) \in Meanings /\ Known(v).val = v /\ Known(v).is = "known"
             /\ Known(v) # Undefined /\ Known(v) # Malformed
  <2>1. Known(v).val = v /\ Known(v).is = "known"
    BY DEF Known
  <2>2. Undefined.is = "undefined" /\ Malformed.is = "malformed"
    BY DEF Undefined, Malformed
  <2>3. Known(v) \in Meanings
    BY DEF Meanings
  <2> QED BY <2>1, <2>2, <2>3
<1>2. Undefined # Malformed
  <2>1. Undefined.is = "undefined" /\ Malformed.is = "malformed"
    BY DEF Undefined, Malformed
  <2> QED BY <2>1
<1>3. ASSUME NEW m \in Meanings PROVE m # Malformed /\ (m # Undefined => m.val \in Int /\ m = Known(m.val))
  <2>1. m = Undefined \/ \E v \in Int : m = Known(v)
    BY DEF Meanings
  <2> QED BY <2>1, <1>1, <1>2
<1> QED BY <1>1, <1>3

LEMMA ApplyInt ==
  ASSUME NEW k \in Operators, NEW a \in Int, NEW b \in Int, ~(k = "/" /\ b = 0)
  PROVE  Apply(k, a, b) \in Int
<1>1. CASE k = "/"
  <2>1. Abs(a) \in Nat /\ Abs(b) \in Nat \ {0}
    BY <1>1 DEF Abs
  <2>2. Abs(a) \div Abs(b) \in Int
    BY <2>1
  <2>3. Quotient(a, b) \in Int
    BY <2>2 DEF Quotient
  <2>4. Apply("/", a, b) = Quotient(a, b)
    BY DEF Apply
  <2> QED BY <2>3, <2>4, <1>1
<1>2. /\ Apply("+", a, b) = a + b
      /\ Apply("-", a, b) = a - b
      /\ Apply("*", a, b) = a * b
  BY DEF Apply
<1>3. a + b \in Int /\ a - b \in Int /\ a * b \in Int
  OBVIOUS
<1>4. k = "/" \/ k = "+" \/ k = "-" \/ k = "*"
  BY DEF Operators
<1> QED BY <1>1, <1>2, <1>3, <1>4, Zenon

LEMMA CombinedIs ==
  ASSUME NEW k \in Operators, NEW a \in Meanings, NEW b \in Meanings
  PROVE  /\ Combined(k, a, b) \in Meanings
         /\ Combined(k, a, b) = Undefined <=> a = Undefined \/ b = Undefined \/ (k = "/" /\ b.val = 0)
         /\ Combined(k, a, b) # Undefined => Combined(k, a, b).val = Apply(k, a.val, b.val)
<1>1. a # Malformed /\ b # Malformed
  BY MeaningTypes
<1>2. CASE a = Undefined \/ b = Undefined \/ (k = "/" /\ b.val = 0)
  <2>1. Combined(k, a, b) = Undefined
    BY <1>1, <1>2 DEF Combined
  <2> QED BY <2>1, <1>2 DEF Meanings
<1>3. CASE ~(a = Undefined \/ b = Undefined \/ (k = "/" /\ b.val = 0))
  <2>1. Combined(k, a, b) = Known(Apply(k, a.val, b.val))
    BY <1>1, <1>3 DEF Combined
  <2>2. a.val \in Int /\ b.val \in Int
    BY <1>3, MeaningTypes
  <2>3. Apply(k, a.val, b.val) \in Int
    BY <2>2, <1>3, ApplyInt
  <2> QED BY <2>1, <2>3, <1>3, MeaningTypes
<1> QED BY <1>2, <1>3

LEMMA PoppedIs ==
  ASSUME NEW S \in Seq(Int), NEW a \in Int
  PROVE  Popped(Append(S, a)) = S /\ Top(Append(S, a)) = a /\ Len(Append(S, a)) = Len(S) + 1
<1> DEFINE R == Append(S, a)
           P == SubSeq(R, 1, Len(R) - 1)
<1>1. /\ R \in Seq(Int) /\ Len(R) = Len(S) + 1 /\ Len(S) \in Nat
      /\ \A i \in 1 .. Len(S) : R[i] = S[i]
      /\ R[Len(S) + 1] = a
  BY AppendProperties, LenProperties
<1> HIDE DEF R
<1>2. \A i \in 1 .. Len(R) - 1 : R[i] \in Int
  BY <1>1, ElementOfSeq
<1>3. /\ P \in Seq(Int)
      /\ Len(P) = IF 1 <= Len(R) - 1 THEN (Len(R) - 1) - 1 + 1 ELSE 0
      /\ \A i \in 1 .. (Len(R) - 1) - 1 + 1 : P[i] = R[1 + i - 1]
  <2>1. Len(R) - 1 \in Int /\ 1 \in Int
    BY <1>1
  <2> QED BY <1>2, <2>1, SubSeqProperties
<1> HIDE DEF P
<1>4. Len(P) = Len(S) /\ \A i \in 1 .. Len(S) : P[i] = S[i]
  BY <1>1, <1>3
<1>5. P = S
  BY <1>3, <1>4, SeqEqual
<1> QED BY <1>1, <1>5 DEF Popped, Top, R, P

LEMMA NumberComputes ==
  ASSUME NEW t \in Toks, t.k = "num"
  PROVE  Computes(<<t>>, Known(t.v)) /\ Known(t.v) \in Meanings
<1>0. t.v \in Int
  BY DEF Toks
<1>1. <<t>> \in Seq(Toks) /\ Len(<<t>>) = 1 /\ <<t>>[1] = t
  OBVIOUS
<1>2. ASSUME NEW S \in Seq(Int), NEW T \in Stacks, NEW n \in 0 .. 1, RunsTo(<<t>>, T, S, n)
      PROVE  IF n < 1 THEN Good(t, T[n]) ELSE T[n] = Append(S, t.v)
  <2>1. CASE n = 0
    BY <2>1 DEF Good
  <2>2. CASE n = 1
    <3>1. T[1] = After(t, T[0]) /\ T[0] = S
      BY <2>2, <1>2, <1>1 DEF RunsTo
    <3> QED BY <3>1, <2>2 DEF After
  <2> QED BY <2>1, <2>2
<1>3. ASSUME NEW S \in Seq(Int), NEW T \in Stacks, NEW n \in 0 .. 1, RunsTo(<<t>>, T, S, n), n < 1
      PROVE  Good(<<t>>[n + 1], T[n])
  BY <1>1, <1>2, <1>3
<1>4. Known(t.v) # Undefined /\ Known(t.v).val = t.v /\ Known(t.v) \in Meanings
  BY <1>0, MeaningTypes
<1> QED BY <1>1, <1>2, <1>3, <1>4 DEF Computes

(* The tokens of two operands and an operator. *)
LEMMA BinaryTokens ==
  ASSUME NEW A \in Seq(Toks), NEW B \in Seq(Toks), NEW t \in Toks
  PROVE  LET Q == Append(A \o B, t) IN
         /\ Q \in Seq(Toks) /\ Len(Q) = Len(A) + Len(B) + 1
         /\ \A q \in 1 .. Len(A) : Q[q] = A[q]
         /\ \A q \in 1 .. Len(B) : Q[Len(A) + q] = B[q]
         /\ Q[Len(A) + Len(B) + 1] = t
<1>0. Len(A) \in Nat /\ Len(B) \in Nat
  BY LenProperties
<1>1. /\ A \o B \in Seq(Toks) /\ Len(A \o B) = Len(A) + Len(B)
      /\ \A i \in 1 .. Len(A) + Len(B) : (A \o B)[i] = IF i <= Len(A) THEN A[i] ELSE B[i - Len(A)]
  BY ConcatProperties
<1>2. LET Q == Append(A \o B, t) IN
      /\ Q \in Seq(Toks) /\ Len(Q) = Len(A \o B) + 1
      /\ \A i \in 1 .. Len(A \o B) : Q[i] = (A \o B)[i]
      /\ Q[Len(A \o B) + 1] = t
  BY <1>1, AppendProperties
<1> DEFINE Q == Append(A \o B, t)
           C == A \o B
<1>3. /\ Q \in Seq(Toks) /\ Len(Q) = Len(C) + 1
      /\ \A i \in 1 .. Len(C) : Q[i] = C[i]
      /\ Q[Len(C) + 1] = t
      /\ Len(C) = Len(A) + Len(B)
      /\ \A i \in 1 .. Len(A) + Len(B) : C[i] = IF i <= Len(A) THEN A[i] ELSE B[i - Len(A)]
  BY <1>1, <1>2
<1> HIDE DEF Q, C
<1>4. ASSUME NEW q \in 1 .. Len(B) PROVE Q[Len(A) + q] = B[q]
  <2>1. Len(A) + q \in 1 .. Len(A) + Len(B) /\ ~(Len(A) + q <= Len(A)) /\ (Len(A) + q) - Len(A) = q
    BY <1>0
  <2> QED BY <2>1, <1>3
<1>5. ASSUME NEW q \in 1 .. Len(A) PROVE Q[q] = A[q]
  <2>1. q \in 1 .. Len(A) + Len(B) /\ q <= Len(A)
    BY <1>0
  <2> QED BY <2>1, <1>3
<1> QED BY <1>3, <1>4, <1>5 DEF Q

LEMMA BinaryComputes ==
  ASSUME NEW A, NEW B, NEW a \in Meanings, NEW b \in Meanings, Computes(A, a), Computes(B, b),
         NEW t \in Toks, t.k \in Operators
  PROVE  Computes(Append(A \o B, t), Combined(t.k, a, b))
<1> DEFINE Q == Append(A \o B, t)
           m == Combined(t.k, a, b)
           la == Len(A)
           lb == Len(B)
<1>0. A \in Seq(Toks) /\ B \in Seq(Toks) /\ la \in Nat /\ lb \in Nat
  BY LenProperties DEF Computes
<1>1. /\ Q \in Seq(Toks) /\ Len(Q) = la + lb + 1
      /\ \A q \in 1 .. la : Q[q] = A[q]
      /\ \A q \in 1 .. lb : Q[la + q] = B[q]
      /\ Q[la + lb + 1] = t
  BY <1>0, BinaryTokens
<1>2. /\ m = Undefined <=> a = Undefined \/ b = Undefined \/ (t.k = "/" /\ b.val = 0)
      /\ m # Undefined => m.val = Apply(t.k, a.val, b.val)
  BY CombinedIs
<1>3. t.k # "num"
  BY Priorities
<1> HIDE DEF Q, m, la, lb
<1> SUFFICES ASSUME NEW S \in Seq(Int), NEW T \in Stacks, NEW n \in 0 .. Len(Q), RunsTo(Q, T, S, n)
             PROVE  /\ m = Undefined => n < Len(Q) /\ (Good(Q[n + 1], T[n]) \/ Zero(Q[n + 1], T[n]))
                    /\ m # Undefined => IF n < Len(Q) THEN Good(Q[n + 1], T[n]) ELSE T[n] = Append(S, m.val)
  BY <1>1 DEF Computes, Q, m
<1>4. T[0] = S /\ \A q \in 1 .. n : Good(Q[q], T[q - 1]) /\ T[q] = After(Q[q], T[q - 1])
  BY DEF RunsTo
<1>5. ASSUME NEW k \in 0 .. la, k <= n PROVE RunsTo(A, T, S, k)
  <2>1. \A q \in 1 .. k : q \in 1 .. n /\ q \in 1 .. la
    BY <1>0, <1>1, <1>5
  <2> QED BY <2>1, <1>1, <1>4 DEF RunsTo
<1>6. CASE n < la
  <2>1. n \in 0 .. Len(A) /\ n < Len(A) /\ n + 1 \in 1 .. la
    BY <1>6, <1>0 DEF la
  <2>2. RunsTo(A, T, S, n)
    BY <2>1, <1>5 DEF la
  <2>3. Good(A[n + 1], T[n]) \/ (Zero(A[n + 1], T[n]) /\ a = Undefined)
    BY <2>1, <2>2 DEF Computes
  <2>4. Q[n + 1] = A[n + 1]
    BY <2>1, <1>1
  <2>5. n < Len(Q)
    BY <1>0, <1>1, <1>6
  <2> QED BY <2>3, <2>4, <2>5, <1>2
<1>7. CASE la <= n
  <2>1. RunsTo(A, T, S, la) /\ la \in 0 .. Len(A)
    BY <1>7, <1>5, <1>0 DEF la
  <2>2. a # Undefined /\ T[la] = Append(S, a.val)
    BY <2>1 DEF Computes, la
  <2>3. a.val \in Int
    BY <2>2, MeaningTypes
  <2> DEFINE U == [q \in Nat |-> T[la + q]]
             R == Append(S, a.val)
  <2>4. U \in Stacks /\ R \in Seq(Int) /\ (\A q \in Nat : U[q] = T[la + q]) /\ T[la] = R
    BY <1>0, <2>2, <2>3, AppendProperties DEF Stacks
  <2> HIDE DEF U, R
  <2>5. ASSUME NEW k \in 0 .. lb, la + k <= n PROVE RunsTo(B, U, R, k)
    <3>1. U[0] = R
      <4>1. la + 0 = la /\ 0 \in Nat
        BY <1>0
      <4> QED BY <4>1, <2>4
    <3>2. ASSUME NEW q \in 1 .. k PROVE Good(B[q], U[q - 1]) /\ U[q] = After(B[q], U[q - 1])
      <4>1. q \in 1 .. lb /\ la + q \in 1 .. n /\ (la + q) - 1 = la + (q - 1) /\ q \in Nat /\ q - 1 \in Nat
        BY <1>0, <2>5, <1>1
      <4>2. Good(Q[la + q], T[la + (q - 1)]) /\ T[la + q] = After(Q[la + q], T[la + (q - 1)])
        BY <4>1, <1>4
      <4> QED BY <4>1, <4>2, <1>1, <2>4
    <3> QED BY <3>1, <3>2 DEF RunsTo
  <2>6. CASE n < la + lb
    <3> DEFINE k == n - la
    <3>1. k \in 0 .. lb /\ k \in 0 .. Len(B) /\ k < Len(B) /\ la + k = n /\ k + 1 \in 1 .. lb /\ la + (k + 1) = n + 1 /\ k \in Nat
      BY <1>0, <1>7, <2>6 DEF lb
    <3> HIDE DEF k
    <3>2. RunsTo(B, U, R, k)
      BY <3>1, <2>5
    <3>3. Good(B[k + 1], U[k]) \/ (Zero(B[k + 1], U[k]) /\ b = Undefined)
      BY <3>1, <3>2, <2>4 DEF Computes
    <3>4. Q[n + 1] = B[k + 1] /\ U[k] = T[n]
      BY <3>1, <1>1, <2>4
    <3>5. n < Len(Q)
      BY <1>0, <1>1, <2>6
    <3> QED BY <3>3, <3>4, <3>5, <1>2
  <2>7. CASE la + lb <= n
    <3>1. RunsTo(B, U, R, lb) /\ lb \in 0 .. Len(B) /\ lb \in Nat
      BY <2>7, <2>5, <1>0 DEF lb
    <3>2. b # Undefined /\ U[lb] = Append(R, b.val)
      BY <3>1, <2>4 DEF Computes, lb
    <3>3. b.val \in Int
      BY <3>2, MeaningTypes
    <3> DEFINE W == T[la + lb]
    <3>4. W = Append(R, b.val)
      BY <3>2, <2>4, <3>1
    <3> HIDE DEF W
    <3>5. Popped(W) = R /\ Top(W) = b.val /\ Len(W) = Len(R) + 1
      BY <3>4, <3>3, <2>4, PoppedIs
    <3>6. Popped(R) = S /\ Top(R) = a.val /\ Len(R) = Len(S) + 1
      BY <2>3, PoppedIs DEF R
    <3>7. Len(S) \in Nat
      BY LenProperties
    <3>8. W[Len(W) - 1] = a.val
      <4>1. Len(W) - 1 = Len(R) /\ Len(R) \in 1 .. Len(R)
        BY <3>5, <3>6, <3>7
      <4>2. W[Len(R)] = R[Len(R)]
        BY <4>1, <3>4, <3>3, <2>4, AppendProperties
      <4> QED BY <4>1, <4>2, <3>6 DEF Top
    <3>9. Len(W) >= 2
      BY <3>5, <3>6, <3>7
    <3>10. After(t, W) = Append(S, Apply(t.k, a.val, b.val))
      BY <1>3, <3>5, <3>6, <3>8 DEF After
    <3>11. CASE n = la + lb
      <4>1. Q[n + 1] = t /\ T[n] = W /\ n < Len(Q)
        BY <3>11, <1>1, <1>0 DEF W
      <4>2. CASE t.k = "/" /\ b.val = 0
        BY <4>1, <4>2, <3>5, <3>9, <1>2 DEF Zero
      <4>3. CASE ~(t.k = "/" /\ b.val = 0)
        <5>1. Good(t, W)
          BY <4>3, <3>5, <3>9 DEF Good
        <5> QED BY <4>1, <5>1
      <4> QED BY <4>2, <4>3
    <3>12. CASE n # la + lb
      <4>1. n = la + lb + 1 /\ n \in 1 .. n /\ n - 1 = la + lb
        BY <3>12, <2>7, <1>0, <1>1
      <4>2. Good(t, W) /\ T[n] = After(t, W)
        BY <4>1, <1>4, <1>1 DEF W
      <4>3. ~(t.k = "/" /\ b.val = 0)
        BY <4>2, <1>3, <3>5 DEF Good
      <4>4. m # Undefined /\ m.val = Apply(t.k, a.val, b.val)
        BY <4>3, <1>2, <2>2, <3>2
      <4> QED BY <4>1, <4>2, <4>4, <3>10, <1>1
    <3> QED BY <3>11, <3>12
  <2>8. n < la + lb \/ la + lb <= n
    BY <1>0
  <2> QED BY <2>6, <2>7, <2>8
<1>8. n < la \/ la <= n
  BY <1>0
<1> QED BY <1>6, <1>7, <1>8

(***************************************************************************)
(* What is popped, as a sequence.                                          *)
(***************************************************************************)
Down(W) == FromTop(W, 0)

LEMMA FromTopIs ==
  ASSUME NEW W \in Seq(Toks), NEW n \in 0 .. Len(W)
  PROVE  /\ FromTop(W, n) \in Seq(Toks) /\ Len(FromTop(W, n)) = Len(W) - n
         /\ \A i \in 1 .. Len(W) - n : FromTop(W, n)[i] = W[Len(W) + 1 - i]
<1>0. Len(W) \in Nat
  BY LenProperties
<1>1. \A i \in 1 .. Len(W) - n : Len(W) + 1 - i \in 1 .. Len(W)
  BY <1>0
<1>2. \A i \in 1 .. Len(W) - n : W[Len(W) + 1 - i] \in Toks
  BY <1>1, ElementOfSeq
<1>3. Len(W) - n \in Nat
  BY <1>0
<1> DEFINE F == FromTop(W, n)
           l == Len(W) - n
<1>4. F = [i \in 1 .. l |-> W[Len(W) + 1 - i]]
  BY DEF FromTop
<1> HIDE DEF F, l
<1>5. F \in [1 .. l -> Toks] /\ l \in Nat
  BY <1>2, <1>3, <1>4 DEF l
<1>6. F \in Seq(Toks) /\ Len(F) = l
  BY <1>5, SeqDef
<1> QED BY <1>4, <1>6 DEF F, l

LEMMA DownIs ==
  ASSUME NEW W \in Seq(Toks)
  PROVE  /\ Down(W) \in Seq(Toks) /\ Len(Down(W)) = Len(W)
         /\ \A i \in 1 .. Len(W) : Down(W)[i] = W[Len(W) + 1 - i]
<1>0. Len(W) \in Nat
  BY LenProperties
<1>1. 0 \in 0 .. Len(W) /\ Len(W) - 0 = Len(W)
  BY <1>0
<1> QED BY <1>1, FromTopIs DEF Down

LEMMA DownOfFirst ==
  ASSUME NEW W \in Seq(Toks), NEW t \in Toks
  PROVE  <<t>> \o W \in Seq(Toks) /\ Down(<<t>> \o W) = Append(Down(W), t)
<1> DEFINE V == <<t>> \o W
           D == Down(W)
           R == Append(D, t)
<1>0. Len(W) \in Nat /\ <<t>> \in Seq(Toks) /\ Len(<<t>>) = 1 /\ <<t>>[1] = t
  BY LenProperties
<1>1. /\ V \in Seq(Toks) /\ Len(V) = 1 + Len(W)
      /\ \A i \in 1 .. 1 + Len(W) : V[i] = IF i <= 1 THEN <<t>>[i] ELSE W[i - 1]
  BY <1>0, ConcatProperties
<1>2. D \in Seq(Toks) /\ Len(D) = Len(W) /\ \A i \in 1 .. Len(W) : D[i] = W[Len(W) + 1 - i]
  BY DownIs
<1>3. R \in Seq(Toks) /\ Len(R) = Len(D) + 1 /\ (\A i \in 1 .. Len(D) : R[i] = D[i]) /\ R[Len(D) + 1] = t
  BY <1>2, AppendProperties
<1>4. Down(V) \in Seq(Toks) /\ Len(Down(V)) = Len(V) /\ \A i \in 1 .. Len(V) : Down(V)[i] = V[Len(V) + 1 - i]
  BY <1>1, DownIs
<1> HIDE DEF V, D, R
<1>5. ASSUME NEW i \in 1 .. Len(W) + 1 PROVE Down(V)[i] = R[i]
  <2>1. i \in 1 .. Len(V) /\ Len(V) + 1 - i \in 1 .. 1 + Len(W) /\ Len(V) + 1 - i - 1 = Len(W) + 1 - i
    BY <1>0, <1>1
  <2>2. Down(V)[i] = V[Len(V) + 1 - i]
    BY <2>1, <1>4
  <2>3. CASE i = Len(W) + 1
    <3>1. Len(V) + 1 - i = 1
      BY <2>3, <1>0, <1>1
    <3>2. V[1] = t
      BY <1>1, <1>0, <2>1, <3>1
    <3> QED BY <2>2, <3>1, <3>2, <2>3, <1>2, <1>3
  <2>4. CASE i \in 1 .. Len(W)
    <3>1. V[Len(V) + 1 - i] = W[Len(W) + 1 - i]
      <4>1. ~(Len(V) + 1 - i <= 1)
        BY <2>4, <1>0, <1>1
      <4> QED BY <4>1, <2>1, <1>1
    <3> QED BY <3>1, <2>2, <2>4, <1>2, <1>3
  <2> QED BY <2>3, <2>4, <1>0
<1>6. Down(V) = R
  <2>1. Len(Down(V)) = Len(R) /\ Len(R) = Len(W) + 1
    BY <1>0, <1>1, <1>2, <1>3, <1>4
  <2> QED BY <2>1, <1>3, <1>4, <1>5, SeqEqual
<1> QED BY <1>1, <1>6 DEF V, R, D

(* Popping down to the top of O. *)
LEMMA PopsTo ==
  ASSUME NEW O \in Seq(Toks), NEW W \in Seq(Toks)
  PROVE  /\ O \o W \in Seq(Toks) /\ Len(O \o W) = Len(O) + Len(W)
         /\ SubSeq(O \o W, 1, Len(O)) = O
         /\ FromTop(O \o W, Len(O)) = Down(W)
<1> DEFINE V == O \o W
           P == SubSeq(V, 1, Len(O))
           F == FromTop(V, Len(O))
<1>0. Len(O) \in Nat /\ Len(W) \in Nat /\ 1 \in Int
  BY LenProperties
<1>1. /\ V \in Seq(Toks) /\ Len(V) = Len(O) + Len(W)
      /\ \A i \in 1 .. Len(O) + Len(W) : V[i] = IF i <= Len(O) THEN O[i] ELSE W[i - Len(O)]
  BY ConcatProperties
<1>2. F \in Seq(Toks) /\ Len(F) = Len(V) - Len(O) /\ \A i \in 1 .. Len(V) - Len(O) : F[i] = V[Len(V) + 1 - i]
  <2>1. Len(O) \in 0 .. Len(V)
    BY <1>0, <1>1
  <2> QED BY <1>1, <2>1, FromTopIs
<1>3. /\ P \in Seq(Toks) /\ Len(P) = IF 1 <= Len(O) THEN Len(O) - 1 + 1 ELSE 0
      /\ \A i \in 1 .. Len(O) - 1 + 1 : P[i] = V[1 + i - 1]
  <2>1. Len(O) \in Int
    BY <1>0
  <2>2. \A i \in 1 .. Len(O) : i \in 1 .. Len(V)
    BY <1>0, <1>1
  <2>3. \A i \in 1 .. Len(O) : V[i] \in Toks
    BY <1>1, <2>2, ElementOfSeq
  <2> QED BY <1>0, <2>1, <2>3, SubSeqProperties
<1> HIDE DEF V, P, F
<1>4. P = O
  <2>1. Len(P) = Len(O)
    BY <1>0, <1>3
  <2>2. ASSUME NEW i \in 1 .. Len(O) PROVE P[i] = O[i]
    <3>1. i \in 1 .. Len(O) - 1 + 1 /\ 1 + i - 1 = i /\ i \in 1 .. Len(O) + Len(W) /\ i <= Len(O)
      BY <1>0
    <3> QED BY <3>1, <1>1, <1>3
  <2> QED BY <2>1, <2>2, <1>3, SeqEqual
<1>5. F = Down(W)
  <2>1. Down(W) \in Seq(Toks) /\ Len(Down(W)) = Len(W) /\ \A i \in 1 .. Len(W) : Down(W)[i] = W[Len(W) + 1 - i]
    BY DownIs
  <2>2. Len(F) = Len(W)
    BY <1>0, <1>1, <1>2
  <2>3. ASSUME NEW i \in 1 .. Len(W) PROVE F[i] = Down(W)[i]
    <3>1. /\ i \in 1 .. Len(V) - Len(O) /\ Len(V) + 1 - i \in 1 .. Len(O) + Len(W)
          /\ ~(Len(V) + 1 - i <= Len(O)) /\ Len(V) + 1 - i - Len(O) = Len(W) + 1 - i
      BY <1>0, <1>1
    <3>2. F[i] = V[Len(V) + 1 - i]
      BY <3>1, <1>2
    <3>3. V[Len(V) + 1 - i] = W[Len(V) + 1 - i - Len(O)]
      BY <3>1, <1>1
    <3>4. Down(W)[i] = W[Len(W) + 1 - i]
      BY <2>1
    <3> QED BY <3>1, <3>2, <3>3, <3>4
  <2> QED BY <2>1, <2>2, <2>3, <1>2, SeqEqual
<1> QED BY <1>1, <1>4, <1>5 DEF V, P, F

(* An operator pops what was left upon O, if that binds as tightly as the  *)
(* operator and the top of O does not.                                     *)
Weaker(O, k) == O = <<>> \/ get_priority(Top(O).k) < get_priority(k)

LEMMA PopsToWeaker ==
  ASSUME NEW O \in Seq(Toks), NEW W \in Seq(Toks), NEW R \in Seq(Toks), NEW k \in Operators, Weaker(O, k),
         \A x \in 1 .. Len(W) : W[x].k \in Operators /\ get_priority(k) <= get_priority(W[x].k)
  PROVE  UpToWeaker(O \o W, R, k) = <<O, R \o Down(W)>>
<1> DEFINE V == O \o W
           S == {i \in DOMAIN V : get_priority(V[i].k) < get_priority(k)}
<1>0. Len(O) \in Nat /\ Len(W) \in Nat
  BY LenProperties
<1>1. /\ V \in Seq(Toks) /\ Len(V) = Len(O) + Len(W)
      /\ \A i \in 1 .. Len(O) + Len(W) : V[i] = IF i <= Len(O) THEN O[i] ELSE W[i - Len(O)]
      /\ DOMAIN V = 1 .. Len(V)
  BY ConcatProperties, LenProperties
<1>2. S \in SUBSET (1 .. Len(V)) /\ Len(V) \in Nat
  BY <1>0, <1>1
<1>3. \A i \in 1 .. Len(V) : i \in S <=> get_priority(V[i].k) < get_priority(k)
  BY <1>1
<1> HIDE DEF S, V
<1>4. ASSUME NEW i \in S PROVE i <= Len(O)
  <2> SUFFICES ASSUME Len(O) < i PROVE FALSE
    BY <1>0, <1>2, <1>4
  <2>0. i \in 1 .. Len(V)
    BY <1>2, <1>4
  <2>1. i \in 1 .. Len(O) + Len(W) /\ ~(i <= Len(O)) /\ i - Len(O) \in 1 .. Len(W)
    BY <1>0, <1>1, <2>0
  <2>2. V[i] = W[i - Len(O)]
    BY <2>1, <1>1
  <2>3. get_priority(k) <= get_priority(V[i].k) /\ get_priority(V[i].k) \in 1 .. 2 /\ get_priority(k) \in 1 .. 2
    BY <2>1, <2>2, Priorities
  <2> QED BY <2>0, <2>3, <1>3, <1>4
<1>5. Highest(S) = Len(O)
  <2>1. CASE Len(O) = 0
    <3>1. S = {}
      BY <2>1, <1>2, <1>4
    <3> QED BY <3>1, <2>1, <1>2, HighestAt
  <2>2. CASE Len(O) # 0
    <3>1. O # <<>>
      BY <2>2
    <3>2. Len(O) \in 1 .. Len(O) + Len(W) /\ Len(O) \in 1 .. Len(V) /\ V[Len(O)] = O[Len(O)]
      BY <2>2, <1>0, <1>1
    <3>3. Len(O) \in S
      BY <3>1, <3>2, <1>3 DEF Weaker, Top
    <3> QED BY <3>3, <1>2, <1>4, HighestAt
  <2> QED BY <2>1, <2>2
<1>6. UpToWeaker(V, R, k) = <<SubSeq(V, 1, Highest(S)), R \o FromTop(V, Highest(S))>>
  BY DEF UpToWeaker, S
<1> QED BY <1>5, <1>6, PopsTo DEF V

(* A right parenthesis pops what was left upon the left one. *)
LEMMA PopsToParen ==
  ASSUME NEW O \in Seq(Toks), NEW W \in Seq(Toks), NEW R \in Seq(Toks), NEW t \in Toks, t.k = "(",
         \A x \in 1 .. Len(W) : W[x].k \in Operators
  PROVE  UpToParen(Append(O, t) \o W, R) = <<O, R \o Down(W)>>
<1> DEFINE N == Append(O, t)
           V == N \o W
           S == {i \in DOMAIN V : V[i].k = "("}
<1>0. Len(O) \in Nat /\ Len(W) \in Nat
  BY LenProperties
<1>1. N \in Seq(Toks) /\ Len(N) = Len(O) + 1 /\ (\A i \in 1 .. Len(O) : N[i] = O[i]) /\ N[Len(O) + 1] = t
  BY AppendProperties
<1> HIDE DEF N
<1>2. /\ V \in Seq(Toks) /\ Len(V) = Len(N) + Len(W)
      /\ \A i \in 1 .. Len(N) + Len(W) : V[i] = IF i <= Len(N) THEN N[i] ELSE W[i - Len(N)]
      /\ DOMAIN V = 1 .. Len(V)
  BY <1>1, ConcatProperties, LenProperties
<1>3. S \in SUBSET (1 .. Len(V)) /\ Len(V) \in Nat
  BY <1>0, <1>1, <1>2
<1>4. \A i \in 1 .. Len(V) : i \in S <=> V[i].k = "("
  BY <1>2
<1> HIDE DEF S, V
<1>5. ASSUME NEW i \in S PROVE i <= Len(O) + 1
  <2> SUFFICES ASSUME Len(O) + 1 < i PROVE FALSE
    BY <1>0, <1>3, <1>5
  <2>0. i \in 1 .. Len(V)
    BY <1>3, <1>5
  <2>1. i \in 1 .. Len(N) + Len(W) /\ ~(i <= Len(N)) /\ i - Len(N) \in 1 .. Len(W)
    BY <1>0, <1>1, <1>2, <2>0
  <2>2. V[i] = W[i - Len(N)]
    BY <2>1, <1>2
  <2> QED BY <2>0, <2>1, <2>2, <1>4, <1>5, Priorities
<1>6. Len(O) + 1 \in S
  <2>1. Len(O) + 1 \in 1 .. Len(N) + Len(W) /\ Len(O) + 1 <= Len(N) /\ Len(O) + 1 \in 1 .. Len(V)
    BY <1>0, <1>1, <1>2
  <2>2. V[Len(O) + 1] = t
    BY <2>1, <1>1, <1>2
  <2> QED BY <2>1, <2>2, <1>4
<1>7. Highest(S) = Len(O) + 1
  BY <1>3, <1>5, <1>6, HighestAt
<1>8. UpToParen(V, R) = <<SubSeq(V, 1, Highest(S) - 1), R \o FromTop(V, Highest(S))>>
  BY DEF UpToParen, S
<1>9. FromTop(V, Len(O) + 1) = Down(W)
  BY <1>1, PopsTo DEF V
<1>10. SubSeq(V, 1, Len(O)) = O
  <2>1. N = O \o <<t>> /\ <<t>> \in Seq(Toks)
    BY AppendIsConcat DEF N
  <2>2. V = O \o (<<t>> \o W) /\ <<t>> \o W \in Seq(Toks)
    BY <2>1, ConcatAssociative, ConcatProperties DEF V
  <2> QED BY <2>2, PopsTo
<1>11. Highest(S) - 1 = Len(O)
  BY <1>7, <1>0
<1> QED BY <1>7, <1>8, <1>9, <1>10, <1>11 DEF N, V

(***************************************************************************)
(* O and P are the operator stack and the output after each of the first n *)
(* tokens of s, when nothing is dropped.                                   *)
(***************************************************************************)
Texts == [Nat -> Seq(Toks)]

Turned(t, O, P, O2, P2) ==
  \/ t.k = "num" /\ O2 = O /\ P2 = Append(P, t)
  \/ t.k = "(" /\ O2 = Append(O, t) /\ P2 = P
  \/ t.k = ")" /\ <<O2, P2>> = UpToParen(O, P)
  \/ t.k \in Operators /\ O2 = Append(UpToWeaker(O, P, t.k)[1], t) /\ P2 = UpToWeaker(O, P, t.k)[2]

ConvertsTo(s, O, P, n) ==
  /\ O[0] = <<>> /\ P[0] = <<>>
  /\ \A p \in 1 .. n : Turned(s[p], O[p - 1], P[p - 1], O[p], P[p])

(* Tokens i to j leave W upon the stack and put out Q.  W and what is put  *)
(* out when it is popped compute what the tokens mean.                     *)
Left(s, i, j, O1, P1, O2, P2, W, Q) ==
  /\ W \in Seq(Toks) /\ Q \in Seq(Toks)
  /\ O2 = O1 \o W /\ P2 = P1 \o Q
  /\ Computes(Q \o Down(W), Meaning(s)[<<i, j>>])
  /\ \A x \in 1 .. Len(W) :
       /\ W[x].k \in Operators
       /\ \E q \in SplitPoints(s, i, j, Operators) : get_priority(s[q].k) <= get_priority(W[x].k)

Converted(s, i, j, O, P) ==
  Meaning(s)[<<i, j>>] # Malformed =>
    /\ Meaning(s)[<<i, j>>] \in Meanings
    /\ (\A q \in SplitPoints(s, i, j, Operators) : Weaker(O[i - 1], s[q].k)) =>
         \E W, Q \in Seq(Toks) : Left(s, i, j, O[i - 1], P[i - 1], O[j], P[j], W, Q)

(* Texts of tokens are joined in any order. *)
Text == Seq(Toks)
Joined(a, b) == a \o b

LEMMA JoinedInAnyOrder ==
  /\ \A a, b, c \in Text : Joined(Joined(a, b), c) = Joined(a, Joined(b, c))
  /\ \A a, b \in Text : Joined(a, b) \in Text
<1>1. ASSUME NEW a \in Seq(Toks), NEW b \in Seq(Toks), NEW c \in Seq(Toks)
      PROVE  (a \o b) \o c = a \o (b \o c)
  BY ConcatAssociative
<1>2. ASSUME NEW a \in Seq(Toks), NEW b \in Seq(Toks) PROVE a \o b \in Seq(Toks)
  BY ConcatProperties
<1> QED BY <1>1, <1>2 DEF Text, Joined

LEMMA PopsWhole ==
  \A O, W, R \in Text, t \in Toks :
    t.k = "(" /\ (\A x \in 1 .. Len(W) : W[x].k \in Operators) =>
      UpToParen(Joined(Append(O, t), W), R) = <<O, Joined(R, Down(W))>>
<1>1. ASSUME NEW O \in Text, NEW W \in Text, NEW R \in Text, NEW t \in Toks, t.k = "(",
             \A x \in 1 .. Len(W) : W[x].k \in Operators
      PROVE  UpToParen(Joined(Append(O, t), W), R) = <<O, Joined(R, Down(W))>>
  BY <1>1, PopsToParen DEF Text, Joined
<1> QED BY <1>1

LEMMA PopsWeaker ==
  \A O, W, R \in Text, k \in Operators :
    Weaker(O, k) /\ (\A x \in 1 .. Len(W) : W[x].k \in Operators /\ get_priority(k) <= get_priority(W[x].k)) =>
      UpToWeaker(Joined(O, W), R, k) = <<O, Joined(R, Down(W))>>
<1>1. ASSUME NEW O \in Text, NEW W \in Text, NEW R \in Text, NEW k \in Operators, Weaker(O, k),
             \A x \in 1 .. Len(W) : W[x].k \in Operators /\ get_priority(k) <= get_priority(W[x].k)
      PROVE  UpToWeaker(Joined(O, W), R, k) = <<O, Joined(R, Down(W))>>
  BY <1>1, PopsToWeaker DEF Text, Joined
<1> QED BY <1>1

(* Both operands and the operator are joined to one text. *)
Joins(O0, P0, W1, Q1, W2, Q2, t) ==
  /\ <<t>> \o W2 \in Seq(Toks) /\ (Q1 \o Down(W1)) \o Q2 \in Seq(Toks)
  /\ Append(O0, t) \o W2 = O0 \o (<<t>> \o W2)
  /\ ((P0 \o Q1) \o Down(W1)) \o Q2 = P0 \o ((Q1 \o Down(W1)) \o Q2)
  /\ ((Q1 \o Down(W1)) \o Q2) \o Down(<<t>> \o W2) = Append((Q1 \o Down(W1)) \o (Q2 \o Down(W2)), t)

(* Both operands, then the operator. *)
LEMMA JoinOperands ==
  ASSUME NEW O0 \in Seq(Toks), NEW P0 \in Seq(Toks), NEW W1 \in Seq(Toks), NEW Q1 \in Seq(Toks),
         NEW W2 \in Seq(Toks), NEW Q2 \in Seq(Toks), NEW t \in Toks
  PROVE  Joins(O0, P0, W1, Q1, W2, Q2, t)
<1> DEFINE D1 == Down(W1)
           D2 == Down(W2)
           T == <<t>>
           A == Joined(Q1, D1)
           B == Joined(Q2, D2)
           Q == Joined(A, Q2)
           AB == Joined(A, B)
<1>1. /\ D1 \in Text /\ D2 \in Text /\ T \in Text
      /\ O0 \in Text /\ P0 \in Text /\ W2 \in Text /\ Q1 \in Text /\ Q2 \in Text
  BY DownIs DEF Text
<1>2. Append(O0, t) = Joined(O0, T)
  BY AppendIsConcat DEF Joined
<1>3. Down(<<t>> \o W2) = Append(D2, t)
  BY DownOfFirst
<1>4. Append(D2, t) = Joined(D2, T)
  <2>1. D2 \in Seq(Toks)
    BY DownIs
  <2> QED BY <2>1, AppendIsConcat DEF Joined
<1> HIDE DEF D1, D2, T
<1>5. A \in Text /\ B \in Text /\ Q \in Text /\ AB \in Text /\ Joined(T, W2) \in Text /\ Joined(D2, T) \in Text
  BY <1>1, JoinedInAnyOrder
<1>6. Append(AB, t) = Joined(AB, T)
  <2> HIDE DEF AB
  <2>1. AB \in Seq(Toks)
    BY <1>5 DEF Text
  <2> QED BY <2>1, AppendIsConcat DEF Joined, T
<1>7. Joined(Joined(O0, T), W2) = Joined(O0, Joined(T, W2))
  BY <1>1, JoinedInAnyOrder
<1>8. Joined(Joined(P0, Q1), D1) = Joined(P0, A)
  BY <1>1, JoinedInAnyOrder
<1>9. Joined(Q2, Joined(D2, T)) = Joined(B, T)
  BY <1>1, JoinedInAnyOrder
<1> HIDE DEF A, B
<1>10. Joined(Joined(P0, A), Q2) = Joined(P0, Q)
  BY <1>1, <1>5, JoinedInAnyOrder
<1>11. Joined(Q, Joined(D2, T)) = Joined(A, Joined(Q2, Joined(D2, T)))
  BY <1>1, <1>5, JoinedInAnyOrder
<1>12. Joined(A, Joined(B, T)) = Joined(AB, T)
  BY <1>1, <1>5, JoinedInAnyOrder
<1>13. /\ Joined(Joined(Joined(P0, Q1), D1), Q2) = Joined(P0, Q)
       /\ Joined(Q, Joined(D2, T)) = Append(AB, t)
  BY <1>6, <1>8, <1>9, <1>10, <1>11, <1>12, Zenon
<1>14. <<t>> \o W2 \in Seq(Toks) /\ (Q1 \o Down(W1)) \o Q2 \in Seq(Toks)
  BY <1>5 DEF Text, Joined, A, Q, T, D1
<1>15. Append(O0, t) \o W2 = O0 \o (<<t>> \o W2)
  BY <1>2, <1>7 DEF Joined, T
<1>16. ((P0 \o Q1) \o Down(W1)) \o Q2 = P0 \o ((Q1 \o Down(W1)) \o Q2)
  BY <1>13 DEF Joined, A, Q, D1
<1>17. ((Q1 \o Down(W1)) \o Q2) \o Down(<<t>> \o W2) = Append((Q1 \o Down(W1)) \o (Q2 \o Down(W2)), t)
  <2>1. Joined(Q, Down(<<t>> \o W2)) = Append(AB, t)
    BY <1>3, <1>4, <1>13, Zenon
  <2> QED BY <2>1 DEF Joined, A, B, AB, Q, D1, D2
<1> QED BY <1>14, <1>15, <1>16, <1>17 DEF Joins

(* A number, and a span in parentheses. *)
LEMMA NumberConverts ==
  ASSUME NEW s \in Seq(Toks), NEW i \in 1 .. Len(s), s[i].k = "num",
         NEW O \in Texts, NEW P \in Texts, ConvertsTo(s, O, P, Len(s)),
         SplitPoints(s, i, i, Operators) = {}
  PROVE  Converted(s, i, i, O, P)
<1>0. Len(s) \in Nat /\ s[i] \in Toks
  BY LenProperties, ElementOfSeq
<1>1. Meaning(s)[<<i, i>>] = Known(s[i].v)
  <2>1. i \in 1 .. Len(s) + 1 /\ i \in 0 .. Len(s)
    BY <1>0
  <2>2. Meaning(s)[<<i, i>>] = Body(s, Meaning(s), i, i)
    BY <2>1, MeaningIs
  <2> QED BY <2>2 DEF Body
<1>2. Computes(<<s[i]>>, Known(s[i].v)) /\ Known(s[i].v) \in Meanings
  BY <1>0, NumberComputes
<1>3. i - 1 \in Nat /\ O[i - 1] \in Seq(Toks) /\ P[i - 1] \in Seq(Toks)
  <2>1. i - 1 \in Nat
    OBVIOUS
  <2> QED BY <2>1 DEF Texts
<1>4. Turned(s[i], O[i - 1], P[i - 1], O[i], P[i])
  BY DEF ConvertsTo
<1>5. O[i] = O[i - 1] /\ P[i] = Append(P[i - 1], s[i])
  BY <1>4, Priorities DEF Turned
<1> DEFINE W == <<>>
           Q == <<s[i]>>
<1>6. W \in Seq(Toks) /\ Q \in Seq(Toks) /\ Len(W) = 0
  BY <1>0
<1>7. O[i] = O[i - 1] \o W
  BY <1>3, <1>5, ConcatEmptySeq
<1>8. P[i] = P[i - 1] \o Q
  BY <1>0, <1>3, <1>5, AppendIsConcat
<1>9. Q \o Down(W) = Q
  <2>1. Down(W) \in Seq(Toks) /\ Len(Down(W)) = 0
    BY <1>6, DownIs
  <2>2. Down(W) = <<>>
    BY <2>1, EmptySeq
  <2> QED BY <1>6, <2>2, ConcatEmptySeq
<1>10. Left(s, i, i, O[i - 1], P[i - 1], O[i], P[i], W, Q)
  <2>1. \A x \in 1 .. Len(W) : FALSE
    BY <1>6
  <2> QED BY <1>1, <1>2, <1>6, <1>7, <1>8, <1>9, <2>1 DEF Left
<1> HIDE DEF W, Q
<1>12. Meaning(s)[<<i, i>>] \in Meanings
  BY <1>1, <1>2
<1>13. \E V, R \in Seq(Toks) : Left(s, i, i, O[i - 1], P[i - 1], O[i], P[i], V, R)
  BY <1>6, <1>10
<1> QED BY <1>12, <1>13 DEF Converted

LEMMA ParensConvert ==
  ASSUME NEW s \in Seq(Toks), NEW i \in 1 .. Len(s), NEW j \in 1 .. Len(s), i + 1 < j,
         s[i].k = "(", s[j].k = ")",
         NEW O \in Texts, NEW P \in Texts, ConvertsTo(s, O, P, Len(s)),
         SplitPoints(s, i, j, Operators) = {}, Converted(s, i + 1, j - 1, O, P)
  PROVE  Converted(s, i, j, O, P)
<1>0. Len(s) \in Nat /\ s[i] \in Toks /\ s[j] \in Toks
  BY LenProperties, ElementOfSeq
<1> DEFINE m == Meaning(s)[<<i, j>>]
<1>1. m = Meaning(s)[<<i + 1, j - 1>>]
  <2>1. i \in 1 .. Len(s) + 1 /\ j \in 0 .. Len(s) /\ i # j
    BY <1>0
  <2>2. m = Body(s, Meaning(s), i, j)
    BY <2>1, MeaningIs
  <2> QED BY <2>1, <2>2 DEF Body
<1> HIDE DEF m
<1> SUFFICES ASSUME m # Malformed
             PROVE  /\ m \in Meanings
                    /\ \E W, Q \in Seq(Toks) : Left(s, i, j, O[i - 1], P[i - 1], O[j], P[j], W, Q)
  BY DEF Converted, m
<1>2. /\ m \in Meanings
      /\ (\A q \in SplitPoints(s, i + 1, j - 1, Operators) : Weaker(O[i], s[q].k)) =>
           \E W, Q \in Seq(Toks) : Left(s, i + 1, j - 1, O[i], P[i], O[j - 1], P[j - 1], W, Q)
  <2>1. (i + 1) - 1 = i
    OBVIOUS
  <2> QED BY <1>1, <2>1 DEF Converted
<1>3. /\ i - 1 \in Nat /\ O[i - 1] \in Seq(Toks) /\ P[i - 1] \in Seq(Toks)
      /\ i \in Nat /\ O[i] \in Seq(Toks)
  <2>1. i - 1 \in Nat /\ i \in Nat
    OBVIOUS
  <2> QED BY <2>1 DEF Texts
<1>4. Turned(s[i], O[i - 1], P[i - 1], O[i], P[i])
  BY DEF ConvertsTo
<1>5. O[i] = Append(O[i - 1], s[i]) /\ P[i] = P[i - 1]
  BY <1>4, Priorities DEF Turned
<1>6. \A q \in SplitPoints(s, i + 1, j - 1, Operators) : Weaker(O[i], s[q].k)
  <2> SUFFICES ASSUME NEW q \in SplitPoints(s, i + 1, j - 1, Operators) PROVE Weaker(O[i], s[q].k)
    OBVIOUS
  <2>1. s[q].k \in Operators
    BY DEF SplitPoints
  <2>2. Top(O[i]) = s[i]
    BY <1>0, <1>3, <1>5, AppendProperties DEF Top
  <2>3. get_priority(Top(O[i]).k) = 0 /\ get_priority(s[q].k) \in 1 .. 2
    BY <2>1, <2>2, Priorities
  <2> QED BY <2>3 DEF Weaker
<1>7. PICK W \in Seq(Toks), Q \in Seq(Toks) : Left(s, i + 1, j - 1, O[i], P[i], O[j - 1], P[j - 1], W, Q)
  BY <1>2, <1>6
<1>8. /\ O[j - 1] = Append(O[i - 1], s[i]) \o W /\ P[j - 1] = P[i - 1] \o Q
      /\ Computes(Q \o Down(W), m)
      /\ \A x \in 1 .. Len(W) : W[x].k \in Operators
  BY <1>1, <1>5, <1>7 DEF Left
<1>9. Turned(s[j], O[j - 1], P[j - 1], O[j], P[j])
  BY DEF ConvertsTo
<1>10. <<O[j], P[j]>> = UpToParen(O[j - 1], P[j - 1])
  BY <1>9, Priorities DEF Turned
<1> DEFINE O1 == O[i - 1]
           P1 == P[i - 1]
           O2 == O[j - 1]
           P2 == P[j - 1]
           t == s[i]
           R == Q \o Down(W)
           E == <<>>
<1>11. /\ O1 \in Seq(Toks) /\ P1 \in Seq(Toks) /\ t \in Toks /\ t.k = "("
       /\ O2 = Append(O1, t) \o W /\ P2 = P1 \o Q /\ <<O[j], P[j]>> = UpToParen(O2, P2)
  BY <1>0, <1>3, <1>8, <1>10
<1>12. \A x \in 1 .. Len(W) : W[x].k \in Operators
  BY <1>8
<1>13. O[j] = O1 /\ P[j] = P1 \o R /\ R \in Seq(Toks)
  <2> HIDE DEF O1, P1, O2, P2, t
  <2>1. P2 \in Seq(Toks)
    BY <1>11, ConcatProperties
  <2>2. UpToParen(Append(O1, t) \o W, P2) = <<O1, P2 \o Down(W)>>
    <3>1. /\ O1 \in Text /\ W \in Text /\ P2 \in Text /\ t \in Toks /\ t.k = "("
          /\ \A x \in 1 .. Len(W) : W[x].k \in Operators
      BY <1>11, <1>12, <2>1 DEF Text
    <3>2. UpToParen(Joined(Append(O1, t), W), P2) = <<O1, Joined(P2, Down(W))>>
      BY <3>1, PopsWhole
    <3> QED BY <3>2 DEF Joined
  <2>3. <<O[j], P[j]>> = <<O1, P2 \o Down(W)>>
    BY <1>11, <2>2, Zenon
  <2>4. O[j] = O1 /\ P[j] = P2 \o Down(W)
    BY <2>3
  <2>5. Down(W) \in Seq(Toks)
    BY DownIs
  <2>6. (P1 \o Q) \o Down(W) = P1 \o (Q \o Down(W)) /\ Q \o Down(W) \in Seq(Toks)
    <3>1. P1 \in Text /\ Down(W) \in Text /\ Q \in Text
      BY <1>11, <2>5 DEF Text
    <3>2. Joined(Joined(P1, Q), Down(W)) = Joined(P1, Joined(Q, Down(W))) /\ Joined(Q, Down(W)) \in Text
      BY <3>1, JoinedInAnyOrder
    <3> QED BY <3>2 DEF Joined, Text
  <2> QED BY <2>4, <2>6, <1>11, Zenon
<1>15. R \in Seq(Toks) /\ P[j] = P[i - 1] \o R /\ O[j] = O[i - 1]
  BY <1>13
<1>16. E \in Seq(Toks) /\ Len(E) = 0 /\ O[j] = O[i - 1] \o E
  BY <1>3, <1>15, ConcatEmptySeq
<1>17. R \o Down(E) = R
  <2>1. Down(E) \in Seq(Toks) /\ Len(Down(E)) = 0
    BY <1>16, DownIs
  <2>2. Down(E) = <<>>
    BY <2>1, EmptySeq
  <2> QED BY <1>15, <2>2, ConcatEmptySeq
<1>18. Computes(R, m)
  BY <1>8
<1> HIDE DEF R, E, O1, P1, O2, P2, t
<1>19. Left(s, i, j, O[i - 1], P[i - 1], O[j], P[j], E, R)
  <2>1. \A x \in 1 .. Len(E) : FALSE
    BY <1>16
  <2>2. Computes(R \o Down(E), m)
    BY <1>17, <1>18
  <2> QED BY <1>15, <1>16, <2>1, <2>2 DEF Left, m
<1>22. \E V, U \in Seq(Toks) : Left(s, i, j, O[i - 1], P[i - 1], O[j], P[j], V, U)
  BY <1>15, <1>16, <1>19
<1> QED BY <1>2, <1>22, Zenon

Sides(s, i, j, p, t, O0, P0, O1, P1, O2, P2, O3, P3, W1, Q1, W2, Q2) ==
  /\ Left(s, i, p - 1, O0, P0, O1, P1, W1, Q1) /\ Left(s, p + 1, j, O2, P2, O3, P3, W2, Q2)
  /\ O2 = Append(O0, t) /\ P2 = Joined(P1, Down(W1))
  /\ Meaning(s)[<<i, p - 1>>] \in Meanings /\ Meaning(s)[<<p + 1, j>>] \in Meanings
  /\ Meaning(s)[<<i, j>>] = Combined(t.k, Meaning(s)[<<i, p - 1>>], Meaning(s)[<<p + 1, j>>])

(* Both sides of a split stand upon the stack of the tokens before. *)
LEMMA SidesMeet ==
  ASSUME NEW s \in Seq(Toks), NEW i \in 1 .. Len(s) + 1, NEW j \in 0 .. Len(s),
         NEW p \in SplitPoints(s, i, j, Operators), NEW t \in Toks, t = s[p],
         NEW O0 \in Text, NEW P0 \in Text, NEW O1, NEW P1, NEW O2, NEW P2, NEW O3, NEW P3,
         NEW W1, NEW Q1, NEW W2, NEW Q2,
         Sides(s, i, j, p, t, O0, P0, O1, P1, O2, P2, O3, P3, W1, Q1, W2, Q2)
  PROVE  \E W, Q \in Seq(Toks) : Left(s, i, j, O0, P0, O3, P3, W, Q)
<1> DEFINE W == <<t>> \o W2
           Q == (Q1 \o Down(W1)) \o Q2
           a == Meaning(s)[<<i, p - 1>>]
           b == Meaning(s)[<<p + 1, j>>]
<1>1. /\ W1 \in Seq(Toks) /\ Q1 \in Seq(Toks) /\ P1 = P0 \o Q1 /\ Computes(Q1 \o Down(W1), a)
  BY DEF Left, Sides
<1>2. /\ W2 \in Seq(Toks) /\ Q2 \in Seq(Toks) /\ O3 = O2 \o W2 /\ P3 = P2 \o Q2
      /\ Computes(Q2 \o Down(W2), b)
      /\ \A x \in 1 .. Len(W2) :
           /\ W2[x].k \in Operators
           /\ \E q \in SplitPoints(s, p + 1, j, Operators) : get_priority(s[q].k) <= get_priority(W2[x].k)
  BY DEF Left, Sides
<1>3. t.k \in Operators
  BY DEF SplitPoints
<1>4. /\ W \in Seq(Toks) /\ Q \in Seq(Toks)
      /\ Append(O0, t) \o W2 = O0 \o W
      /\ ((P0 \o Q1) \o Down(W1)) \o Q2 = P0 \o Q
      /\ Q \o Down(W) = Append((Q1 \o Down(W1)) \o (Q2 \o Down(W2)), t)
  <2>1. O0 \in Seq(Toks) /\ P0 \in Seq(Toks)
    BY DEF Text
  <2>2. Joins(O0, P0, W1, Q1, W2, Q2, t)
    BY <1>1, <1>2, <2>1, JoinOperands
  <2> QED BY <2>2 DEF Joins
<1>5. O3 = O0 \o W /\ P3 = P0 \o Q
  <2>1. P2 = (P0 \o Q1) \o Down(W1)
    BY <1>1 DEF Joined, Sides
  <2>2. O2 = Append(O0, t)
    BY DEF Sides
  <2> QED BY <1>2, <1>4, <2>1, <2>2
<1>6. Computes(Q \o Down(W), Meaning(s)[<<i, j>>])
  <2>1. Computes(Append((Q1 \o Down(W1)) \o (Q2 \o Down(W2)), t), Combined(t.k, a, b))
    <3> DEFINE A == Q1 \o Down(W1)
               B == Q2 \o Down(W2)
    <3>1. Computes(A, a) /\ Computes(B, b) /\ a \in Meanings /\ b \in Meanings
      BY <1>1, <1>2 DEF Sides
    <3> HIDE DEF A, B, a, b
    <3>2. Computes(Append(A \o B, t), Combined(t.k, a, b))
      BY <1>3, <3>1, BinaryComputes
    <3> QED BY <3>2 DEF A, B
  <2>2. Meaning(s)[<<i, j>>] = Combined(t.k, a, b)
    BY DEF Sides
  <2> QED BY <1>4, <2>1, <2>2
<1>7. Len(W2) \in Nat /\ Len(W) = 1 + Len(W2) /\ W[1] = t /\ \A x \in 1 .. Len(W2) : W[x + 1] = W2[x]
  <2> DEFINE T == <<t>>
  <2>1. T \in Seq(Toks) /\ Len(T) = 1 /\ T[1] = t /\ Len(W2) \in Nat
    BY <1>2, LenProperties
  <2> HIDE DEF T
  <2>2. /\ Len(T \o W2) = Len(T) + Len(W2)
        /\ \A x \in 1 .. Len(T) + Len(W2) : (T \o W2)[x] = IF x <= Len(T) THEN T[x] ELSE W2[x - Len(T)]
    BY <1>2, <2>1, ConcatProperties
  <2> DEFINE V == T \o W2
  <2> HIDE DEF V
  <2>3. Len(V) = 1 + Len(W2) /\ \A x \in 1 .. 1 + Len(W2) : V[x] = IF x <= 1 THEN T[x] ELSE W2[x - 1]
    BY <2>1, <2>2 DEF V
  <2>4. V[1] = t
    BY <2>1, <2>3
  <2>5. ASSUME NEW x \in 1 .. Len(W2) PROVE V[x + 1] = W2[x]
    <3>1. x + 1 \in 1 .. 1 + Len(W2) /\ ~(x + 1 <= 1) /\ (x + 1) - 1 = x
      BY <2>1
    <3> QED BY <3>1, <2>3
  <2> QED BY <2>1, <2>3, <2>4, <2>5 DEF V, T
<1> HIDE DEF W, Q
<1>8. ASSUME NEW x \in 1 .. Len(W)
      PROVE  /\ W[x].k \in Operators
             /\ \E q \in SplitPoints(s, i, j, Operators) : get_priority(s[q].k) <= get_priority(W[x].k)
  <2>1. CASE x = 1
    <3>1. W[x] = t /\ get_priority(t.k) \in 1 .. 2
      BY <2>1, <1>3, <1>7, Priorities
    <3>2. get_priority(s[p].k) <= get_priority(W[x].k)
      BY <3>1
    <3> QED BY <3>1, <3>2, <1>3
  <2>2. CASE x # 1
    <3>1. x - 1 \in 1 .. Len(W2) /\ (x - 1) + 1 = x
      BY <2>2, <1>7
    <3>2. W[x] = W2[x - 1]
      BY <3>1, <1>7
    <3>3. SplitPoints(s, p + 1, j, Operators) \subseteq SplitPoints(s, i, j, Operators)
      BY SplitPointsOfSides
    <3> QED BY <3>1, <3>2, <3>3, <1>2
  <2> QED BY <2>1, <2>2
<1>9. Left(s, i, j, O0, P0, O3, P3, W, Q)
  BY <1>4, <1>5, <1>6, <1>8 DEF Left
<1> QED BY <1>4, <1>9

(* An operator pops what the tokens on its left have left. *)
Operates(t, O0, O1, P1, O2, P2, W) ==
  /\ t \in Toks /\ t.k \in Operators /\ O0 \in Text /\ P1 \in Text /\ W \in Text
  /\ O1 = Joined(O0, W) /\ Weaker(O0, t.k)
  /\ \A x \in 1 .. Len(W) : W[x].k \in Operators /\ get_priority(t.k) <= get_priority(W[x].k)
  /\ Turned(t, O1, P1, O2, P2)

LEMMA OperatorPops ==
  ASSUME NEW t, NEW O0, NEW O1, NEW P1, NEW O2, NEW P2, NEW W, Operates(t, O0, O1, P1, O2, P2, W)
  PROVE  O2 = Append(O0, t) /\ P2 = Joined(P1, Down(W))
<1>0. /\ t \in Toks /\ t.k \in Operators /\ O0 \in Text /\ P1 \in Text /\ W \in Text
      /\ O1 = Joined(O0, W) /\ Weaker(O0, t.k)
      /\ \A x \in 1 .. Len(W) : W[x].k \in Operators /\ get_priority(t.k) <= get_priority(W[x].k)
      /\ Turned(t, O1, P1, O2, P2)
  BY DEF Operates
<1>1. O2 = Append(UpToWeaker(O1, P1, t.k)[1], t) /\ P2 = UpToWeaker(O1, P1, t.k)[2]
  BY <1>0, Priorities DEF Turned
<1>2. UpToWeaker(Joined(O0, W), P1, t.k) = <<O0, Joined(P1, Down(W))>>
  BY <1>0, PopsWeaker
<1>3. UpToWeaker(O1, P1, t.k) = <<O0, Joined(P1, Down(W))>>
  BY <1>0, <1>2
<1> QED BY <1>1, <1>3

LEMMA SplitConverts ==
  ASSUME NEW s \in Seq(Toks), NEW i \in 1 .. Len(s) + 1, NEW j \in 0 .. Len(s),
         NEW O \in Texts, NEW P \in Texts, ConvertsTo(s, O, P, Len(s)),
         SplitPoints(s, i, j, Operators) # {},
         \A p \in i .. j : Converted(s, i, p - 1, O, P) /\ Converted(s, p + 1, j, O, P)
  PROVE  Converted(s, i, j, O, P)
<1> DEFINE p == Split(s, i, j)
           t == s[p]
           m == Meaning(s)[<<i, j>>]
           a == Meaning(s)[<<i, p - 1>>]
           b == Meaning(s)[<<p + 1, j>>]
<1>0. Len(s) \in Nat /\ i \in Int /\ j \in Int
  BY LenProperties
<1>1. /\ p \in i .. j /\ t.k \in Operators /\ p \in SplitPoints(s, i, j, Operators)
      /\ \A q \in SplitPoints(s, i, j, Operators) :
           /\ get_priority(t.k) <= get_priority(s[q].k)
           /\ p < q => get_priority(t.k) < get_priority(s[q].k)
  BY SplitIs
<1>2. m = Combined(t.k, a, b)
  <2>1. m = Body(s, Meaning(s), i, j)
    BY MeaningIs
  <2> QED BY <2>1 DEF Body
<1> HIDE DEF p
<1>3. p \in 1 .. Len(s) /\ p \in Nat /\ p - 1 \in Nat /\ i - 1 \in Nat /\ j \in Nat /\ t \in Toks
  <2>1. p \in 1 .. Len(s)
    BY <1>0, <1>1
  <2> QED BY <2>1, <1>0, ElementOfSeq
<1>4. Converted(s, i, p - 1, O, P) /\ Converted(s, p + 1, j, O, P)
  BY <1>1
<1> SUFFICES ASSUME m # Malformed
             PROVE  /\ m \in Meanings
                    /\ (\A q \in SplitPoints(s, i, j, Operators) : Weaker(O[i - 1], s[q].k)) =>
                         \E W, Q \in Seq(Toks) : Left(s, i, j, O[i - 1], P[i - 1], O[j], P[j], W, Q)
  BY DEF Converted
<1>5. a # Malformed /\ b # Malformed
  BY <1>2 DEF Combined
<1>6. /\ a \in Meanings
      /\ (\A q \in SplitPoints(s, i, p - 1, Operators) : Weaker(O[i - 1], s[q].k)) =>
           \E W, Q \in Seq(Toks) : Left(s, i, p - 1, O[i - 1], P[i - 1], O[p - 1], P[p - 1], W, Q)
  BY <1>4, <1>5 DEF Converted
<1>7. /\ b \in Meanings
      /\ (\A q \in SplitPoints(s, p + 1, j, Operators) : Weaker(O[p], s[q].k)) =>
           \E W, Q \in Seq(Toks) : Left(s, p + 1, j, O[p], P[p], O[j], P[j], W, Q)
  <2>1. (p + 1) - 1 = p
    BY <1>3
  <2> QED BY <1>4, <1>5, <2>1 DEF Converted
<1>8. m \in Meanings
  <2>1. Combined(t.k, a, b) \in Meanings
    <3> HIDE DEF a, b, t
    <3> QED BY <1>1, <1>6, <1>7, CombinedIs
  <2> QED BY <1>2, <2>1
<1>10. ASSUME \A q \in SplitPoints(s, i, j, Operators) : Weaker(O[i - 1], s[q].k)
       PROVE  \E W, Q \in Seq(Toks) : Left(s, i, j, O[i - 1], P[i - 1], O[j], P[j], W, Q)
  <2>1. /\ SplitPoints(s, i, p - 1, Operators) \subseteq SplitPoints(s, i, j, Operators)
        /\ SplitPoints(s, p + 1, j, Operators) \subseteq SplitPoints(s, i, j, Operators)
    BY <1>1, SplitPointsOfSides
  <2>2. PICK W1 \in Seq(Toks), Q1 \in Seq(Toks) :
          Left(s, i, p - 1, O[i - 1], P[i - 1], O[p - 1], P[p - 1], W1, Q1)
    BY <1>6, <1>10, <2>1
  <2> DEFINE O0 == O[i - 1]
             P0 == P[i - 1]
             O1 == O[p - 1]
             P1 == P[p - 1]
             O2 == O[p]
             P2 == P[p]
             O3 == O[j]
             P3 == P[j]
  <2>3. O0 \in Text /\ P0 \in Text /\ P1 \in Text /\ W1 \in Text /\ O2 \in Text
    BY <1>3 DEF Texts, Text
  <2>4. O1 = O0 \o W1 /\ \A x \in 1 .. Len(W1) : W1[x].k \in Operators /\ get_priority(t.k) <= get_priority(W1[x].k)
    <3>1. /\ O1 = O0 \o W1
          /\ \A x \in 1 .. Len(W1) :
               /\ W1[x].k \in Operators
               /\ \E q \in SplitPoints(s, i, p - 1, Operators) : get_priority(s[q].k) <= get_priority(W1[x].k)
      BY <2>2 DEF Left
    <3>2. ASSUME NEW x \in 1 .. Len(W1) PROVE get_priority(t.k) <= get_priority(W1[x].k)
      <4>1. PICK q \in SplitPoints(s, i, p - 1, Operators) : get_priority(s[q].k) <= get_priority(W1[x].k)
        BY <3>1
      <4>2. q \in SplitPoints(s, i, j, Operators) /\ s[q].k \in Operators /\ W1[x].k \in Operators
        BY <2>1, <3>1 DEF SplitPoints
      <4>3. /\ get_priority(t.k) <= get_priority(s[q].k)
            /\ get_priority(t.k) \in 1 .. 2 /\ get_priority(s[q].k) \in 1 .. 2 /\ get_priority(W1[x].k) \in 1 .. 2
        BY <1>1, <4>2, Priorities
      <4> QED BY <4>1, <4>3
    <3> QED BY <3>1, <3>2
  <2>5. Turned(t, O1, P1, O2, P2)
    BY <1>3 DEF ConvertsTo
  <2>6. Weaker(O0, t.k)
    BY <1>1, <1>10
  <2>7. O2 = Append(O0, t) /\ P2 = Joined(P1, Down(W1))
    <3>1. t \in Toks /\ t.k \in Operators /\ O1 = Joined(O0, W1)
      BY <1>1, <1>3, <2>4 DEF Joined
    <3>2. \A x \in 1 .. Len(W1) : W1[x].k \in Operators /\ get_priority(t.k) <= get_priority(W1[x].k)
      BY <2>4
    <3> HIDE DEF O0, P0, O1, P1, O2, P2, t
    <3>3. Operates(t, O0, O1, P1, O2, P2, W1)
      BY <2>3, <2>5, <2>6, <3>1, <3>2 DEF Operates
    <3> QED BY <3>3, OperatorPops
  <2>8. ASSUME NEW q \in SplitPoints(s, p + 1, j, Operators) PROVE Weaker(O2, s[q].k)
    <3>1. q \in SplitPoints(s, i, j, Operators) /\ q \in p + 1 .. j
      BY <2>1 DEF SplitPoints
    <3>2. get_priority(t.k) < get_priority(s[q].k)
      BY <1>1, <1>3, <3>1
    <3>3. Top(O2) = t
      <4> HIDE DEF O0, O2, t
      <4>1. O0 \in Seq(Toks) /\ t \in Toks
        BY <1>3, <2>3 DEF Text
      <4>2. Len(Append(O0, t)) = Len(O0) + 1 /\ Append(O0, t)[Len(O0) + 1] = t
        BY <4>1, AppendProperties
      <4> QED BY <4>2, <2>7 DEF Top
    <3> QED BY <3>2, <3>3 DEF Weaker
  <2>9. PICK W2 \in Seq(Toks), Q2 \in Seq(Toks) : Left(s, p + 1, j, O2, P2, O3, P3, W2, Q2)
    BY <1>7, <2>8
  <2> HIDE DEF O0, P0, O1, P1, O2, P2, O3, P3
  <2>10. Left(s, i, p - 1, O0, P0, O1, P1, W1, Q1)
    BY <2>2 DEF O0, P0, O1, P1
  <2>11. \E W, Q \in Seq(Toks) : Left(s, i, j, O0, P0, O3, P3, W, Q)
    <3>1. Sides(s, i, j, p, t, O0, P0, O1, P1, O2, P2, O3, P3, W1, Q1, W2, Q2)
      BY <1>2, <1>6, <1>7, <2>7, <2>9, <2>10 DEF Sides
    <3>2. t \in Toks /\ t = s[p] /\ p \in SplitPoints(s, i, j, Operators)
      BY <1>1, <1>3
    <3> HIDE DEF t
    <3> QED BY <2>3, <3>1, <3>2, SidesMeet, Zenon
  <2> QED BY <2>11 DEF O0, P0, O3, P3
<1> QED BY <1>8, <1>10

(***************************************************************************)
(* Every span that means something is converted to what computes it.       *)
(***************************************************************************)
LEMMA SpansConvert ==
  ASSUME NEW s \in Seq(Toks), NEW O \in Texts, NEW P \in Texts, ConvertsTo(s, O, P, Len(s))
  PROVE  \A i \in 1 .. Len(s) + 1, j \in 0 .. Len(s) : Converted(s, i, j, O, P)
<1>0. Len(s) \in Nat
  BY LenProperties
<1> DEFINE Bad(i, j) == ~Converted(s, i, j, O, P)
           Lengths == {n \in Nat : \E i \in 1 .. Len(s) + 1, j \in 0 .. Len(s) : Bad(i, j) /\ n = Len(s) + 1 + j - i}
<1> SUFFICES ASSUME Lengths # {} PROVE FALSE
  <2>1. \A i \in 1 .. Len(s) + 1, j \in 0 .. Len(s) : Len(s) + 1 + j - i \in Nat
    BY <1>0
  <2> QED BY <2>1
<1>1. PICK n \in Lengths : \A k \in Lengths : n <= k
  BY LeastNumber
<1>2. PICK i \in 1 .. Len(s) + 1, j \in 0 .. Len(s) : Bad(i, j) /\ n = Len(s) + 1 + j - i
  BY <1>1
<1>3. ASSUME NEW a \in 1 .. Len(s) + 1, NEW b \in 0 .. Len(s), b - a < j - i
      PROVE  Converted(s, a, b, O, P)
  <2> SUFFICES ASSUME Bad(a, b) PROVE FALSE
    OBVIOUS
  <2>1. Len(s) + 1 + b - a \in Nat
    BY <1>0
  <2>2. Len(s) + 1 + b - a \in Lengths
    BY <2>1
  <2>3. n <= Len(s) + 1 + b - a
    BY <1>1, <2>2
  <2> QED BY <2>3, <1>2, <1>3, <1>0
<1> HIDE DEF Lengths
<1>4. CASE SplitPoints(s, i, j, Operators) # {}
  <2>1. ASSUME NEW p \in i .. j PROVE Converted(s, i, p - 1, O, P) /\ Converted(s, p + 1, j, O, P)
    <3>1. /\ p - 1 \in 0 .. Len(s) /\ (p - 1) - i < j - i
          /\ p + 1 \in 1 .. Len(s) + 1 /\ j - (p + 1) < j - i
      BY <1>0
    <3> QED BY <3>1, <1>3
  <2>2. Converted(s, i, j, O, P)
    BY <1>4, <2>1, SplitConverts
  <2> QED BY <2>2, <1>2
<1>5. CASE SplitPoints(s, i, j, Operators) = {}
  <2>0. Meaning(s)[<<i, j>>] = Body(s, Meaning(s), i, j)
    BY MeaningIs
  <2>1. CASE i = j /\ s[i].k = "num"
    <3>1. i \in 1 .. Len(s)
      BY <2>1, <1>0
    <3>2. Converted(s, i, i, O, P)
      BY <3>1, <2>1, <1>5, NumberConverts
    <3> QED BY <3>2, <2>1, <1>2
  <2>2. CASE i + 1 < j /\ s[i].k = "(" /\ s[j].k = ")"
    <3>1. /\ i \in 1 .. Len(s) /\ j \in 1 .. Len(s)
          /\ i + 1 \in 1 .. Len(s) + 1 /\ j - 1 \in 0 .. Len(s) /\ (j - 1) - (i + 1) < j - i
      BY <2>2, <1>0
    <3>2. Converted(s, i + 1, j - 1, O, P)
      BY <3>1, <1>3
    <3>3. Converted(s, i, j, O, P)
      BY <3>1, <3>2, <2>2, <1>5, ParensConvert
    <3> QED BY <3>3, <1>2
  <2>3. CASE ~(i = j /\ s[i].k = "num") /\ ~(i + 1 < j /\ s[i].k = "(" /\ s[j].k = ")")
    <3>1. Meaning(s)[<<i, j>>] = Malformed
      BY <2>0, <2>3, <1>5 DEF Body
    <3> QED BY <3>1, <1>2 DEF Converted
  <2> QED BY <2>1, <2>2, <2>3
<1> QED BY <1>4, <1>5

(* What means something has no unknown character. *)
KnownTokens(s, i, j) ==
  Meaning(s)[<<i, j>>] # Malformed => \A q \in i .. j : s[q].k \in Operators \cup {"num", "(", ")"}

LEMMA TokensAreKnown ==
  ASSUME NEW s \in Seq(Toks)
  PROVE  \A i \in 1 .. Len(s) + 1, j \in 0 .. Len(s) : KnownTokens(s, i, j)
<1>0. Len(s) \in Nat
  BY LenProperties
<1> DEFINE Bad(i, j) == ~KnownTokens(s, i, j)
           Lengths == {n \in Nat : \E i \in 1 .. Len(s) + 1, j \in 0 .. Len(s) : Bad(i, j) /\ n = Len(s) + 1 + j - i}
<1> SUFFICES ASSUME Lengths # {} PROVE FALSE
  <2>1. \A i \in 1 .. Len(s) + 1, j \in 0 .. Len(s) : Len(s) + 1 + j - i \in Nat
    BY <1>0
  <2> QED BY <2>1
<1>1. PICK n \in Lengths : \A k \in Lengths : n <= k
  BY LeastNumber
<1>2. PICK i \in 1 .. Len(s) + 1, j \in 0 .. Len(s) : Bad(i, j) /\ n = Len(s) + 1 + j - i
  BY <1>1
<1>3. ASSUME NEW a \in 1 .. Len(s) + 1, NEW b \in 0 .. Len(s), b - a < j - i
      PROVE  KnownTokens(s, a, b)
  <2> SUFFICES ASSUME Bad(a, b) PROVE FALSE
    OBVIOUS
  <2>1. Len(s) + 1 + b - a \in Nat
    BY <1>0
  <2>2. Len(s) + 1 + b - a \in Lengths
    BY <2>1
  <2>3. n <= Len(s) + 1 + b - a
    BY <1>1, <2>2
  <2> QED BY <2>3, <1>2, <1>3, <1>0
<1> HIDE DEF Lengths
<1>4. Meaning(s)[<<i, j>>] = Body(s, Meaning(s), i, j) /\ Meaning(s)[<<i, j>>] # Malformed
  BY <1>2, MeaningIs DEF KnownTokens
<1> DEFINE p == Split(s, i, j)
<1>5. CASE SplitPoints(s, i, j, Operators) # {}
  <2>1. p \in i .. j /\ s[p].k \in Operators
    BY <1>5, SplitIs
  <2>2. Meaning(s)[<<i, j>>] = Combined(s[p].k, Meaning(s)[<<i, p - 1>>], Meaning(s)[<<p + 1, j>>])
    BY <1>4, <1>5 DEF Body
  <2> HIDE DEF p
  <2>3. Meaning(s)[<<i, p - 1>>] # Malformed /\ Meaning(s)[<<p + 1, j>>] # Malformed
    BY <2>2, <1>4 DEF Combined
  <2>4. /\ p - 1 \in 0 .. Len(s) /\ (p - 1) - i < j - i
        /\ p + 1 \in 1 .. Len(s) + 1 /\ j - (p + 1) < j - i
    BY <1>0, <2>1
  <2>5. KnownTokens(s, i, p - 1) /\ KnownTokens(s, p + 1, j)
    BY <2>4, <1>3
  <2>6. \A q \in i .. j : q = p \/ q \in i .. p - 1 \/ q \in p + 1 .. j
    BY <1>0, <2>1
  <2>7. \A q \in i .. j : s[q].k \in Operators \cup {"num", "(", ")"}
    BY <2>1, <2>3, <2>5, <2>6 DEF KnownTokens
  <2> QED BY <2>7, <1>2 DEF KnownTokens
<1>6. CASE SplitPoints(s, i, j, Operators) = {}
  <2>1. CASE i = j /\ s[i].k = "num"
    <3>1. \A q \in i .. j : q = i
      BY <2>1
    <3> QED BY <3>1, <2>1, <1>2 DEF KnownTokens
  <2>2. CASE ~(i = j /\ s[i].k = "num") /\ i + 1 < j /\ s[i].k = "(" /\ s[j].k = ")"
    <3>1. /\ i + 1 \in 1 .. Len(s) + 1 /\ j - 1 \in 0 .. Len(s) /\ (j - 1) - (i + 1) < j - i
      BY <2>2, <1>0
    <3>2. KnownTokens(s, i + 1, j - 1)
      BY <3>1, <1>3
    <3>3. Meaning(s)[<<i + 1, j - 1>>] # Malformed
      BY <2>2, <1>4, <1>6 DEF Body
    <3>4. \A q \in i .. j : q = i \/ q = j \/ q \in i + 1 .. j - 1
      OBVIOUS
    <3>5. \A q \in i .. j : s[q].k \in Operators \cup {"num", "(", ")"}
      BY <3>2, <3>3, <3>4, <2>2 DEF KnownTokens
    <3> QED BY <3>5, <1>2 DEF KnownTokens
  <2>3. CASE ~(i = j /\ s[i].k = "num") /\ ~(i + 1 < j /\ s[i].k = "(" /\ s[j].k = ")")
    <3>1. Meaning(s)[<<i, j>>] = Malformed
      BY <1>4, <2>3, <1>6 DEF Body
    <3> QED BY <3>1, <1>4
  <2> QED BY <2>1, <2>2, <2>3
<1> QED BY <1>5, <1>6

(***************************************************************************)
(* What the calculators keep true until something does not fit.            *)
(***************************************************************************)
Converting(s, a, o, p) ==
  /\ a \in 1 .. Len(s) + 1 /\ o \in Text /\ p \in Text
  /\ \E O, P \in Texts :
       /\ ConvertsTo(s, O, P, a - 1)
       /\ a <= Len(s) => o = O[a - 1] /\ p = P[a - 1]
       /\ Joined(p, Down(o)) = Joined(P[a - 1], Down(O[a - 1]))

Evaluating(s, p, a, u, size) ==
  /\ Value(s) \in Meanings /\ Computes(p, Value(s))
  /\ a \in 1 .. Len(p) + 1 /\ u \in Seq(Int) /\ Len(u) <= size
  /\ \E T \in Stacks : RunsTo(p, T, <<>>, a - 1) /\ T[a - 1] = u

ReturnsMeaning(s, r, x) ==
  CASE Value(s).is = "known" -> r = 0 /\ x = Value(s).val
    [] Value(s) = Undefined -> r = -4
    [] OTHER -> TRUE

CalcInv ==
  /\ program \in Programs /\ infix \in Inputs /\ dropped \in BOOLEAN
  /\ ~dropped /\ Value(infix) # Malformed =>
       /\ phase = "convert" => nums = <<>> /\ Converting(infix, at, ops, postfix)
       /\ phase = "evaluate" => Evaluating(infix, postfix, at, nums, program.STACKSIZE)
       /\ phase = "done" => ReturnsMeaning(infix, ret, result)

(* What the loops that pop leave and put out are texts. *)
LEMMA FromTopText ==
  ASSUME NEW W \in Text, NEW n \in 0 .. Len(W)
  PROVE  FromTop(W, n) \in Text /\ SubSeq(W, 1, n) \in Text /\ SubSeq(W, 1, n - 1) \in Text
<1>0. W \in Seq(Toks) /\ Len(W) \in Nat
  BY LenProperties DEF Text
<1>1. FromTop(W, n) \in Seq(Toks)
  BY <1>0, FromTopIs
<1>2. ASSUME NEW k \in Int, k <= Len(W) PROVE SubSeq(W, 1, k) \in Seq(Toks)
  <2>1. \A x \in 1 .. k : x \in 1 .. Len(W)
    BY <1>0, <1>2
  <2>2. \A x \in 1 .. k : W[x] \in Toks
    BY <2>1, <1>0, ElementOfSeq
  <2> QED BY <2>2, SubSeqProperties
<1>3. n \in Int /\ n <= Len(W) /\ n - 1 \in Int /\ n - 1 <= Len(W)
  BY <1>0
<1> QED BY <1>1, <1>2, <1>3 DEF Text

LEMMA TurnedTypes ==
  ASSUME NEW t \in Toks, NEW O \in Text, NEW P \in Text, NEW O2, NEW P2, Turned(t, O, P, O2, P2)
  PROVE  O2 \in Text /\ P2 \in Text
<1>0. O \in Seq(Toks) /\ P \in Seq(Toks) /\ Len(O) \in Nat /\ DOMAIN O = 1 .. Len(O)
  BY LenProperties DEF Text
<1>1. \A u \in Text : Append(u, t) \in Text
  <2>1. \A u \in Seq(Toks) : Append(u, t) \in Seq(Toks)
    BY AppendProperties
  <2> QED BY <2>1 DEF Text
<1>2. UpToParen(O, P)[1] \in Text /\ UpToParen(O, P)[2] \in Text
  <2> DEFINE S == {i \in DOMAIN O : O[i].k = "("}
             n == Highest(S)
  <2>1. S \in SUBSET (1 .. Len(O))
    BY <1>0
  <2>2. n \in 0 .. Len(O)
    <3> HIDE DEF S
    <3> QED BY <2>1, <1>0, HighestIs
  <2>3. UpToParen(O, P) = <<SubSeq(O, 1, n - 1), Joined(P, FromTop(O, n))>>
    BY DEF UpToParen, Joined
  <2> HIDE DEF n
  <2>4. FromTop(O, n) \in Text /\ SubSeq(O, 1, n - 1) \in Text
    BY <2>2, FromTopText
  <2>5. Joined(P, FromTop(O, n)) \in Text
    BY <2>4, JoinedInAnyOrder
  <2> QED BY <2>3, <2>4, <2>5
<1>3. UpToWeaker(O, P, t.k)[1] \in Text /\ UpToWeaker(O, P, t.k)[2] \in Text
  <2> DEFINE S == {i \in DOMAIN O : get_priority(O[i].k) < get_priority(t.k)}
             n == Highest(S)
  <2>1. S \in SUBSET (1 .. Len(O))
    BY <1>0
  <2>2. n \in 0 .. Len(O)
    <3> HIDE DEF S
    <3> QED BY <2>1, <1>0, HighestIs
  <2>3. UpToWeaker(O, P, t.k) = <<SubSeq(O, 1, n), Joined(P, FromTop(O, n))>>
    BY DEF UpToWeaker, Joined
  <2> HIDE DEF n
  <2>4. FromTop(O, n) \in Text /\ SubSeq(O, 1, n) \in Text
    BY <2>2, FromTopText
  <2>5. Joined(P, FromTop(O, n)) \in Text
    BY <2>4, JoinedInAnyOrder
  <2> QED BY <2>3, <2>4, <2>5
<1>4. CASE t.k = ")" /\ <<O2, P2>> = UpToParen(O, P)
  BY <1>2, <1>4
<1>5. CASE t.k \in Operators /\ O2 = Append(UpToWeaker(O, P, t.k)[1], t) /\ P2 = UpToWeaker(O, P, t.k)[2]
  BY <1>1, <1>3, <1>5
<1> QED BY <1>1, <1>4, <1>5 DEF Turned

(* One more token is converted. *)
LEMMA OneMoreTurn ==
  ASSUME NEW s \in Seq(Toks), NEW a, NEW o, NEW p, NEW o2, NEW p2,
         Converting(s, a, o, p), a <= Len(s), Turned(s[a], o, p, o2, p2)
  PROVE  Converting(s, a + 1, o2, p2)
<1>0. Len(s) \in Nat /\ a \in 1 .. Len(s) /\ o \in Text /\ p \in Text
  BY LenProperties DEF Converting
<1>1. PICK O \in Texts, P \in Texts : ConvertsTo(s, O, P, a - 1) /\ o = O[a - 1] /\ p = P[a - 1]
  BY DEF Converting
<1>2. s[a] \in Toks
  BY <1>0, ElementOfSeq
<1>3. o2 \in Text /\ p2 \in Text
  BY <1>0, <1>2, TurnedTypes
<1> DEFINE O2 == [O EXCEPT ![a] = o2]
           P2 == [P EXCEPT ![a] = p2]
<1>4. O2 \in Texts /\ P2 \in Texts
  BY <1>0, <1>3 DEF Texts, Text
<1>5. /\ O2[a] = o2 /\ P2[a] = p2
      /\ \A x \in 0 .. a - 1 : O2[x] = O[x] /\ P2[x] = P[x]
  BY <1>0 DEF Texts
<1> HIDE DEF O2, P2
<1>6. ConvertsTo(s, O2, P2, a)
  <2>1. O2[0] = <<>> /\ P2[0] = <<>>
    BY <1>0, <1>1, <1>5 DEF ConvertsTo
  <2>2. ASSUME NEW x \in 1 .. a PROVE Turned(s[x], O2[x - 1], P2[x - 1], O2[x], P2[x])
    <3>1. CASE x = a
      BY <3>1, <1>0, <1>1, <1>5
    <3>2. CASE x # a
      <4>1. x \in 1 .. a - 1 /\ x \in 0 .. a - 1 /\ x - 1 \in 0 .. a - 1
        BY <3>2, <1>0
      <4>2. Turned(s[x], O[x - 1], P[x - 1], O[x], P[x])
        BY <4>1, <1>1 DEF ConvertsTo
      <4> QED BY <4>1, <4>2, <1>5
    <3> QED BY <3>1, <3>2
  <2> QED BY <2>1, <2>2 DEF ConvertsTo
<1>7. (a + 1) - 1 = a /\ a + 1 \in 1 .. Len(s) + 1
  BY <1>0
<1> QED BY <1>3, <1>4, <1>5, <1>6, <1>7 DEF Converting

(* One operator of the stack is put out. *)
LEMMA DownOfLast ==
  ASSUME NEW o \in Text, NEW p \in Text, o # <<>>
  PROVE  /\ Popped(o) \in Text /\ Append(p, Top(o)) \in Text
         /\ Joined(Append(p, Top(o)), Down(Popped(o))) = Joined(p, Down(o))
<1> DEFINE B == Popped(o)
           t == Top(o)
           T == <<t>>
           V == T \o Down(B)
<1>0. o \in Seq(Toks) /\ p \in Seq(Toks) /\ Len(o) \in Nat /\ Len(o) # 0
  BY LenProperties, EmptySeq DEF Text
<1>1. \A x \in 1 .. Len(o) - 1 : o[x] \in Toks
  <2>1. \A x \in 1 .. Len(o) - 1 : x \in 1 .. Len(o)
    BY <1>0
  <2> QED BY <2>1, <1>0, ElementOfSeq
<1>2. /\ B \in Seq(Toks) /\ Len(B) = Len(o) - 1
      /\ \A x \in 1 .. Len(o) - 1 : B[x] = o[x]
  <2> DEFINE S == SubSeq(o, 1, Len(o) - 1)
  <2>1. /\ S \in Seq(Toks)
        /\ Len(S) = IF 1 <= Len(o) - 1 THEN (Len(o) - 1) - 1 + 1 ELSE 0
        /\ \A x \in 1 .. (Len(o) - 1) - 1 + 1 : S[x] = o[1 + x - 1]
    <3>1. Len(o) - 1 \in Int /\ 1 \in Int
      BY <1>0
    <3> QED BY <1>1, <3>1, SubSeqProperties
  <2> HIDE DEF S
  <2>2. S \in Seq(Toks) /\ Len(S) = Len(o) - 1 /\ \A x \in 1 .. Len(o) - 1 : S[x] = o[x]
    <3>1. (Len(o) - 1) - 1 + 1 = Len(o) - 1 /\ \A x \in 1 .. Len(o) - 1 : 1 + x - 1 = x
      BY <1>0
    <3>2. Len(S) = Len(o) - 1
      <4> DEFINE l == Len(o)
                 n == Len(S)
      <4>1. n = IF 1 <= l - 1 THEN (l - 1) - 1 + 1 ELSE 0
        BY <2>1, Zenon
      <4>2. l \in Nat /\ l # 0
        BY <1>0
      <4> HIDE DEF l, n
      <4>3. n = l - 1
        BY <4>1, <4>2
      <4> QED BY <4>3 DEF l, n
    <3>3. ASSUME NEW x \in 1 .. Len(o) - 1 PROVE S[x] = o[1 + x - 1]
      <4>1. x \in 1 .. (Len(o) - 1) - 1 + 1
        BY <1>0
      <4> QED BY <2>1, <4>1
    <3> QED BY <2>1, <3>1, <3>2, <3>3
  <2> QED BY <2>2 DEF S, Popped
<1>3. t \in Toks
  <2>1. Len(o) \in 1 .. Len(o)
    BY <1>0
  <2> QED BY <2>1, <1>0, ElementOfSeq DEF Top
<1>4. T \in Seq(Toks) /\ Len(T) = 1 /\ T[1] = t
  BY <1>3
<1>5. Down(B) \in Seq(Toks) /\ Len(Down(B)) = Len(B) /\ \A x \in 1 .. Len(B) : Down(B)[x] = B[Len(B) + 1 - x]
  BY <1>2, DownIs
<1>6. Down(o) \in Seq(Toks) /\ Len(Down(o)) = Len(o) /\ \A x \in 1 .. Len(o) : Down(o)[x] = o[Len(o) + 1 - x]
  BY <1>0, DownIs
<1> HIDE DEF B, T
<1>7. /\ V \in Seq(Toks) /\ Len(V) = 1 + Len(Down(B))
      /\ \A x \in 1 .. 1 + Len(Down(B)) : V[x] = IF x <= 1 THEN T[x] ELSE Down(B)[x - 1]
  <2> DEFINE D == Down(B)
  <2>1. D \in Seq(Toks) /\ V = T \o D
    BY <1>5
  <2> HIDE DEF D, V
  <2>2. /\ T \o D \in Seq(Toks) /\ Len(T \o D) = Len(T) + Len(D)
        /\ \A x \in 1 .. Len(T) + Len(D) : (T \o D)[x] = IF x <= Len(T) THEN T[x] ELSE D[x - Len(T)]
    BY <1>4, <2>1, ConcatProperties
  <2> QED BY <1>4, <2>1, <2>2 DEF D
<1> HIDE DEF V
<1>8. Down(o) = V
  <2>1. Len(V) = Len(Down(o)) /\ Len(Down(o)) = Len(o)
    BY <1>0, <1>2, <1>5, <1>6, <1>7
  <2>2. ASSUME NEW x \in 1 .. Len(o) PROVE Down(o)[x] = V[x]
    <3>1. CASE x = 1
      <4>1. Down(o)[1] = o[Len(o)]
        <5>1. Len(o) + 1 - 1 = Len(o) /\ 1 \in 1 .. Len(o)
          BY <1>0
        <5> QED BY <5>1, <1>6
      <4>2. V[1] = t
        <5>1. 1 \in 1 .. 1 + Len(Down(B)) /\ 1 <= 1
          BY <1>0, <1>2, <1>5
        <5> QED BY <5>1, <1>4, <1>7
      <4> QED BY <4>1, <4>2, <3>1 DEF Top
    <3>2. CASE x # 1
      <4>1. /\ x - 1 \in 1 .. Len(B) /\ x \in 1 .. 1 + Len(Down(B)) /\ ~(x <= 1)
            /\ Len(B) + 1 - (x - 1) = Len(o) + 1 - x /\ Len(o) + 1 - x \in 1 .. Len(o) - 1
        BY <3>2, <1>0, <1>2, <1>5
      <4>2. V[x] = Down(B)[x - 1]
        BY <4>1, <1>7
      <4>3. Down(B)[x - 1] = B[Len(o) + 1 - x]
        BY <4>1, <1>5
      <4>4. B[Len(o) + 1 - x] = o[Len(o) + 1 - x]
        BY <4>1, <1>2
      <4> QED BY <4>2, <4>3, <4>4, <1>6
    <3> QED BY <3>1, <3>2
  <2> QED BY <2>1, <2>2, <1>6, <1>7, SeqEqual
<1>9. Down(o) = Joined(T, Down(B))
  BY <1>8 DEF V, Joined
<1>10. Append(p, t) = Joined(p, T)
  BY <1>0, <1>3, AppendIsConcat DEF Joined, T
<1>11. T \in Text /\ Down(B) \in Text /\ Joined(p, T) \in Text
  <2>1. T \in Text /\ Down(B) \in Text
    BY <1>4, <1>5 DEF Text
  <2> QED BY <2>1, JoinedInAnyOrder
<1>12. Joined(Joined(p, T), Down(B)) = Joined(p, Joined(T, Down(B)))
  BY <1>11, JoinedInAnyOrder
<1>13. Joined(Append(p, t), Down(B)) = Joined(p, Down(o))
  BY <1>9, <1>10, <1>12, Zenon
<1>14. B \in Text /\ Append(p, t) \in Text
  BY <1>2, <1>10, <1>11 DEF Text
<1> QED BY <1>13, <1>14 DEF B

(* What has been converted computes the value. *)
LEMMA ConvertedComputes ==
  ASSUME NEW s \in Seq(Toks), NEW a, NEW p, Converting(s, a, <<>>, p), Len(s) < a, Value(s) # Malformed
  PROVE  Value(s) \in Meanings /\ Computes(p, Value(s))
<1>0. Len(s) \in Nat /\ a = Len(s) + 1 /\ p \in Text
  <2>1. Len(s) \in Nat
    BY LenProperties
  <2> QED BY <2>1 DEF Converting
<1> DEFINE n == Len(s)
<1>1. PICK O \in Texts, P \in Texts : ConvertsTo(s, O, P, n) /\ Joined(p, Down(<<>>)) = Joined(P[n], Down(O[n]))
  <2>1. a - 1 = n
    BY <1>0
  <2> QED BY <2>1 DEF Converting
<1>2. Converted(s, 1, n, O, P)
  <2>1. 1 \in 1 .. n + 1 /\ n \in 0 .. n
    BY <1>0
  <2> QED BY <1>1, <2>1, SpansConvert
<1>3. Value(s) = Meaning(s)[<<1, n>>]
  BY DEF Value
<1>4. O[0] = <<>> /\ P[0] = <<>> /\ \A k : Weaker(O[0], k)
  BY <1>1 DEF ConvertsTo, Weaker
<1>5. Value(s) \in Meanings /\ \E W, Q \in Seq(Toks) : Left(s, 1, n, O[0], P[0], O[n], P[n], W, Q)
  <2>1. 1 - 1 = 0
    OBVIOUS
  <2> QED BY <1>2, <1>3, <1>4, <2>1 DEF Converted
<1>6. PICK W \in Seq(Toks), Q \in Seq(Toks) : Left(s, 1, n, O[0], P[0], O[n], P[n], W, Q)
  BY <1>5
<1>7. O[n] = <<>> \o W /\ P[n] = <<>> \o Q /\ Computes(Q \o Down(W), Value(s))
  BY <1>3, <1>4, <1>6 DEF Left
<1>8. O[n] = W /\ P[n] = Q
  BY <1>7, ConcatEmptySeq
<1>9. Joined(p, Down(<<>>)) = p
  <2> DEFINE E == <<>>
  <2>1. E \in Seq(Toks) /\ Len(E) = 0
    OBVIOUS
  <2> HIDE DEF E
  <2>2. Down(E) \in Seq(Toks) /\ Len(Down(E)) = 0
    BY <2>1, DownIs
  <2>3. Down(E) = <<>>
    BY <2>2, EmptySeq
  <2>4. p \in Seq(Toks) /\ p \o <<>> = p
    BY <1>0, ConcatEmptySeq DEF Text
  <2> QED BY <2>3, <2>4 DEF Joined, E
<1>10. p = Q \o Down(W)
  BY <1>1, <1>8, <1>9 DEF Joined
<1> QED BY <1>5, <1>7, <1>10

(* What a good token makes of the number stack. *)
LEMMA AfterIs ==
  ASSUME NEW t \in Toks, NEW u \in Seq(Int), Good(t, u)
  PROVE  /\ After(t, u) \in Seq(Int)
         /\ t.k = "num" => After(t, u) = Append(u, t.v) /\ Len(After(t, u)) = Len(u) + 1
         /\ t.k # "num" => /\ After(t, u) = Append(Popped(Popped(u)), Apply(t.k, u[Len(u) - 1], Top(u)))
                           /\ Len(Popped(Popped(u))) = Len(u) - 2 /\ Len(After(t, u)) = Len(u) - 1
<1>0. Len(u) \in Nat
  BY LenProperties
<1>1. CASE t.k = "num"
  <2>1. t.v \in Int /\ After(t, u) = Append(u, t.v)
    BY <1>1 DEF Toks, After
  <2>2. Append(u, t.v) \in Seq(Int) /\ Len(Append(u, t.v)) = Len(u) + 1
    BY <2>1, AppendProperties
  <2> QED BY <1>1, <2>1, <2>2
<1>2. CASE t.k # "num"
  <2> DEFINE U == Popped(u)
             V == Popped(U)
             x == Apply(t.k, u[Len(u) - 1], Top(u))
  <2>1. t.k \in Operators /\ Len(u) >= 2 /\ ~(t.k = "/" /\ Top(u) = 0) /\ After(t, u) = Append(V, x)
    BY <1>2 DEF Good, After
  <2>2. U \in Seq(Int) /\ Len(U) = Len(u) - 1
    <3>1. \A i \in 1 .. Len(u) - 1 : i \in 1 .. Len(u)
      BY <1>0
    <3>2. \A i \in 1 .. Len(u) - 1 : u[i] \in Int
      BY <3>1, ElementOfSeq
    <3>3. Len(u) - 1 \in Int /\ 1 \in Int /\ 1 <= Len(u) - 1
      BY <1>0, <2>1
    <3>4. SubSeq(u, 1, Len(u) - 1) \in Seq(Int) /\ Len(SubSeq(u, 1, Len(u) - 1)) = (Len(u) - 1) - 1 + 1
      BY <3>2, <3>3, SubSeqProperties
    <3> QED BY <1>0, <3>4 DEF Popped
  <2> HIDE DEF U
  <2>3. V \in Seq(Int) /\ Len(V) = Len(u) - 2
    <3> DEFINE l == Len(U)
    <3>0. l = Len(u) - 1 /\ l \in Nat /\ 1 <= l
      BY <2>1, <2>2, <1>0
    <3> DEFINE R == SubSeq(U, 1, l - 1)
    <3>1. \A i \in 1 .. l - 1 : i \in 1 .. Len(U)
      BY <3>0
    <3>2. \A i \in 1 .. l - 1 : U[i] \in Int
      BY <3>1, <2>2, ElementOfSeq
    <3>3. l - 1 \in Int /\ 1 \in Int
      BY <3>0
    <3>4. R \in Seq(Int) /\ Len(R) = IF 1 <= l - 1 THEN (l - 1) - 1 + 1 ELSE 0
      <4> HIDE DEF l
      <4> QED BY <3>2, <3>3, SubSeqProperties
    <3>5. V = R
      BY DEF Popped
    <3> DEFINE n == Len(R)
    <3>6. n = IF 1 <= l - 1 THEN (l - 1) - 1 + 1 ELSE 0
      BY <3>4
    <3> HIDE DEF l, n
    <3>7. n = Len(u) - 2
      BY <3>0, <3>6, <1>0
    <3> QED BY <3>4, <3>5, <3>7 DEF n
  <2> HIDE DEF V
  <2>4. x \in Int
    <3>1. Len(u) - 1 \in 1 .. Len(u) /\ Len(u) \in 1 .. Len(u)
      BY <1>0, <2>1
    <3>2. u[Len(u) - 1] \in Int /\ Top(u) \in Int
      BY <3>1, ElementOfSeq DEF Top
    <3> QED BY <2>1, <3>2, ApplyInt
  <2> HIDE DEF x
  <2>5. Append(V, x) \in Seq(Int) /\ Len(Append(V, x)) = Len(u) - 1
    <3>1. Append(V, x) \in Seq(Int) /\ Len(Append(V, x)) = Len(V) + 1
      BY <2>3, <2>4, AppendProperties
    <3> QED BY <3>1, <2>3, <1>0
  <2> QED BY <1>2, <2>1, <2>3, <2>5 DEF U, V, x
<1> QED BY <1>1, <1>2

(* The next token of the output can be evaluated. *)
LEMMA NextIsGood ==
  ASSUME NEW s, NEW p, NEW a, NEW u, NEW size, Evaluating(s, p, a, u, size), a <= Len(p)
  PROVE  /\ p[a] \in Toks /\ a \in Nat
         /\ Good(p[a], u) \/ (Zero(p[a], u) /\ Value(s) = Undefined)
<1>1. /\ p \in Seq(Toks) /\ Len(p) \in Nat /\ a \in 1 .. Len(p) /\ a - 1 \in 0 .. Len(p) /\ a - 1 < Len(p)
      /\ (a - 1) + 1 = a /\ <<>> \in Seq(Int)
  <2>1. p \in Seq(Toks) /\ a \in 1 .. Len(p) + 1
    BY DEF Evaluating, Computes
  <2>2. Len(p) \in Nat
    BY <2>1, LenProperties
  <2> QED BY <2>1, <2>2
<1>2. PICK T \in Stacks : RunsTo(p, T, <<>>, a - 1) /\ T[a - 1] = u
  BY DEF Evaluating
<1>3. Computes(p, Value(s))
  BY DEF Evaluating
<1> DEFINE n == a - 1
           S == <<>>
<1>4. n \in 0 .. Len(p) /\ n < Len(p) /\ n + 1 = a /\ S \in Seq(Int) /\ RunsTo(p, T, S, n) /\ T[n] = u
  BY <1>1, <1>2
<1> HIDE DEF n, S
<1>5. Good(p[n + 1], T[n]) \/ (Zero(p[n + 1], T[n]) /\ Value(s) = Undefined)
  BY <1>3, <1>4 DEF Computes
<1>6. p[a] \in Toks
  BY <1>1, ElementOfSeq
<1> QED BY <1>1, <1>4, <1>5, <1>6

LEMMA OneMoreToken ==
  ASSUME NEW s, NEW p, NEW a, NEW u, NEW size, Evaluating(s, p, a, u, size), a <= Len(p),
         Good(p[a], u), Len(After(p[a], u)) <= size
  PROVE  Evaluating(s, p, a + 1, After(p[a], u), size)
<1>1. p \in Seq(Toks) /\ Len(p) \in Nat /\ a \in 1 .. Len(p) /\ (a + 1) - 1 = a /\ a + 1 \in 1 .. Len(p) + 1
  <2>1. p \in Seq(Toks) /\ a \in 1 .. Len(p) + 1
    BY DEF Evaluating, Computes
  <2>2. Len(p) \in Nat
    BY <2>1, LenProperties
  <2> QED BY <2>1, <2>2
<1>2. PICK T \in Stacks : RunsTo(p, T, <<>>, a - 1) /\ T[a - 1] = u
  BY DEF Evaluating
<1>3. u \in Seq(Int) /\ p[a] \in Toks
  BY NextIsGood DEF Evaluating
<1> DEFINE w == After(p[a], u)
           T2 == [T EXCEPT ![a] = w]
<1>4. w \in Seq(Int)
  BY <1>3, AfterIs
<1> HIDE DEF w
<1>5. /\ T2 \in Stacks /\ T2[a] = w
      /\ \A x \in 0 .. a - 1 : T2[x] = T[x]
  BY <1>1, <1>4 DEF Stacks
<1> HIDE DEF T2
<1>6. RunsTo(p, T2, <<>>, a)
  <2>1. T2[0] = <<>>
    BY <1>1, <1>2, <1>5 DEF RunsTo
  <2>2. ASSUME NEW x \in 1 .. a PROVE Good(p[x], T2[x - 1]) /\ T2[x] = After(p[x], T2[x - 1])
    <3>1. CASE x = a
      <4>1. a - 1 \in 0 .. a - 1
        BY <1>1
      <4>2. T2[x - 1] = u
        BY <3>1, <4>1, <1>2, <1>5
      <4> QED BY <3>1, <4>2, <1>5 DEF w
    <3>2. CASE x # a
      <4>1. x \in 1 .. a - 1 /\ x \in 0 .. a - 1 /\ x - 1 \in 0 .. a - 1
        BY <3>2, <1>1
      <4>2. Good(p[x], T[x - 1]) /\ T[x] = After(p[x], T[x - 1])
        BY <4>1, <1>2 DEF RunsTo
      <4> QED BY <4>1, <4>2, <1>5
    <3> QED BY <3>1, <3>2
  <2> QED BY <2>1, <2>2 DEF RunsTo
<1>7. Value(s) \in Meanings /\ Computes(p, Value(s)) /\ Len(w) <= size
  BY DEF Evaluating, w
<1>8. Evaluating(s, p, a + 1, w, size)
  BY <1>1, <1>4, <1>5, <1>6, <1>7 DEF Evaluating
<1> QED BY <1>8 DEF w

(* All of the output has been evaluated. *)
LEMMA AllEvaluated ==
  ASSUME NEW s, NEW p, NEW a, NEW u, NEW size, Evaluating(s, p, a, u, size), a > Len(p)
  PROVE  /\ Value(s) # Undefined /\ Value(s) \in Meanings
         /\ u # <<>> /\ Len(u) = 1 /\ Top(u) = Value(s).val
<1>1. p \in Seq(Toks) /\ Len(p) \in Nat /\ a - 1 = Len(p) /\ <<>> \in Seq(Int)
  <2>1. p \in Seq(Toks) /\ a \in 1 .. Len(p) + 1
    BY DEF Evaluating, Computes
  <2>2. Len(p) \in Nat
    BY <2>1, LenProperties
  <2> QED BY <2>1, <2>2
<1>2. PICK T \in Stacks : RunsTo(p, T, <<>>, a - 1) /\ T[a - 1] = u
  BY DEF Evaluating
<1>3. Computes(p, Value(s)) /\ Value(s) \in Meanings
  BY DEF Evaluating
<1> DEFINE n == Len(p)
           S == <<>>
<1>4. n \in 0 .. Len(p) /\ ~(n < Len(p)) /\ S \in Seq(Int) /\ RunsTo(p, T, S, n) /\ T[n] = u
  BY <1>1, <1>2
<1> HIDE DEF n, S
<1>5. Value(s) # Undefined /\ T[n] = Append(S, Value(s).val)
  BY <1>3, <1>4 DEF Computes
<1>6. Value(s).val \in Int
  BY <1>3, <1>5, MeaningTypes
<1>7. u = Append(S, Value(s).val) /\ Len(S) = 0
  BY <1>4, <1>5 DEF S
<1>8. Top(u) = Value(s).val /\ Len(u) = 1
  <2> DEFINE v == Value(s).val
  <2>1. v \in Int /\ u = Append(S, v) /\ Len(S) = 0 /\ S \in Seq(Int)
    BY <1>4, <1>6, <1>7
  <2> HIDE DEF v
  <2>2. Top(Append(S, v)) = v /\ Len(Append(S, v)) = Len(S) + 1
    BY <2>1, PoppedIs
  <2>3. Top(u) = v /\ Len(u) = Len(S) + 1
    BY <2>1, <2>2, Zenon
  <2> QED BY <2>1, <2>3 DEF v
<1>9. u # <<>>
  <2>1. u \in Seq(Int)
    BY DEF Evaluating
  <2> QED BY <2>1, <1>8
<1> QED BY <1>3, <1>5, <1>8, <1>9

-----------------------------------------------------------------------------
(* CalcInv holds first and is kept by every step. *)
LEMMA CalcStarts == CalcInit => CalcInv
<1> SUFFICES ASSUME CalcInit PROVE CalcInv
  OBVIOUS
<1>1. infix \in Seq(Toks)
  BY CalcAssumption DEF CalcInit, Toks
<1>2. Len(infix) \in Nat
  BY <1>1, LenProperties
<1> DEFINE N == [n \in Nat |-> <<>>]
           E == <<>>
<1>3. N \in Texts /\ N[0] = E /\ E \in Text
  BY DEF Texts, Text
<1> HIDE DEF N, E
<1>4. ConvertsTo(infix, N, N, 0)
  BY <1>3 DEF ConvertsTo, E
<1> DEFINE a == 1
<1>5. a \in 1 .. Len(infix) + 1 /\ a - 1 = 0
  BY <1>2
<1> HIDE DEF a
<1>6. \E O, P \in Texts :
        /\ ConvertsTo(infix, O, P, a - 1)
        /\ a <= Len(infix) => E = O[a - 1] /\ E = P[a - 1]
        /\ Joined(E, Down(E)) = Joined(P[a - 1], Down(O[a - 1]))
  <2>1. N[a - 1] = E /\ ConvertsTo(infix, N, N, a - 1)
    BY <1>3, <1>4, <1>5
  <2> QED BY <1>3, <2>1
<1>7. Converting(infix, a, E, E)
  BY <1>3, <1>5, <1>6 DEF Converting
<1>8. phase = "convert" /\ at = a /\ ops = E /\ postfix = E /\ nums = <<>>
  BY DEF CalcInit, a, E
<1>9. program \in Programs /\ infix \in Inputs /\ dropped = FALSE
  BY DEF CalcInit
<1> QED BY <1>7, <1>8, <1>9 DEF CalcInv

LEMMA ConvertKeepsInv == ASSUME CalcInv, infix_to_postfix PROVE CalcInv'
<1>1. /\ phase = "convert" /\ phase' = "convert" /\ at <= Len(infix) /\ at' = at + 1
      /\ program' = program /\ infix' = infix /\ nums' = nums
      /\ program \in Programs /\ infix \in Inputs
  BY DEF infix_to_postfix, CalcInv
<1>2. dropped' \in BOOLEAN
  BY DEF infix_to_postfix, CalcInv
<1>3. infix \in Seq(Toks)
  BY <1>1, CalcAssumption DEF Toks
<1>4. ASSUME ~dropped', Value(infix) # Malformed
      PROVE  nums' = <<>> /\ Converting(infix, at', ops', postfix')
  <2>1. ~dropped
    BY <1>4 DEF infix_to_postfix, CalcInv
  <2>2. nums = <<>> /\ Converting(infix, at, ops, postfix)
    BY <1>1, <1>4, <2>1 DEF CalcInv
  <2>3. Turned(infix[at], ops, postfix, ops', postfix')
    <3> DEFINE t == infix[at]
               closed == UpToParen(ops, postfix)
               weaker == UpToWeaker(ops, postfix, t.k)
    <3>1. \/ t.k = "num" /\ postfix' = Append(postfix, t) /\ UNCHANGED <<ops, dropped>>
          \/ /\ t.k = "(" /\ ops' = Pushed(ops, t)
             /\ dropped' = (dropped \/ Full(ops)) /\ UNCHANGED postfix
          \/ t.k = ")" /\ ops' = closed[1] /\ postfix' = closed[2] /\ UNCHANGED dropped
          \/ /\ t.k \in Operators /\ ops' = Pushed(weaker[1], t) /\ postfix' = weaker[2]
             /\ dropped' = (dropped \/ Full(weaker[1]))
      BY DEF infix_to_postfix
    <3>2. closed = <<closed[1], closed[2]>>
      BY DEF UpToParen
    <3> HIDE DEF t, closed, weaker
    <3>3. CASE t.k = "num" /\ postfix' = Append(postfix, t) /\ UNCHANGED <<ops, dropped>>
      BY <3>3 DEF Turned, t
    <3>4. CASE t.k = "(" /\ ops' = Pushed(ops, t) /\ dropped' = (dropped \/ Full(ops)) /\ UNCHANGED postfix
      <4>1. ops' = Append(ops, t)
        BY <3>4, <1>4 DEF Pushed
      <4> QED BY <3>4, <4>1 DEF Turned, t
    <3>5. CASE t.k = ")" /\ ops' = closed[1] /\ postfix' = closed[2] /\ UNCHANGED dropped
      <4>1. <<ops', postfix'>> = UpToParen(ops, postfix)
        BY <3>2, <3>5 DEF closed
      <4> QED BY <3>5, <4>1 DEF Turned, t
    <3>6. CASE /\ t.k \in Operators /\ ops' = Pushed(weaker[1], t) /\ postfix' = weaker[2]
               /\ dropped' = (dropped \/ Full(weaker[1]))
      <4>1. ops' = Append(weaker[1], t)
        BY <3>6, <1>4 DEF Pushed
      <4> QED BY <3>6, <4>1 DEF Turned, t, weaker
    <3> QED BY <3>1, <3>3, <3>4, <3>5, <3>6
  <2>4. Converting(infix, at + 1, ops', postfix')
    BY <1>1, <1>3, <2>2, <2>3, OneMoreTurn
  <2> QED BY <1>1, <2>2, <2>4
<1> QED BY <1>1, <1>2, <1>4 DEF CalcInv

LEMMA UnknownKeepsInv == ASSUME CalcInv, UnknownCharacter PROVE CalcInv'
<1>1. /\ program' = program /\ infix' = infix /\ dropped' = dropped
      /\ program \in Programs /\ infix \in Inputs /\ dropped \in BOOLEAN
      /\ phase = "convert" /\ at <= Len(infix)
      /\ infix[at].k \notin Operators \cup {"num", "(", ")"}
  BY DEF UnknownCharacter, CalcInv
<1>2. infix \in Seq(Toks)
  BY <1>1, CalcAssumption DEF Toks
<1>3. ASSUME ~dropped, Value(infix) # Malformed PROVE FALSE
  <2>1. Len(infix) \in Nat
    BY <1>2, LenProperties
  <2>2. at \in 1 .. Len(infix) + 1
    BY <1>1, <1>3 DEF CalcInv, Converting
  <2>3. KnownTokens(infix, 1, Len(infix))
    <3>1. 1 \in 1 .. Len(infix) + 1 /\ Len(infix) \in 0 .. Len(infix)
      BY <2>1
    <3> QED BY <1>2, <3>1, TokensAreKnown
  <2>4. at \in 1 .. Len(infix)
    BY <1>1, <2>1, <2>2
  <2> QED BY <1>1, <1>3, <2>3, <2>4 DEF KnownTokens, Value
<1> QED BY <1>1, <1>3 DEF CalcInv

LEMMA UnwindKeepsInv == ASSUME CalcInv, Unwind PROVE CalcInv'
<1>1. /\ phase = "convert" /\ at > Len(infix)
      /\ program' = program /\ infix' = infix /\ dropped' = dropped /\ nums' = nums
      /\ program \in Programs /\ infix \in Inputs /\ dropped \in BOOLEAN
  BY DEF Unwind, CalcInv
<1>2. infix \in Seq(Toks) /\ Len(infix) \in Nat
  <2>1. infix \in Seq(Toks)
    BY <1>1, CalcAssumption DEF Toks
  <2> QED BY <2>1, LenProperties
<1>3. CASE dropped \/ Value(infix) = Malformed
  BY <1>1, <1>3 DEF CalcInv
<1>4. CASE ~dropped /\ Value(infix) # Malformed
  <2>1. nums = <<>> /\ Converting(infix, at, ops, postfix)
    BY <1>1, <1>4 DEF CalcInv
  <2>2. CASE ops # <<>>
    <3>1. /\ postfix' = Append(postfix, Top(ops)) /\ ops' = Popped(ops) /\ phase' = "convert" /\ at' = at
      BY <1>1, <2>2 DEF Unwind
    <3>2. /\ at \in 1 .. Len(infix) + 1 /\ ops \in Text /\ postfix \in Text
          /\ \E O, P \in Texts :
               /\ ConvertsTo(infix, O, P, at - 1)
               /\ Joined(postfix, Down(ops)) = Joined(P[at - 1], Down(O[at - 1]))
      BY <2>1 DEF Converting
    <3>3. ops' \in Text /\ postfix' \in Text /\ Joined(postfix', Down(ops')) = Joined(postfix, Down(ops))
      <4>1. /\ Popped(ops) \in Text /\ Append(postfix, Top(ops)) \in Text
            /\ Joined(Append(postfix, Top(ops)), Down(Popped(ops))) = Joined(postfix, Down(ops))
        BY <2>2, <3>2, DownOfLast
      <4> QED BY <3>1, <4>1
    <3>4. ~(at <= Len(infix))
      BY <1>1, <1>2, <3>2
    <3>5. Converting(infix, at, ops', postfix')
      BY <3>2, <3>3, <3>4 DEF Converting
    <3> QED BY <1>1, <2>1, <3>1, <3>5 DEF CalcInv
  <2>3. CASE ops = <<>>
    <3>1. phase' = "evaluate" /\ at' = 1 /\ postfix' = postfix
      BY <2>3 DEF Unwind
    <3>2. Value(infix) \in Meanings /\ Computes(postfix, Value(infix))
      <4>1. Converting(infix, at, <<>>, postfix) /\ Len(infix) < at
        <5>1. at \in 1 .. Len(infix) + 1
          BY <2>1 DEF Converting
        <5> QED BY <1>1, <1>2, <2>1, <2>3, <5>1
      <4> QED BY <1>2, <1>4, <4>1, ConvertedComputes
    <3>3. program.STACKSIZE \in Nat
      BY <1>1, CalcAssumption
    <3> DEFINE N == [n \in Nat |-> <<>>]
               E == <<>>
    <3>4. N \in Stacks /\ N[0] = E /\ E \in Seq(Int) /\ Len(E) = 0
      BY DEF Stacks
    <3> HIDE DEF N, E
    <3>5. RunsTo(postfix, N, E, 0)
      BY <3>4 DEF RunsTo
    <3>6. 1 \in 1 .. Len(postfix) + 1 /\ 1 - 1 = 0
      <4>1. Len(postfix) \in Nat
        BY <3>2, LenProperties DEF Computes
      <4> QED BY <4>1
    <3>7. Evaluating(infix, postfix, 1, E, program.STACKSIZE)
      BY <3>2, <3>3, <3>4, <3>5, <3>6 DEF Evaluating, E
    <3> QED BY <1>1, <2>1, <3>1, <3>7 DEF CalcInv, E
  <2> QED BY <2>2, <2>3
<1> QED BY <1>3, <1>4

LEMMA RepolishKeepsInv == ASSUME CalcInv, repolish PROVE CalcInv'
<1>1. /\ phase = "evaluate" /\ at <= Len(postfix)
      /\ program' = program /\ infix' = infix /\ postfix' = postfix
      /\ program \in Programs /\ infix \in Inputs /\ dropped \in BOOLEAN
  BY DEF repolish, CalcInv
<1>2. dropped' \in BOOLEAN /\ (dropped => dropped')
  BY <1>1 DEF repolish, Fail
<1>3. CASE dropped' \/ Value(infix) = Malformed
  BY <1>1, <1>2, <1>3 DEF CalcInv
<1>4. CASE ~dropped' /\ Value(infix) # Malformed
  <2> DEFINE t == postfix[at]
             size == program.STACKSIZE
  <2>1. Evaluating(infix, postfix, at, nums, size)
    BY <1>1, <1>2, <1>4 DEF CalcInv
  <2>2. t \in Toks /\ (Good(t, nums) \/ (Zero(t, nums) /\ Value(infix) = Undefined))
    BY <1>1, <2>1, NextIsGood
  <2>3. nums \in Seq(Int) /\ Len(nums) \in Nat /\ Len(nums) <= size /\ size \in Nat
    <3>1. nums \in Seq(Int) /\ Len(nums) <= size
      BY <2>1 DEF Evaluating
    <3> QED BY <1>1, <3>1, LenProperties, CalcAssumption
  <2>4. ASSUME phase' = phase, at' = at + 1, nums' = After(t, nums), Good(t, nums), Len(After(t, nums)) <= size
        PROVE  CalcInv'
    <3>1. Evaluating(infix, postfix, at + 1, After(t, nums), size)
      BY <1>1, <2>1, <2>4, OneMoreToken
    <3> QED BY <1>1, <1>2, <2>4, <3>1 DEF CalcInv
  <2>5. "(" \notin Operators /\ "num" \notin Operators /\ "/" \in Operators
    BY DEF Operators
  <2>6. CASE t.k = "num" /\ nums' = Pushed(nums, t.v) /\ at' = at + 1
             /\ dropped' = (dropped \/ Full(nums)) /\ UNCHANGED <<phase, ret, result>>
    <3>1. ~Full(nums)
      BY <1>4, <2>6
    <3>2. Good(t, nums)
      BY <2>6 DEF Good
    <3>3. After(t, nums) = Append(nums, t.v) /\ Len(After(t, nums)) = Len(nums) + 1
      BY <2>2, <2>3, <2>6, <3>2, AfterIs
    <3>4. nums' = After(t, nums)
      BY <2>6, <3>1, <3>3 DEF Pushed
    <3>5. Len(After(t, nums)) <= size
      BY <2>3, <3>1, <3>3 DEF Full
    <3> QED BY <2>4, <2>6, <3>2, <3>4, <3>5
  <2>7. CASE t.k \in Operators /\ Len(nums) \in {0, 1}
    BY <2>2, <2>3, <2>5, <2>7 DEF Good, Zero
  <2>8. CASE t.k = "/" /\ Len(nums) >= 2 /\ Top(nums) = 0 /\ Fail(-4)
    <3>1. Value(infix) = Undefined
      BY <2>2, <2>5, <2>8 DEF Good
    <3>2. Undefined.is # "known"
      BY DEF Undefined
    <3>3. ret' = -4 /\ phase' = "done"
      BY <2>8 DEF Fail
    <3>4. ReturnsMeaning(infix, ret', result')
      BY <3>1, <3>2, <3>3 DEF ReturnsMeaning
    <3> QED BY <1>1, <1>2, <3>3, <3>4 DEF CalcInv
  <2>9. CASE /\ t.k \in Operators /\ Len(nums) >= 2 /\ ~(t.k = "/" /\ Top(nums) = 0)
             /\ nums' = Pushed(Popped(Popped(nums)), Apply(t.k, nums[Len(nums) - 1], Top(nums)))
             /\ at' = at + 1 /\ UNCHANGED <<phase, ret, result, dropped>>
    <3>1. Good(t, nums) /\ t.k # "num"
      BY <2>5, <2>9 DEF Good
    <3>2. /\ After(t, nums) = Append(Popped(Popped(nums)), Apply(t.k, nums[Len(nums) - 1], Top(nums)))
          /\ Len(Popped(Popped(nums))) = Len(nums) - 2 /\ Len(After(t, nums)) = Len(nums) - 1
      BY <2>2, <2>3, <3>1, AfterIs
    <3>3. ~Full(Popped(Popped(nums)))
      BY <2>3, <3>2 DEF Full
    <3>4. nums' = After(t, nums)
      BY <2>9, <3>2, <3>3 DEF Pushed
    <3>5. Len(After(t, nums)) <= size
      BY <2>3, <3>2
    <3> QED BY <2>4, <2>9, <3>1, <3>4, <3>5
  <2>10. CASE t.k = "("
    BY <2>2, <2>5, <2>10 DEF Good, Zero
  <2>11. \/ /\ t.k = "num" /\ nums' = Pushed(nums, t.v) /\ at' = at + 1
            /\ dropped' = (dropped \/ Full(nums)) /\ UNCHANGED <<phase, ret, result>>
         \/ t.k \in Operators /\ Len(nums) \in {0, 1}
         \/ t.k = "/" /\ Len(nums) >= 2 /\ Top(nums) = 0 /\ Fail(-4)
         \/ /\ t.k \in Operators /\ Len(nums) >= 2 /\ ~(t.k = "/" /\ Top(nums) = 0)
            /\ nums' = Pushed(Popped(Popped(nums)), Apply(t.k, nums[Len(nums) - 1], Top(nums)))
            /\ at' = at + 1 /\ UNCHANGED <<phase, ret, result, dropped>>
         \/ t.k = "("
    BY DEF repolish
  <2> QED BY <2>6, <2>7, <2>8, <2>9, <2>10, <2>11
<1> QED BY <1>3, <1>4

LEMMA FinishKeepsInv == ASSUME CalcInv, Finish PROVE CalcInv'
<1>1. /\ phase = "evaluate" /\ at > Len(postfix) /\ phase' = "done"
      /\ program' = program /\ infix' = infix /\ dropped' = dropped
      /\ program \in Programs /\ infix \in Inputs /\ dropped \in BOOLEAN
  BY DEF Finish, CalcInv
<1>2. ASSUME ~dropped, Value(infix) # Malformed PROVE ReturnsMeaning(infix, ret', result')
  <2>1. Evaluating(infix, postfix, at, nums, program.STACKSIZE)
    BY <1>1, <1>2 DEF CalcInv
  <2>2. /\ Value(infix) # Undefined
        /\ nums # <<>> /\ Len(nums) = 1 /\ Top(nums) = Value(infix).val
    BY <1>1, <2>1, AllEvaluated
  <2>3. ret' = 0 /\ result' = Value(infix).val
    BY <2>2 DEF Finish
  <2> QED BY <2>2, <2>3 DEF ReturnsMeaning
<1> QED BY <1>1, <1>2 DEF CalcInv

(* Both calculators give a well-formed expression its value, whatever it   *)
(* is and however deep their stacks are, unless a push did not fit         *)
(* (infix_to_postfix and repolish).                                        *)
THEOREM CalculatorsAreRight == CalcSpec => []CalculatesValue
<1>1. CalcInv /\ [CalcNext]_calcVars => CalcInv'
  <2> SUFFICES ASSUME CalcInv, [CalcNext]_calcVars PROVE CalcInv'
    OBVIOUS
  <2>1. CASE infix_to_postfix
    BY <2>1, ConvertKeepsInv
  <2>2. CASE UnknownCharacter
    BY <2>2, UnknownKeepsInv
  <2>3. CASE Unwind
    BY <2>3, UnwindKeepsInv
  <2>4. CASE repolish
    BY <2>4, RepolishKeepsInv
  <2>5. CASE Finish
    BY <2>5, FinishKeepsInv
  <2>6. CASE UNCHANGED calcVars
    BY <2>6 DEF CalcInv, calcVars
  <2> QED BY <2>1, <2>2, <2>3, <2>4, <2>5, <2>6 DEF CalcNext
<1>2. CalcInv => CalculatesValue
  <2> SUFFICES ASSUME CalcInv, phase = "done", ~dropped
               PROVE  ReturnsMeaning(infix, ret, result)
    BY DEF CalculatesValue, ReturnsMeaning
  <2>1. CASE Value(infix) # Malformed
    BY <2>1 DEF CalcInv
  <2>2. CASE Value(infix) = Malformed
    <3>1. Malformed.is = "malformed" /\ Undefined.is = "undefined"
      BY DEF Malformed, Undefined
    <3>2. Value(infix).is # "known" /\ Value(infix) # Undefined
      BY <2>2, <3>1
    <3> QED BY <3>2 DEF ReturnsMeaning
  <2> QED BY <2>1, <2>2
<1> QED BY <1>1, <1>2, CalcStarts, PTL DEF CalcSpec
=============================================================================
