------------------------------ MODULE Tallies ------------------------------
(***************************************************************************)
(* What the proofs of this project add up and count, and the induction     *)
(* they rest on.                                                           *)
(*                                                                         *)
(* Sums: the sum of a function's values, as the community modules fold it, *)
(* for functions on a finite set into the natural numbers: the sum exists, *)
(* does not depend on the order it is taken in, and is monotonic.  The     *)
(* library's induction theorems take an operator; here sets stand for      *)
(* predicates (NaturalInduction), and the fold's recursive function is     *)
(* shown to exist from its approximations.                                 *)
(*                                                                         *)
(* Counts: how many elements of a sequence lie in a set, and what the      *)
(* operations on sequences make of that number.  The queues of the models  *)
(* are sequences of handlers and tasks; the proofs reason about the        *)
(* tallies of a queue, never about its positions.                          *)
(***************************************************************************)
EXTENDS Integers, Sequences, Functions, FiniteSetTheorems, FunctionTheorems, SequenceTheorems,
        WellFoundedInduction, TLAPS

Sum(f) == FoldFunction(+, 0, f)

\* The element the fold takes first.
Chosen(s) == CHOOSE x \in s : TRUE

\* What the fold makes of a set s of f's arguments, given what g is for fewer.
Step(f, g, s) == IF s = {} THEN 0 ELSE f[Chosen(s)] + g[s \ {Chosen(s)}]

\* The recursive function of the fold: the sums over each set of arguments.
Sums(f) == CHOOSE g : g = [s \in SUBSET DOMAIN f |-> Step(f, g, s)]

\* A set of natural numbers with 0 and every successor of its members is all.
LEMMA NaturalInduction ==
    ASSUME NEW T \in SUBSET Nat, 0 \in T, \A n \in T : n + 1 \in T
    PROVE  T = Nat
<1> SUFFICES ASSUME Nat \ T # {} PROVE FALSE
  OBVIOUS
<1>1. PICK n \in Nat \ T : \A m \in Nat \ T : ~ (<<m, n>> \in OpToRel(<, Nat))
  <2>1. Nat \ T \subseteq Nat
    OBVIOUS
  <2>2. QED BY <2>1, NatLessThanWellFounded, WFMin
<1>2. \A m \in Nat \ T : ~ (m < n)
  BY <1>1 DEF OpToRel
<1>3. n \in Nat /\ n \notin T /\ n # 0
  BY <1>1
<1>4. n - 1 \in Nat /\ n - 1 < n /\ (n - 1) + 1 = n
  BY <1>3
<1>5. n - 1 \in T
  BY <1>2, <1>4
<1>6. (n - 1) + 1 \in T
  BY <1>5
<1> QED BY <1>3, <1>4, <1>6

\* The sum is the last of the fold's partial sums.
LEMMA SumUnfolds == ASSUME NEW f PROVE Sum(f) = Sums(f)[DOMAIN f]
  BY DEF Sum, FoldFunction, FoldFunctionOnSet, MapThenFoldSet, Sums, Step, Chosen

-----------------------------------------------------------------------------

Small(S, n) == {s \in SUBSET S : Cardinality(s) <= n}

\* g is as the fold's function on the sets of at most n arguments.
Approximates(g, f, n) ==
    /\ g \in [Small(DOMAIN f, n) -> Nat]
    /\ \A s \in Small(DOMAIN f, n) : g[s] = Step(f, g, s)

\* The set the fold goes on with is smaller by one.
LEMMA Shrinks ==
    ASSUME NEW S, IsFiniteSet(S), NEW s \in SUBSET S, s # {}
    PROVE  /\ Chosen(s) \in s
           /\ s \ {Chosen(s)} \in SUBSET S
           /\ Cardinality(s) \in Nat
           /\ Cardinality(s \ {Chosen(s)}) = Cardinality(s) - 1
<1>1. Chosen(s) \in s
  BY DEF Chosen
<1>2. IsFiniteSet(s)
  BY FS_Subset
<1>3. Cardinality(s) \in Nat
  BY <1>2, FS_CardinalityType
<1>4. Cardinality(s \ {Chosen(s)}) = Cardinality(s) - 1
  BY <1>1, <1>2, FS_RemoveElement
<1> QED BY <1>1, <1>3, <1>4

\* Every approximation of the fold's function can be extended by one.
LEMMA ApproximationsExist ==
    ASSUME NEW S, IsFiniteSet(S), NEW f \in [S -> Nat], NEW n \in Nat
    PROVE  \E g : Approximates(g, f, n)
<1> DEFINE T == {m \in Nat : \E g : Approximates(g, f, m)}
<1>0. DOMAIN f = S
  OBVIOUS
<1>1. 0 \in T
  <2> DEFINE g == [s \in Small(S, 0) |-> 0]
  <2>1. ASSUME NEW s \in Small(S, 0) PROVE s = {}
    BY FS_Subset, FS_EmptySet, FS_CardinalityType DEF Small
  <2>2. Approximates(g, f, 0)
    BY <1>0, <2>1 DEF Approximates, Step
  <2> QED BY <2>2
<1>2. ASSUME NEW m \in T PROVE m + 1 \in T
  <2>1. PICK g : Approximates(g, f, m)
    OBVIOUS
  <2>2. /\ g \in [Small(S, m) -> Nat]
        /\ \A s \in Small(S, m) : g[s] = Step(f, g, s)
    BY <1>0, <2>1 DEF Approximates
  <2> DEFINE h == [s \in Small(S, m + 1) |-> Step(f, g, s)]
  <2>3. ASSUME NEW s \in Small(S, m + 1), s # {}
        PROVE  /\ Chosen(s) \in S
               /\ s \ {Chosen(s)} \in Small(S, m)
               /\ s \ {Chosen(s)} \in Small(S, m + 1)
    <3>1. /\ Chosen(s) \in S /\ s \ {Chosen(s)} \in SUBSET S
          /\ Cardinality(s) \in Nat /\ Cardinality(s) <= m + 1
          /\ Cardinality(s \ {Chosen(s)}) = Cardinality(s) - 1
      BY <2>3, Shrinks DEF Small
    <3>2. Cardinality(s) - 1 <= m /\ Cardinality(s) - 1 <= m + 1
      BY <3>1
    <3> QED BY <3>1, <3>2 DEF Small
  <2>4. ASSUME NEW s \in Small(S, m + 1) PROVE Step(f, g, s) \in Nat
    BY <2>2, <2>3, <2>4 DEF Step
  <2>5. h \in [Small(S, m + 1) -> Nat]
    BY <2>4
  <2>6. ASSUME NEW s \in Small(S, m + 1) PROVE h[s] = Step(f, h, s)
    <3>1. CASE s = {}
      BY <3>1 DEF Step
    <3>2. CASE s # {}
      <4> DEFINE t == s \ {Chosen(s)}
      <4>1. t \in Small(S, m) /\ t \in Small(S, m + 1)
        BY <2>3, <3>2
      <4>2. h[t] = Step(f, g, t) /\ g[t] = Step(f, g, t)
        BY <2>2, <4>1
      <4>3. h[s] = f[Chosen(s)] + g[t]
        BY <3>2 DEF Step
      <4> QED BY <3>2, <4>2, <4>3 DEF Step
    <3> QED BY <3>1, <3>2
  <2>7. Approximates(h, f, m + 1)
    <3> HIDE DEF h
    <3> QED BY <1>0, <2>5, <2>6 DEF Approximates
  <2> HIDE DEF h
  <2> QED BY <2>7
<1>3. T = Nat
  <2> HIDE DEF T
  <2>1. T \in SUBSET Nat
    BY DEF T
  <2> QED BY <1>1, <1>2, <2>1, NaturalInduction
<1> QED BY <1>3

\* The fold's function exists: on every set of arguments it is a natural
\* number and follows the recursion.
LEMMA SumsSay ==
    ASSUME NEW S, IsFiniteSet(S), NEW f \in [S -> Nat]
    PROVE  /\ Sums(f) \in [SUBSET S -> Nat]
           /\ \A s \in SUBSET S : Sums(f)[s] = Step(f, Sums(f), s)
<1>0. DOMAIN f = S
  OBVIOUS
<1>1. Cardinality(S) \in Nat
  BY FS_CardinalityType
<1>2. Small(S, Cardinality(S)) = SUBSET S
  BY FS_Subset DEF Small
<1>3. PICK g : Approximates(g, f, Cardinality(S))
  BY <1>1, ApproximationsExist
<1>4. g \in [SUBSET S -> Nat] /\ \A s \in SUBSET S : g[s] = Step(f, g, s)
  BY <1>0, <1>2, <1>3 DEF Approximates
<1>5. g = [s \in SUBSET DOMAIN f |-> Step(f, g, s)]
  BY <1>0, <1>4
<1>6. Sums(f) = [s \in SUBSET DOMAIN f |-> Step(f, Sums(f), s)]
  BY <1>5 DEF Sums
<1> DEFINE h == Sums(f)
<1>7. h = [s \in SUBSET S |-> Step(f, h, s)]
  BY <1>0, <1>6
<1> HIDE DEF h
<1>8. \A s \in SUBSET S : h[s] = Step(f, h, s)
  BY <1>7
<1> DEFINE T == {n \in Nat : \A s \in SUBSET S : Cardinality(s) <= n => h[s] \in Nat}
<1>9. 0 \in T
  <2>1. ASSUME NEW s \in SUBSET S, Cardinality(s) <= 0 PROVE h[s] \in Nat
    <3>1. s = {}
      BY <2>1, FS_Subset, FS_EmptySet, FS_CardinalityType
    <3>2. Step(f, h, s) = 0
      BY <3>1 DEF Step
    <3> QED BY <1>8, <3>2
  <2> QED BY <2>1
<1>10. ASSUME NEW n \in T PROVE n + 1 \in T
  <2>1. ASSUME NEW s \in SUBSET S, Cardinality(s) <= n + 1 PROVE h[s] \in Nat
    <3>1. CASE s = {}
      BY <1>8, <3>1 DEF Step
    <3>2. CASE s # {}
      <4>1. /\ Chosen(s) \in S /\ s \ {Chosen(s)} \in SUBSET S
            /\ Cardinality(s) \in Nat
            /\ Cardinality(s \ {Chosen(s)}) = Cardinality(s) - 1
        BY <3>2, Shrinks
      <4>2. Cardinality(s \ {Chosen(s)}) <= n
        BY <2>1, <4>1
      <4>3. h[s \ {Chosen(s)}] \in Nat
        BY <4>1, <4>2
      <4>4. h[s] = f[Chosen(s)] + h[s \ {Chosen(s)}]
        BY <1>8, <3>2 DEF Step
      <4> QED BY <4>1, <4>3, <4>4
    <3> QED BY <3>1, <3>2
  <2> QED BY <2>1
<1>11. T = Nat
  <2> HIDE DEF T
  <2>1. T \in SUBSET Nat
    BY DEF T
  <2> QED BY <1>9, <1>10, <2>1, NaturalInduction
<1>12. \A s \in SUBSET S : h[s] \in Nat
  <2>1. Cardinality(S) \in T
    BY <1>1, <1>11
  <2> QED BY <2>1, FS_Subset
<1>13. h \in [SUBSET S -> Nat]
  BY <1>7, <1>12
<1> QED BY <1>8, <1>13 DEF h

\* The recursion, case by case.
Recurs(h, f, S) ==
    /\ h \in [SUBSET S -> Nat] /\ h[{}] = 0
    /\ \A s \in SUBSET S : s # {} => h[s] = f[Chosen(s)] + h[s \ {Chosen(s)}]

\* The partial sums follow it.
LEMMA SumsRecur ==
    ASSUME NEW S, IsFiniteSet(S), NEW f \in [S -> Nat]
    PROVE  Recurs(Sums(f), f, S)
<1> DEFINE h == Sums(f)
<1>1. h \in [SUBSET S -> Nat] /\ \A s \in SUBSET S : h[s] = Step(f, h, s)
  BY SumsSay
<1> HIDE DEF h
<1>2. Step(f, h, {}) = 0 /\ \A s : s # {} => Step(f, h, s) = f[Chosen(s)] + h[s \ {Chosen(s)}]
  BY DEF Step
<1>3. Recurs(h, f, S)
  BY <1>1, <1>2 DEF Recurs
<1> QED BY <1>3 DEF h

-----------------------------------------------------------------------------

\* The order does not matter: any argument's value may be taken out first.
LEMMA SumsTakeOut ==
    ASSUME NEW S, IsFiniteSet(S), NEW f \in [S -> Nat], NEW s \in SUBSET S, NEW x \in s
    PROVE  Sums(f)[s] = f[x] + Sums(f)[s \ {x}]
<1> DEFINE h == Sums(f)
<1>0. Recurs(h, f, S)
  BY SumsRecur
<1> HIDE DEF h
<1>1. /\ h \in [SUBSET S -> Nat]
      /\ \A t \in SUBSET S : t # {} => h[t] = f[Chosen(t)] + h[t \ {Chosen(t)}]
  BY <1>0 DEF Recurs
<1> DEFINE T == {n \in Nat : \A t \in SUBSET S : Cardinality(t) <= n => \A y \in t : h[t] = f[y] + h[t \ {y}]}
<1>2. 0 \in T
  <2>1. ASSUME NEW t \in SUBSET S, Cardinality(t) <= 0 PROVE t = {}
    BY <2>1, FS_Subset, FS_EmptySet, FS_CardinalityType
  <2> QED BY <2>1
<1>3. ASSUME NEW n \in T PROVE n + 1 \in T
  <2>1. ASSUME NEW t \in SUBSET S, Cardinality(t) <= n + 1, NEW y \in t PROVE h[t] = f[y] + h[t \ {y}]
    <3> DEFINE c == Chosen(t)
    <3>1. /\ c \in t /\ t \ {c} \in SUBSET S
          /\ Cardinality(t) \in Nat
          /\ Cardinality(t \ {c}) = Cardinality(t) - 1
      BY Shrinks
    <3>2. h[t] = f[c] + h[t \ {c}]
      BY <1>1
    <3> HIDE DEF c
    <3>3. CASE y = c
      BY <3>2, <3>3
    <3>4. CASE y # c
      <4>1. IsFiniteSet(t)
        BY FS_Subset
      <4>2. Cardinality(t \ {y}) = Cardinality(t) - 1
        BY <4>1, FS_RemoveElement
      <4>3. Cardinality(t \ {c}) <= n /\ Cardinality(t \ {y}) <= n
        BY <2>1, <3>1, <4>2
      <4> DEFINE r == h[(t \ {c}) \ {y}]
      <4>4. h[t \ {c}] = f[y] + r
        BY <3>1, <3>4, <4>3
      <4>5. h[t \ {y}] = f[c] + r
        <5>1. (t \ {y}) \ {c} = (t \ {c}) \ {y}
          OBVIOUS
        <5>2. h[t \ {y}] = f[c] + h[(t \ {y}) \ {c}]
          BY <3>1, <3>4, <4>3
        <5> QED BY <5>1, <5>2
      <4>6. r \in Nat /\ f[c] \in Nat /\ f[y] \in Nat
        BY <1>1, <3>1
      <4> HIDE DEF r
      <4>7. \A a, b, d \in Nat : a + (b + d) = b + (a + d)
        OBVIOUS
      <4>8. f[c] + (f[y] + r) = f[y] + (f[c] + r)
        BY <4>6, <4>7
      <4> QED BY <3>2, <4>4, <4>5, <4>8
    <3> QED BY <3>3, <3>4
  <2> QED BY <2>1
<1>4. T = Nat
  <2> HIDE DEF T
  <2>1. T \in SUBSET Nat
    BY DEF T
  <2> QED BY <1>2, <1>3, <2>1, NaturalInduction
<1>5. Cardinality(s) \in T
  BY <1>4, FS_Subset, FS_CardinalityType
<1>6. h[s] = f[x] + h[s \ {x}]
  BY <1>5, FS_Subset, FS_CardinalityType
<1> QED BY <1>6 DEF h

\* A function that is nowhere above another has no larger sum.
LEMMA SumsMonotonic ==
    ASSUME NEW S, IsFiniteSet(S), NEW f \in [S -> Nat], NEW g \in [S -> Nat],
           NEW s \in SUBSET S, \A x \in s : g[x] <= f[x]
    PROVE  Sums(g)[s] <= Sums(f)[s]
<1> DEFINE h == Sums(f)
           k == Sums(g)
<1>0. Recurs(h, f, S) /\ Recurs(k, g, S)
  BY SumsRecur
<1> HIDE DEF h, k
<1>1. /\ h \in [SUBSET S -> Nat] /\ h[{}] = 0
      /\ \A t \in SUBSET S : t # {} => h[t] = f[Chosen(t)] + h[t \ {Chosen(t)}]
  BY <1>0 DEF Recurs
<1>2. /\ k \in [SUBSET S -> Nat] /\ k[{}] = 0
      /\ \A t \in SUBSET S : t # {} => k[t] = g[Chosen(t)] + k[t \ {Chosen(t)}]
  BY <1>0 DEF Recurs
<1> DEFINE T == {n \in Nat : \A t \in SUBSET s : Cardinality(t) <= n => k[t] <= h[t]}
<1>3. 0 \in T
  <2>1. ASSUME NEW t \in SUBSET s, Cardinality(t) <= 0 PROVE k[t] <= h[t]
    <3>1. t = {}
      BY <2>1, FS_Subset, FS_EmptySet, FS_CardinalityType
    <3> QED BY <1>1, <1>2, <3>1
  <2> QED BY <2>1
<1>4. ASSUME NEW n \in T PROVE n + 1 \in T
  <2>1. ASSUME NEW t \in SUBSET s, Cardinality(t) <= n + 1 PROVE k[t] <= h[t]
    <3>1. CASE t = {}
      BY <1>1, <1>2, <3>1
    <3>2. CASE t # {}
      <4> DEFINE c == Chosen(t)
      <4>1. /\ c \in t /\ t \in SUBSET S /\ t \ {c} \in SUBSET s /\ t \ {c} \in SUBSET S
            /\ Cardinality(t) \in Nat
            /\ Cardinality(t \ {c}) = Cardinality(t) - 1
        BY <3>2, Shrinks
      <4>2. h[t] = f[c] + h[t \ {c}] /\ k[t] = g[c] + k[t \ {c}]
        BY <1>1, <1>2, <3>2
      <4> HIDE DEF c
      <4>3. Cardinality(t \ {c}) <= n
        BY <2>1, <4>1
      <4>4. k[t \ {c}] <= h[t \ {c}] /\ g[c] <= f[c]
        BY <4>1, <4>3
      <4>5. k[t \ {c}] \in Nat /\ h[t \ {c}] \in Nat /\ g[c] \in Nat /\ f[c] \in Nat
        BY <1>1, <1>2, <4>1
      <4> QED BY <4>2, <4>4, <4>5
    <3> QED BY <3>1, <3>2
  <2> QED BY <2>1
<1>5. T = Nat
  <2> HIDE DEF T
  <2>1. T \in SUBSET Nat
    BY DEF T
  <2> QED BY <1>3, <1>4, <2>1, NaturalInduction
<1>6. k[s] <= h[s]
  <2>1. Cardinality(s) \in Nat /\ Cardinality(s) <= Cardinality(s)
    BY FS_Subset, FS_CardinalityType
  <2> QED BY <1>5, <2>1
<1> QED BY <1>6 DEF h, k

-----------------------------------------------------------------------------

\* No value rises: nor does the sum.
THEOREM SumNotRaised ==
    ASSUME NEW S, IsFiniteSet(S), NEW f \in [S -> Nat], NEW g \in [S -> Nat],
           \A x \in S : g[x] <= f[x]
    PROVE  Sum(g) <= Sum(f)
  BY SumUnfolds, SumsMonotonic

\* One value rises by no more than another falls, and no other rises: the sum
\* does not rise.
THEOREM SumTransferred ==
    ASSUME NEW S, IsFiniteSet(S), NEW f \in [S -> Nat], NEW g \in [S -> Nat],
           NEW x \in S, NEW y \in S, x # y,
           g[x] + g[y] <= f[x] + f[y],
           \A z \in S \ {x, y} : g[z] <= f[z]
    PROVE  Sum(g) <= Sum(f)
<1> DEFINE rest == (S \ {x}) \ {y}
<1>1. Sum(f) = Sums(f)[S] /\ Sum(g) = Sums(g)[S]
  BY SumUnfolds
<1>2. Sums(f)[S] = f[x] + Sums(f)[S \ {x}] /\ Sums(g)[S] = g[x] + Sums(g)[S \ {x}]
  BY SumsTakeOut
<1>3. Sums(f)[S \ {x}] = f[y] + Sums(f)[rest] /\ Sums(g)[S \ {x}] = g[y] + Sums(g)[rest]
  BY SumsTakeOut
<1>4. Sums(g)[rest] <= Sums(f)[rest]
  BY SumsMonotonic
<1>5. Sums(f)[rest] \in Nat /\ Sums(g)[rest] \in Nat
  <2>1. rest \in SUBSET S
    OBVIOUS
  <2>2. Sums(f) \in [SUBSET S -> Nat] /\ Sums(g) \in [SUBSET S -> Nat]
    BY SumsSay
  <2> QED BY <2>1, <2>2
<1>6. f[x] \in Nat /\ f[y] \in Nat /\ g[x] \in Nat /\ g[y] \in Nat
  OBVIOUS
<1> HIDE DEF rest
<1>7. \A a, b, c, d, p, q \in Nat : c + d <= a + b /\ p <= q => c + (d + p) <= a + (b + q)
  OBVIOUS
<1> QED BY <1>1, <1>2, <1>3, <1>4, <1>5, <1>6, <1>7

-----------------------------------------------------------------------------
(* How many elements of a sequence lie in a set. *)

\* The places of s that hold an element of P, and their number.
PlacesIn(s, P) == {k \in DOMAIN s : s[k] \in P}

Count(s, P) == Cardinality(PlacesIn(s, P))

\* s without its k-th element, as RemoveAt of the community modules makes it.
CutOut(s, k) == SubSeq(s, 1, k - 1) \o SubSeq(s, k + 1, Len(s))

\* What one element x adds to the number.
Weight(x, P) == IF x \in P THEN 1 ELSE 0

\* The places of a sequence are finitely many, and their number is a natural
\* one.
LEMMA CountFinite ==
    ASSUME NEW S, NEW s \in Seq(S), NEW P
    PROVE  IsFiniteSet(PlacesIn(s, P)) /\ Count(s, P) \in Nat
<1>1. DOMAIN s = 1..Len(s) /\ Len(s) \in Nat
  OBVIOUS
<1>2. IsFiniteSet(1..Len(s))
  BY <1>1, FS_Interval
<1>3. PlacesIn(s, P) \in SUBSET (1..Len(s))
  BY <1>1 DEF PlacesIn
<1>4. IsFiniteSet(PlacesIn(s, P))
  BY <1>2, <1>3, FS_Subset
<1> QED
  BY <1>4, FS_CardinalityType DEF Count

\* The number is zero exactly when no element lies in the set.
LEMMA CountZero ==
    ASSUME NEW S, NEW s \in Seq(S), NEW P
    PROVE  Count(s, P) = 0 <=> \A k \in DOMAIN s : s[k] \notin P
<1>1. Count(s, P) = 0 <=> PlacesIn(s, P) = {}
  BY CountFinite, FS_EmptySet DEF Count
<1> QED
  BY <1>1 DEF PlacesIn

\* The empty sequence has none.
LEMMA CountEmpty ==
    ASSUME NEW P
    PROVE  Count(<<>>, P) = 0
<1>1. PlacesIn(<<>>, P) = {}
  BY DEF PlacesIn
<1> QED
  BY <1>1, FS_EmptySet DEF Count

\* A sequence of one element.
LEMMA CountSingle ==
    ASSUME NEW x, NEW P
    PROVE  Count(<<x>>, P) = Weight(x, P)
<1>1. CASE x \in P
  <2>1. PlacesIn(<<x>>, P) = {1}
    BY <1>1 DEF PlacesIn
  <2> QED
    BY <2>1, <1>1, FS_Singleton DEF Count, Weight
<1>2. CASE x \notin P
  <2>1. PlacesIn(<<x>>, P) = {}
    BY <1>2 DEF PlacesIn
  <2> QED
    BY <2>1, <1>2, FS_EmptySet DEF Count, Weight
<1> QED
  BY <1>1, <1>2

\* A concatenation has those of its parts.
LEMMA CountConcat ==
    ASSUME NEW S, NEW s \in Seq(S), NEW t \in Seq(S), NEW P
    PROVE  Count(s \o t, P) = Count(s, P) + Count(t, P)
<1> DEFINE A == PlacesIn(s, P)
           B == PlacesIn(t, P)
           C == PlacesIn(s \o t, P)
           n == Len(s)
           D == {k \in C : k > n}
           f == [k \in B |-> n + k]
<1>1. n \in Nat /\ DOMAIN s = 1..n /\ DOMAIN t = 1..Len(t) /\ Len(t) \in Nat
  OBVIOUS
<1>2. DOMAIN (s \o t) = 1..(n + Len(t))
  BY <1>1
<1>3. A \subseteq C /\ A \cap D = {} /\ C = A \cup D
  <2>1. \A k \in 1..n : (s \o t)[k] = s[k]
    OBVIOUS
  <2> QED
    BY <1>1, <1>2, <2>1 DEF PlacesIn
<1>4. \A k \in 1..Len(t) : (s \o t)[n + k] = t[k]
  BY <1>1
<1>5. \A k \in B : n + k \in D
  BY <1>1, <1>2, <1>4 DEF PlacesIn
<1>6. ASSUME NEW d \in D PROVE d - n \in B /\ n + (d - n) = d
  <2>1. d \in 1..(n + Len(t)) /\ d > n /\ (s \o t)[d] \in P
    BY <1>2 DEF PlacesIn
  <2>2. d - n \in 1..Len(t) /\ n + (d - n) = d
    BY <1>1, <2>1
  <2> QED
    BY <2>1, <2>2, <1>1, <1>4 DEF PlacesIn
<1>7. B \subseteq Nat
  BY <1>1 DEF PlacesIn
<1>8. f \in Bijection(B, D)
  <2>1. f \in [B -> D]
    BY <1>5
  <2>2. \A j, k \in B : f[j] = f[k] => j = k
    BY <1>1, <1>7
  <2>3. \A d \in D : \E k \in B : f[k] = d
    BY <1>6
  <2> QED
    BY <2>1, <2>2, <2>3, Fun_IsBij
<1> HIDE DEF A, B, C, D, f, n
<1>9. IsFiniteSet(A) /\ IsFiniteSet(B) /\ ExistsBijection(B, D)
  BY <1>8, CountFinite, Fun_ExistsBij DEF A, B
<1>10. IsFiniteSet(D) /\ Cardinality(D) = Cardinality(B)
  BY <1>9, FS_Bijection
<1>11. Cardinality(C) = Cardinality(A) + Cardinality(D) - Cardinality(A \cap D)
  BY <1>3, <1>9, <1>10, FS_Union
<1>12. Cardinality(A \cap D) = 0
  BY <1>3, FS_EmptySet
<1>13. Cardinality(A) \in Nat /\ Cardinality(B) \in Nat
  BY <1>9, FS_CardinalityType
<1>14. Cardinality(C) = Cardinality(A) + Cardinality(B)
  BY <1>10, <1>11, <1>12, <1>13
<1> QED
  BY <1>14 DEF Count, A, B, C

\* An element added at the end.
LEMMA CountAppend ==
    ASSUME NEW S, NEW s \in Seq(S), NEW x \in S, NEW P
    PROVE  Count(Append(s, x), P) = Count(s, P) + Weight(x, P)
<1>1. Append(s, x) = s \o <<x>> /\ <<x>> \in Seq(S)
  OBVIOUS
<1>2. Count(s \o <<x>>, P) = Count(s, P) + Count(<<x>>, P)
  BY <1>1, CountConcat
<1> QED
  BY <1>1, <1>2, CountSingle

\* The first element taken off.
LEMMA CountTail ==
    ASSUME NEW S, NEW s \in Seq(S), s # <<>>, NEW P
    PROVE  Count(s, P) = Count(Tail(s), P) + Weight(Head(s), P)
<1>1. Head(s) \in S /\ Tail(s) \in Seq(S) /\ <<Head(s)>> \in Seq(S)
  OBVIOUS
<1>2. s = <<Head(s)>> \o Tail(s)
  OBVIOUS
<1>3. Count(<<Head(s)>> \o Tail(s), P) = Count(<<Head(s)>>, P) + Count(Tail(s), P)
  BY <1>1, CountConcat
<1>4. Count(<<Head(s)>>, P) \in Nat /\ Count(Tail(s), P) \in Nat
  BY <1>1, CountFinite
<1>5. Count(s, P) = Count(<<Head(s)>> \o Tail(s), P)
  BY <1>2
<1>6. Count(<<Head(s)>>, P) = Weight(Head(s), P)
  BY CountSingle
<1> QED
  BY <1>3, <1>4, <1>5, <1>6

\* An element cut out from between what is before and after it.
LEMMA CutOutSplits ==
    ASSUME NEW S, NEW s \in Seq(S), NEW k \in DOMAIN s
    PROVE  LET before == SubSeq(s, 1, k - 1)
               after  == SubSeq(s, k + 1, Len(s))
           IN  /\ before \in Seq(S) /\ after \in Seq(S) /\ s[k] \in S
               /\ s = (before \o <<s[k]>>) \o after
               /\ CutOut(s, k) = before \o after
<1> DEFINE before == SubSeq(s, 1, k - 1)
           after  == SubSeq(s, k + 1, Len(s))
<1>1. k \in 1..Len(s) /\ s[k] \in S /\ Len(s) \in Nat
  OBVIOUS
<1>2. before \in Seq(S) /\ Len(before) = k - 1 /\ \A j \in 1..(k - 1) : before[j] = s[j]
  BY <1>1, SubSeqProperties
<1>3. after \in Seq(S) /\ Len(after) = Len(s) - k /\ \A j \in 1..(Len(s) - k) : after[j] = s[k + j]
  BY <1>1
<1>4. s = (before \o <<s[k]>>) \o after
  <2> HIDE DEF before, after
  <2>1. before \o <<s[k]>> \in Seq(S) /\ Len(before \o <<s[k]>>) = k
    BY <1>1, <1>2
  <2>2. Len((before \o <<s[k]>>) \o after) = Len(s) /\ (before \o <<s[k]>>) \o after \in Seq(S)
    BY <1>1, <1>3, <2>1
  <2>3. ASSUME NEW j \in 1..Len(s) PROVE ((before \o <<s[k]>>) \o after)[j] = s[j]
    BY <1>1, <1>2, <1>3, <2>1, SMTT(20)
  <2> QED
    BY <2>2, <2>3, SeqEqual
<1> QED
  BY <1>1, <1>2, <1>3, <1>4 DEF CutOut

\* Cutting out one element takes its count away and no other.
LEMMA CountCutOut ==
    ASSUME NEW S, NEW s \in Seq(S), NEW k \in DOMAIN s, NEW P
    PROVE  /\ CutOut(s, k) \in Seq(S)
           /\ Count(s, P) = Count(CutOut(s, k), P) + Weight(s[k], P)
<1> DEFINE before == SubSeq(s, 1, k - 1)
           after  == SubSeq(s, k + 1, Len(s))
<1>1. /\ before \in Seq(S) /\ after \in Seq(S) /\ s[k] \in S
      /\ s = (before \o <<s[k]>>) \o after
      /\ CutOut(s, k) = before \o after
  BY CutOutSplits
<1> HIDE DEF before, after
<1>2. <<s[k]>> \in Seq(S) /\ before \o <<s[k]>> \in Seq(S)
  BY <1>1
<1>3. Count(before \o after, P) = Count(before, P) + Count(after, P)
  BY <1>1, CountConcat
<1>4. Count((before \o <<s[k]>>) \o after, P) = Count(before \o <<s[k]>>, P) + Count(after, P)
  BY <1>1, <1>2, CountConcat
<1>5. Count(before \o <<s[k]>>, P) = Count(before, P) + Count(<<s[k]>>, P)
  BY <1>1, <1>2, CountConcat, ZenonT(40)
<1>6. Count(<<s[k]>>, P) = Weight(s[k], P)
  BY CountSingle
<1>7. Count(before, P) \in Nat /\ Count(after, P) \in Nat /\ Weight(s[k], P) \in Nat
  BY <1>1, CountFinite DEF Weight
<1>8. /\ Count(s, P) = Count((before \o <<s[k]>>) \o after, P)
      /\ Count(CutOut(s, k), P) = Count(before \o after, P)
  BY <1>1
<1>9. before \o after \in Seq(S)
  BY <1>1
<1>10. CutOut(s, k) \in Seq(S)
  BY <1>1, <1>9
<1> QED
  BY <1>3, <1>4, <1>5, <1>6, <1>7, <1>8, <1>10

\* A sequence that repeats one element.
LEMMA CountConstant ==
    ASSUME NEW n \in Nat, NEW x, NEW P
    PROVE  Count([k \in 1..n |-> x], P) = IF x \in P THEN n ELSE 0
<1>1. CASE x \in P
  <2>1. PlacesIn([k \in 1..n |-> x], P) = 1..n
    BY <1>1 DEF PlacesIn
  <2>2. Cardinality(1..n) = n
    BY FS_Interval
  <2> QED
    BY <1>1, <2>1, <2>2 DEF Count
<1>2. CASE x \notin P
  <2>1. PlacesIn([k \in 1..n |-> x], P) = {}
    BY <1>2 DEF PlacesIn
  <2> QED
    BY <1>2, <2>1, FS_EmptySet DEF Count
<1> QED
  BY <1>1, <1>2

=============================================================================
