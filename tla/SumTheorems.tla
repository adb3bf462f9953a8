---------------------------- MODULE SumTheorems ----------------------------
(***************************************************************************)
(* What the sums the models take (SumFunctionOnSet of Functions, which     *)
(* OrderPricing, PaymentService and Reports add up items and payments      *)
(* with) obey: they depend on the addends alone, are natural numbers, grow *)
(* with the set and split along disjoint sets.                             *)
(*                                                                         *)
(* The definition is recursive, so these facts need induction over finite  *)
(* sets.  It is done by a minimal counterexample: NatMin and SubsetMin say *)
(* that a set of numbers, or of subsets of a finite set, that is not empty *)
(* has a least element.                                                    *)
(***************************************************************************)
EXTENDS FiniteSetTheorems, TLAPS

\* What a sum over a set does with one element.
Pick(s) == CHOOSE x \in s : TRUE

SumStep(f, g, s) == IF s = {} THEN 0 ELSE f[Pick(s)] + g[s \ {Pick(s)}]

Sums(f, S) == CHOOSE g : g = [s \in SUBSET S |-> SumStep(f, g, s)]

\* The community module's definition, its folds unfolded.
LEMMA SumUnfolds ==
  ASSUME NEW f, NEW S
  PROVE  SumFunctionOnSet(f, S) = Sums(f, S)[S]
BY DEF SumFunctionOnSet, FoldFunctionOnSet, MapThenFoldSet, Sums, SumStep, Pick

\* A set of natural numbers that is not empty has a least one.
LEMMA NatMin ==
  ASSUME NEW T \in SUBSET Nat, T # {}
  PROVE  \E n \in T : \A m \in T : ~(m < n)
<1>1. \E n \in T : \A m \in T : <<m, n>> \notin OpToRel(<, Nat)
  BY NatLessThanWellFounded, WFMin
<1>2. QED
  BY <1>1 DEF OpToRel

\* Among subsets of a finite set there is one with no other inside.
LEMMA SubsetMin ==
  ASSUME NEW S, IsFiniteSet(S), NEW T \in SUBSET SUBSET S, T # {}
  PROVE  \E A \in T : \A B \in T : ~(B \subseteq A /\ B # A)
<1>1. IsWellFoundedOn(StrictSubsetOrdering(S), SUBSET S)
  BY FS_StrictSubsetOrderingWellFounded, FS_FiniteSubsetsOfFinite
<1>2. \E A \in T : \A B \in T : <<B, A>> \notin StrictSubsetOrdering(S)
  BY <1>1, WFMin
<1>3. QED
  BY <1>2 DEF StrictSubsetOrdering

\* Sets without one of their elements.
LEMMA WithoutPick ==
  ASSUME NEW s, IsFiniteSet(s), s # {}
  PROVE  /\ Pick(s) \in s
         /\ IsFiniteSet(s \ {Pick(s)})
         /\ Cardinality(s) \in Nat
         /\ Cardinality(s \ {Pick(s)}) = Cardinality(s) - 1
<1>1. Pick(s) \in s
  BY DEF Pick
<1>2. QED
  BY <1>1, FS_RemoveElement, FS_CardinalityType

\* For sets of up to n elements the recursion that defines a sum has a solution:
\* the first n without one would have one, made from that of n - 1.
LEMMA SolvedUpTo ==
  ASSUME NEW f, NEW S, IsFiniteSet(S)
  PROVE  \A n \in Nat : \E g : \A s \in SUBSET S :
           Cardinality(s) <= n => g[s] = SumStep(f, g, s)
<1> DEFINE Solves(g, n) ==
             \A s \in SUBSET S : Cardinality(s) <= n => g[s] = SumStep(f, g, s)
           Unsolved == {n \in Nat : ~ \E g : Solves(g, n)}
<1>1. SUFFICES ASSUME Unsolved # {} PROVE FALSE
  OBVIOUS
<1>2. PICK n \in Unsolved : \A m \in Unsolved : ~(m < n)
  BY <1>1, NatMin
<1>3. \A s \in SUBSET S : IsFiniteSet(s)
  BY FS_Subset
<1>4. n # 0
  <2> SUFFICES ASSUME n = 0 PROVE \E g : Solves(g, n)
    OBVIOUS
  <2>1. \A s \in SUBSET S : Cardinality(s) <= 0 => s = {}
    BY <1>3, FS_EmptySet, FS_CardinalityType
  <2>2. Solves([s \in SUBSET S |-> 0], n)
    BY <2>1 DEF SumStep
  <2>3. QED
    BY <2>2
<1>5. n - 1 \in Nat \ Unsolved
  BY <1>2, <1>4
<1>6. PICK h : Solves(h, n - 1)
  BY <1>5
<1> DEFINE g == [s \in SUBSET S |-> IF Cardinality(s) = n THEN SumStep(f, h, s)
                                    ELSE h[s]]
<1>7. ASSUME NEW s \in SUBSET S, Cardinality(s) <= n
      PROVE  g[s] = SumStep(f, g, s)
  <2>1. CASE s = {}
    <3>1. Cardinality(s) = 0
      BY <2>1, FS_EmptySet
    <3>2. g[s] = h[s] /\ h[s] = SumStep(f, h, s)
      BY <1>4, <1>5, <1>6, <3>1
    <3>3. QED
      BY <2>1, <3>2 DEF SumStep
  <2>2. CASE s # {}
    <3> DEFINE t == s \ {Pick(s)}
    <3>1. /\ Cardinality(s) \in Nat /\ Cardinality(t) = Cardinality(s) - 1
          /\ t \in SUBSET S
      BY <1>3, <2>2, WithoutPick
    <3>2. g[t] = h[t]
      BY <1>7, <3>1
    <3>3. SumStep(f, g, s) = SumStep(f, h, s)
      BY <2>2, <3>2 DEF SumStep
    <3>4. g[s] = SumStep(f, h, s)
      BY <1>5, <1>6, <1>7, <3>1
    <3>5. QED
      BY <3>3, <3>4
  <2>3. QED
    BY <2>1, <2>2
<1>8. Solves(g, n)
  BY <1>7
<1>9. QED
  BY <1>8

\* The recursion that defines a sum has a solution.
LEMMA SumsAt ==
  ASSUME NEW f, NEW S, IsFiniteSet(S), NEW s \in SUBSET S
  PROVE  Sums(f, S)[s] = SumStep(f, Sums(f, S), s)
<1>1. Cardinality(S) \in Nat
  BY FS_CardinalityType
<1>2. PICK g : \A t \in SUBSET S :
        Cardinality(t) <= Cardinality(S) => g[t] = SumStep(f, g, t)
  BY <1>1, SolvedUpTo
<1> DEFINE h == [t \in SUBSET S |-> g[t]]
<1>3. \A t \in SUBSET S : h[t] = SumStep(f, h, t)
  <2>1. TAKE t \in SUBSET S
  <2>2. Cardinality(t) <= Cardinality(S)
    BY FS_Subset
  <2>3. g[t] = SumStep(f, g, t)
    BY <1>2, <2>2
  <2>4. SumStep(f, g, t) = SumStep(f, h, t)
    BY DEF SumStep
  <2>5. QED
    BY <2>3, <2>4
<1>4. h = [t \in SUBSET S |-> SumStep(f, h, t)]
  BY <1>3
<1> HIDE DEF h
<1> DEFINE k == Sums(f, S)
<1>5. k = [t \in SUBSET S |-> SumStep(f, k, t)]
  BY <1>4 DEF Sums
<1> HIDE DEF k
<1>6. k[s] = SumStep(f, k, s)
  BY <1>5
<1>7. QED
  BY <1>6 DEF k
-----------------------------------------------------------------------------
\* A sum only depends on the numbers that are added.
LEMMA SumsAgree ==
  ASSUME NEW f, NEW g, NEW A, IsFiniteSet(A), NEW B, IsFiniteSet(B),
         NEW S \in SUBSET (A \cap B), \A x \in S : f[x] = g[x]
  PROVE  Sums(f, A)[S] = Sums(g, B)[S]
<1> DEFINE Differ == {s \in SUBSET S : Sums(f, A)[s] # Sums(g, B)[s]}
<1>1. SUFFICES ASSUME Differ # {} PROVE FALSE
  OBVIOUS
<1>2. IsFiniteSet(S)
  BY FS_Subset
<1>3. PICK s \in Differ : \A t \in Differ : ~(t \subseteq s /\ t # s)
  <2>1. Differ \in SUBSET SUBSET S
    OBVIOUS
  <2> HIDE DEF Differ
  <2>2. QED
    BY <1>1, <1>2, <2>1, SubsetMin
<1>4. /\ Sums(f, A)[s] = SumStep(f, Sums(f, A), s)
      /\ Sums(g, B)[s] = SumStep(g, Sums(g, B), s)
  <2>1. s \in SUBSET A /\ s \in SUBSET B
    OBVIOUS
  <2>2. QED
    BY <2>1, SumsAt
<1>5. CASE s = {}
  BY <1>3, <1>4, <1>5 DEF SumStep
<1>6. CASE s # {}
  <2>1. Pick(s) \in s
    BY <1>6 DEF Pick
  <2>2. s \ {Pick(s)} \in (SUBSET S) \ Differ
    BY <1>3, <2>1
  <2>3. QED
    BY <1>3, <1>4, <1>6, <2>1, <2>2 DEF SumStep
<1>7. QED
  BY <1>5, <1>6

\* Functions that agree on a set have the same sum over it.
THEOREM SumSame ==
  ASSUME NEW f, NEW g, NEW S, IsFiniteSet(S), \A x \in S : f[x] = g[x]
  PROVE  SumFunctionOnSet(f, S) = SumFunctionOnSet(g, S)
BY SumsAgree, SumUnfolds

\* Nothing adds up to nothing.
THEOREM SumEmpty == ASSUME NEW f PROVE SumFunctionOnSet(f, {}) = 0
<1>1. Sums(f, {})[{}] = SumStep(f, Sums(f, {}), {})
  BY SumsAt, FS_EmptySet
<1>2. QED
  BY <1>1, SumUnfolds DEF SumStep

\* A sum is one addend, that of the element the definition picks, and the rest.
LEMMA SumPick ==
  ASSUME NEW f, NEW S, IsFiniteSet(S), S # {}
  PROVE  SumFunctionOnSet(f, S) =
           f[Pick(S)] + SumFunctionOnSet(f, S \ {Pick(S)})
<1>1. Sums(f, S)[S] = SumStep(f, Sums(f, S), S)
  BY SumsAt
<1>2. IsFiniteSet(S \ {Pick(S)})
  BY WithoutPick
<1>3. Sums(f, S)[S \ {Pick(S)}] = Sums(f, S \ {Pick(S)})[S \ {Pick(S)}]
  BY <1>2, SumsAgree
<1>4. QED
  BY <1>1, <1>3, SumUnfolds DEF SumStep

\* A sum of natural numbers is one.
THEOREM SumType ==
  ASSUME NEW f, NEW S, IsFiniteSet(S), \A x \in S : f[x] \in Nat
  PROVE  SumFunctionOnSet(f, S) \in Nat
<1> DEFINE Bad == {s \in SUBSET S : SumFunctionOnSet(f, s) \notin Nat}
<1>1. SUFFICES ASSUME Bad # {} PROVE FALSE
  OBVIOUS
<1>2. PICK s \in Bad : \A t \in Bad : ~(t \subseteq s /\ t # s)
  <2>1. Bad \in SUBSET SUBSET S
    OBVIOUS
  <2> HIDE DEF Bad
  <2>2. QED
    BY <1>1, <2>1, SubsetMin
<1>3. s # {} /\ IsFiniteSet(s)
  <2>1. SumFunctionOnSet(f, s) \notin Nat /\ s \in SUBSET S
    OBVIOUS
  <2>2. SumFunctionOnSet(f, {}) \in Nat
    BY SumEmpty
  <2>3. QED
    BY <2>1, <2>2, FS_Subset
<1>4. Pick(s) \in s
  BY <1>3 DEF Pick
<1>5. s \ {Pick(s)} \in (SUBSET S) \ Bad
  BY <1>2, <1>4
<1>6. f[Pick(s)] \in Nat /\ SumFunctionOnSet(f, s \ {Pick(s)}) \in Nat
  BY <1>4, <1>5
<1>7. QED
  BY <1>2, <1>3, <1>6, SumPick

\* Any element may be taken out of a sum, not only the one the definition picks:
\* in a smallest set where one may not, two are exchanged.
THEOREM SumRemove ==
  ASSUME NEW f, NEW S, IsFiniteSet(S), \A x \in S : f[x] \in Nat, NEW x \in S
  PROVE  SumFunctionOnSet(f, S) = f[x] + SumFunctionOnSet(f, S \ {x})
<1> DEFINE Sum(s) == SumFunctionOnSet(f, s)
           Bad == {s \in SUBSET S : \E y \in s : Sum(s) # f[y] + Sum(s \ {y})}
<1>1. SUFFICES ASSUME Bad # {} PROVE FALSE
  OBVIOUS
<1>2. PICK s \in Bad : \A t \in Bad : ~(t \subseteq s /\ t # s)
  <2>1. Bad \in SUBSET SUBSET S
    OBVIOUS
  <2> HIDE DEF Bad
  <2>2. QED
    BY <1>1, <2>1, SubsetMin
<1>3. PICK y \in s : Sum(s) # f[y] + Sum(s \ {y})
  BY <1>2
<1> DEFINE c == Pick(s)
<1>4. c \in s /\ \A t \in SUBSET s : IsFiniteSet(t) /\ Sum(t) \in Nat
  BY <1>3, FS_Subset, SumType DEF Pick
<1>5. Sum(s) = f[c] + Sum(s \ {c})
  BY <1>3, <1>4, SumPick
<1>6. CASE y = c
  BY <1>3, <1>5, <1>6
<1>7. CASE y # c
  <2> DEFINE t == (s \ {c}) \ {y}
  <2>1. /\ s \ {c} \in (SUBSET S) \ Bad /\ y \in s \ {c}
        /\ s \ {y} \in (SUBSET S) \ Bad /\ c \in s \ {y}
        /\ t = (s \ {y}) \ {c}
    BY <1>2, <1>4, <1>7
  <2>2. Sum(s \ {c}) = f[y] + Sum(t) /\ Sum(s \ {y}) = f[c] + Sum(t)
    BY <2>1
  <2>3. f[c] \in Nat /\ f[y] \in Nat /\ Sum(t) \in Nat
    BY <1>4
  <2> HIDE DEF Sum, t, c
  <2>4. QED
    BY <1>3, <1>5, <2>2, <2>3
<1>8. QED
  BY <1>6, <1>7

\* One more element adds its number.
THEOREM SumAdd ==
  ASSUME NEW f, NEW S, IsFiniteSet(S), \A y \in S : f[y] \in Nat,
         NEW x, x \notin S, f[x] \in Nat
  PROVE  SumFunctionOnSet(f, S \cup {x}) = f[x] + SumFunctionOnSet(f, S)
<1>1. IsFiniteSet(S \cup {x}) /\ (S \cup {x}) \ {x} = S
  BY FS_AddElement
<1>2. SumFunctionOnSet(f, S \cup {x})
        = f[x] + SumFunctionOnSet(f, (S \cup {x}) \ {x})
  BY <1>1, SumRemove
<1>3. QED
  BY <1>1, <1>2

\* The sum over two disjoint sets is the sum of their sums.
THEOREM SumUnion ==
  ASSUME NEW f, NEW S, IsFiniteSet(S), \A y \in S : f[y] \in Nat,
         NEW T, IsFiniteSet(T), \A y \in T : f[y] \in Nat, S \cap T = {}
  PROVE  SumFunctionOnSet(f, S \cup T)
           = SumFunctionOnSet(f, S) + SumFunctionOnSet(f, T)
<1> DEFINE Sum(s) == SumFunctionOnSet(f, s)
           Bad == {t \in SUBSET T : Sum(S \cup t) # Sum(S) + Sum(t)}
<1>1. SUFFICES ASSUME Bad # {} PROVE FALSE
  OBVIOUS
<1>2. PICK t \in Bad : \A u \in Bad : ~(u \subseteq t /\ u # t)
  <2>1. Bad \in SUBSET SUBSET T
    OBVIOUS
  <2> HIDE DEF Bad
  <2>2. QED
    BY <1>1, <2>1, SubsetMin
<1>3. \A u \in SUBSET T : /\ IsFiniteSet(u) /\ Sum(u) \in Nat
                          /\ IsFiniteSet(S \cup u) /\ Sum(S \cup u) \in Nat
  <2>1. TAKE u \in SUBSET T
  <2>2. IsFiniteSet(u) /\ IsFiniteSet(S \cup u)
    BY FS_Subset, FS_Union
  <2>3. QED
    BY <2>2, SumType
<1>4. Sum(S) \in Nat
  BY SumType
<1>5. Sum(S \cup t) # Sum(S) + Sum(t) /\ t \in SUBSET T
  OBVIOUS
<1>6. t # {}
  <2>1. Sum({}) = 0
    BY SumEmpty
  <2>2. S \cup {} = S
    OBVIOUS
  <2> HIDE DEF Sum
  <2>3. QED
    BY <1>4, <1>5, <2>1, <2>2
<1>7. PICK x \in t : TRUE
  BY <1>6
<1> DEFINE u == t \ {x}
<1>8. u \in (SUBSET T) \ Bad
  BY <1>2, <1>7
<1>9. Sum(S \cup u) = Sum(S) + Sum(u)
  BY <1>8
<1>10. Sum(t) = f[x] + Sum(u)
  BY <1>3, <1>5, SumRemove
<1>11. Sum(S \cup t) = f[x] + Sum(S \cup u)
  <2>1. x \notin S \cup u /\ (S \cup u) \cup {x} = S \cup t
    OBVIOUS
  <2>2. IsFiniteSet(S \cup u) /\ f[x] \in Nat /\ \A y \in S \cup u : f[y] \in Nat
    BY <1>3, <1>8
  <2>3. Sum((S \cup u) \cup {x}) = f[x] + Sum(S \cup u)
    BY <2>1, <2>2, SumAdd
  <2>4. QED
    BY <2>1, <2>3
<1>12. f[x] \in Nat /\ Sum(u) \in Nat
  BY <1>3, <1>8
<1> HIDE DEF Sum, u
<1>13. QED
  BY <1>4, <1>5, <1>9, <1>10, <1>11, <1>12

\* A larger set has no smaller sum.
THEOREM SumMonotone ==
  ASSUME NEW f, NEW S, IsFiniteSet(S), \A x \in S : f[x] \in Nat,
         NEW T \in SUBSET S
  PROVE  SumFunctionOnSet(f, T) <= SumFunctionOnSet(f, S)
<1>1. IsFiniteSet(T) /\ IsFiniteSet(S \ T) /\ T \cup (S \ T) = S
  BY FS_Subset
<1>2. SumFunctionOnSet(f, T \cup (S \ T))
        = SumFunctionOnSet(f, T) + SumFunctionOnSet(f, S \ T)
  <2>1. T \cap (S \ T) = {}
    OBVIOUS
  <2>2. QED
    BY <1>1, <2>1, SumUnion
<1>3. SumFunctionOnSet(f, T) \in Nat /\ SumFunctionOnSet(f, S \ T) \in Nat
  BY <1>1, SumType
<1>4. SumFunctionOnSet(f, S)
        = SumFunctionOnSet(f, T) + SumFunctionOnSet(f, S \ T)
  BY <1>1, <1>2
<1>5. \A a, b \in Nat : a <= a + b
  OBVIOUS
<1>6. QED
  BY <1>3, <1>4, <1>5

\* Sums of one and of two numbers.
THEOREM SumPair ==
  ASSUME NEW f, NEW x, NEW y, x # y, f[x] \in Nat, f[y] \in Nat
  PROVE  /\ SumFunctionOnSet(f, {x}) = f[x]
         /\ SumFunctionOnSet(f, {x, y}) = f[x] + f[y]
<1>1. SumFunctionOnSet(f, {} \cup {x}) = f[x] + SumFunctionOnSet(f, {})
  BY SumAdd, FS_EmptySet
<1>2. SumFunctionOnSet(f, {x}) = f[x]
  <2>1. {} \cup {x} = {x}
    OBVIOUS
  <2>2. QED
    BY <1>1, <2>1, SumEmpty
<1>3. SumFunctionOnSet(f, {x} \cup {y}) = f[y] + SumFunctionOnSet(f, {x})
  <2>1. IsFiniteSet({x}) /\ y \notin {x} /\ \A z \in {x} : f[z] \in Nat
    BY FS_Singleton
  <2>2. QED
    BY <2>1, SumAdd
<1>4. {x} \cup {y} = {x, y} /\ \A a, b \in Nat : a + b = b + a
  OBVIOUS
<1>5. QED
  BY <1>2, <1>3, <1>4
=============================================================================
