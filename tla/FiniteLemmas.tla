----------------------------- MODULE FiniteLemmas -----------------------------
(***************************************************************************)
(* Facts about finite sets that the proofs of this project share: extreme  *)
(* elements, sums of a function over a set, which the totals of the        *)
(* database are (SUM over the rows that a query selects), and the pages    *)
(* that an ordered set of rows is cut into (LIMIT and OFFSET).             *)
(*                                                                         *)
(* A fact about every finite set is proved from a smallest subset that     *)
(* breaks it: there is one, since the strict subsets of a finite set are   *)
(* well founded, and it breaks nothing once an element is taken out of it. *)
(***************************************************************************)
EXTENDS Integers, FiniteSets, FiniteSetsExt, FiniteSetTheorems, WellFoundedInduction, TLAPS

\* The element that the library's sum takes out of a set first.
AnyOf(s) == CHOOSE x \in s : TRUE

\* g adds f up over every subset of S.
AddsUp(g, f, S) ==
    g = [s \in SUBSET S |-> IF s = {} THEN 0 ELSE f[AnyOf(s)] + g[s \ {AnyOf(s)}]]

\* The library defines a sum by choosing such a function.
LEMMA SumIsChosen ==
    ASSUME NEW f, NEW S
    PROVE  SumFunctionOnSet(f, S) = (CHOOSE g : AddsUp(g, f, S))[S]
BY DEF SumFunctionOnSet, FoldFunctionOnSet, MapThenFoldSet, AddsUp, AnyOf

\* A nonempty set of subsets of a finite set has a smallest element.
LEMMA SmallestSubset ==
    ASSUME NEW S, IsFiniteSet(S), NEW B \in SUBSET (SUBSET S), B # {}
    PROVE  \E m \in B : \A b \in B : b \subseteq m => b = m
<1>1. IsWellFoundedOn(StrictSubsetOrdering(S), FiniteSubsetsOf(S))
  BY FS_StrictSubsetOrderingWellFounded
<1>2. FiniteSubsetsOf(S) = SUBSET S
  BY FS_FiniteSubsetsOfFinite
<1>3. PICK m \in B : \A b \in B : <<b, m>> \notin StrictSubsetOrdering(S)
  BY <1>1, <1>2, WFMin
<1> QED
  BY <1>3 DEF StrictSubsetOrdering

\* What is taken out of a set is in it.
LEMMA AnyIn ==
    ASSUME NEW s, s # {}
    PROVE  AnyOf(s) \in s
BY DEF AnyOf

\* Two such functions agree wherever both are defined.
LEMMA AddsUpUnique ==
    ASSUME NEW f, NEW g, NEW h, NEW U, NEW V, NEW T, IsFiniteSet(U),
           AddsUp(g, f, U), AddsUp(h, f, V), T \subseteq U, T \subseteq V
    PROVE  g[T] = h[T]
<1> DEFINE B == {s \in SUBSET U : s \subseteq V /\ g[s] # h[s]}
<1> SUFFICES B = {}
  OBVIOUS
<1> SUFFICES ASSUME B # {} PROVE FALSE
  OBVIOUS
<1>1. PICK m \in B : \A b \in B : b \subseteq m => b = m
  <2> B \in SUBSET (SUBSET U)  OBVIOUS
  <2> HIDE DEF B
  <2> QED BY SmallestSubset
<1>2. /\ g[m] = IF m = {} THEN 0 ELSE f[AnyOf(m)] + g[m \ {AnyOf(m)}]
      /\ h[m] = IF m = {} THEN 0 ELSE f[AnyOf(m)] + h[m \ {AnyOf(m)}]
  BY DEF AddsUp
<1>3. m # {}
  BY <1>2
<1>4. AnyOf(m) \in m
  BY <1>3, AnyIn
<1>5. m \ {AnyOf(m)} \notin B
  BY <1>1, <1>4
<1>6. g[m \ {AnyOf(m)}] = h[m \ {AnyOf(m)}]
  BY <1>5
<1> QED
  BY <1>2, <1>6

\* There is such a function for every finite set.
LEMMA AddsUpExists ==
    ASSUME NEW f, NEW S, IsFiniteSet(S)
    PROVE  \E g : AddsUp(g, f, S)
<1> DEFINE B == {s \in SUBSET S : ~ \E g : AddsUp(g, f, s)}
<1> SUFFICES B = {}
  OBVIOUS
<1> SUFFICES ASSUME B # {} PROVE FALSE
  OBVIOUS
<1>1. PICK m \in B : \A b \in B : b \subseteq m => b = m
  <2> B \in SUBSET (SUBSET S)  OBVIOUS
  <2> HIDE DEF B
  <2> QED BY SmallestSubset
<1> DEFINE h(x) == CHOOSE g : AddsUp(g, f, m \ {x})
<1>2. \A x \in m : AddsUp(h(x), f, m \ {x})
  <2> TAKE x \in m
  <2>1. m \ {x} \notin B
    BY <1>1
  <2>2. \E g : AddsUp(g, f, m \ {x})
    BY <2>1
  <2> QED
    BY <2>2
<1> HIDE DEF h
<1> DEFINE g == [s \in SUBSET m |-> IF s = {} THEN 0
                   ELSE f[AnyOf(s)] + h(AnyOf(s))[s \ {AnyOf(s)}]]
<1>3. \A s \in SUBSET m : s # {} => h(AnyOf(s))[s \ {AnyOf(s)}] = g[s \ {AnyOf(s)}]
  <2> SUFFICES ASSUME NEW s \in SUBSET m, s # {}
               PROVE  h(AnyOf(s))[s \ {AnyOf(s)}] = g[s \ {AnyOf(s)}]
    OBVIOUS
  <2> DEFINE x == AnyOf(s)  t == s \ {x}
  <2>1. x \in s /\ x \in m
    BY AnyIn
  <2>2. h(x)[t] = IF t = {} THEN 0 ELSE f[AnyOf(t)] + h(x)[t \ {AnyOf(t)}]
    <3>1. t \in SUBSET (m \ {x})
      OBVIOUS
    <3>2. AddsUp(h(x), f, m \ {x})
      BY <1>2, <2>1
    <3> HIDE DEF x, t
    <3> QED BY <3>1, <3>2 DEF AddsUp
  <2>3. t # {} => h(x)[t \ {AnyOf(t)}] = h(AnyOf(t))[t \ {AnyOf(t)}]
    <3> HAVE t # {}
    <3>1. AnyOf(t) \in t /\ AnyOf(t) \in m
      BY AnyIn
    <3>2. AddsUp(h(x), f, m \ {x}) /\ AddsUp(h(AnyOf(t)), f, m \ {AnyOf(t)})
      BY <1>2, <2>1, <3>1
    <3>3. /\ t \ {AnyOf(t)} \subseteq m \ {x}
          /\ t \ {AnyOf(t)} \subseteq m \ {AnyOf(t)}
          /\ IsFiniteSet(m \ {x})
      BY FS_Subset
    <3> HIDE DEF x, t
    <3> QED BY <3>2, <3>3, AddsUpUnique
  <2>4. g[t] = IF t = {} THEN 0 ELSE f[AnyOf(t)] + h(AnyOf(t))[t \ {AnyOf(t)}]
    BY <2>1
  <2> HIDE DEF g, t, x
  <2>5. h(x)[t] = g[t]
    BY <2>2, <2>3, <2>4
  <2> QED BY <2>5 DEF t, x
<1>4. AddsUp(g, f, m)
  <2>1. \A s \in SUBSET m : g[s] = IF s = {} THEN 0 ELSE f[AnyOf(s)] + g[s \ {AnyOf(s)}]
    BY <1>3
  <2>2. g = [s \in SUBSET m |-> g[s]]
    OBVIOUS
  <2> HIDE DEF g
  <2>3. [s \in SUBSET m |-> g[s]] = [s \in SUBSET m |-> IF s = {} THEN 0 ELSE f[AnyOf(s)] + g[s \ {AnyOf(s)}]]
    BY <2>1
  <2> QED BY <2>2, <2>3 DEF AddsUp
<1> HIDE DEF g
<1> QED
  BY <1>4

\* Hence a sum is the value of such a function.
LEMMA SumIsAdded ==
    ASSUME NEW f, NEW S, IsFiniteSet(S)
    PROVE  \E g : AddsUp(g, f, S) /\ SumFunctionOnSet(f, S) = g[S]
BY AddsUpExists, SumIsChosen

\* The equation that characterises a sum.
LEMMA SumStep ==
    ASSUME NEW f, NEW S, IsFiniteSet(S)
    PROVE  SumFunctionOnSet(f, S) = IF S = {} THEN 0 ELSE f[AnyOf(S)] + SumFunctionOnSet(f, S \ {AnyOf(S)})
<1>1. PICK g : AddsUp(g, f, S) /\ SumFunctionOnSet(f, S) = g[S]
  BY SumIsAdded
<1>2. CASE S = {}
  BY <1>1, <1>2 DEF AddsUp
<1>3. CASE S # {}
  <2>1. PICK T : T = S \ {AnyOf(S)}
    OBVIOUS
  <2>2. IsFiniteSet(T) /\ T \in SUBSET S /\ S \in SUBSET S
    BY <2>1, FS_Difference
  <2>3. PICK h : AddsUp(h, f, T) /\ SumFunctionOnSet(f, T) = h[T]
    BY <2>2, SumIsAdded
  <2>4. g[T] = h[T]
    BY <1>1, <2>2, <2>3, AddsUpUnique
  <2>5. g[S] = f[AnyOf(S)] + g[T]
    BY <1>1, <1>3, <2>1 DEF AddsUp
  <2> QED BY <1>1, <1>3, <2>1, <2>3, <2>4, <2>5
<1> QED BY <1>2, <1>3

\* The sum over no element.
LEMMA SumEmpty ==
    ASSUME NEW f
    PROVE  SumFunctionOnSet(f, {}) = 0
BY SumStep, FS_EmptySet

\* Any element may be taken out first.
LEMMA SumTakeOut ==
    ASSUME NEW f, NEW S, IsFiniteSet(S), \A x \in S : f[x] \in Int, NEW x \in S
    PROVE  /\ SumFunctionOnSet(f, S) \in Int
           /\ SumFunctionOnSet(f, S \ {x}) \in Int
           /\ SumFunctionOnSet(f, S) = f[x] + SumFunctionOnSet(f, S \ {x})
<1> DEFINE Sum(s) == SumFunctionOnSet(f, s)
           Good(s) == Sum(s) \in Int /\ \A y \in s : Sum(s) = f[y] + Sum(s \ {y})
           B == {s \in SUBSET S : ~Good(s)}
<1>1. B = {}
  <2> SUFFICES ASSUME B # {} PROVE FALSE
    OBVIOUS
  <2>1. PICK m \in B : \A b \in B : b \subseteq m => b = m
    <3> B \in SUBSET (SUBSET S)  OBVIOUS
    <3> HIDE DEF B
    <3> QED BY SmallestSubset
  <2>2. \A s \in SUBSET m : IsFiniteSet(s)
    BY FS_Subset
  <2>3. \A s \in SUBSET m : s # m => Good(s)
    <3> HIDE DEF Good
    <3> QED BY <2>1
  <2>4. \A s \in SUBSET m : s # {} => AnyOf(s) \in s /\ Sum(s) = f[AnyOf(s)] + Sum(s \ {AnyOf(s)})
    BY <2>2, SumStep, AnyIn
  <2>5. Sum({}) = 0
    BY SumEmpty
  <2>6. m # {}
    <3>1. Good({})
      BY <2>5
    <3> HIDE DEF Good
    <3> QED BY <2>1, <3>1
  <2> DEFINE p == AnyOf(m)
  <2>7. p \in m /\ Sum(m) = f[p] + Sum(m \ {p}) /\ Sum(m \ {p}) \in Int /\ Sum(m) \in Int
    <3>1. p \in m /\ Sum(m) = f[p] + Sum(m \ {p}) /\ f[p] \in Int
      BY <2>4, <2>6
    <3>2. Good(m \ {p})
      <4> HIDE DEF Good, Sum
      <4> QED BY <2>3, <3>1
    <3>3. Sum(m \ {p}) \in Int
      BY <3>2
    <3> HIDE DEF Sum, p
    <3> QED BY <3>1, <3>3
  <2> HIDE DEF Sum, p
  <2>8. ASSUME NEW y \in m PROVE Sum(m) = f[y] + Sum(m \ {y})
    <3>1. CASE y = p
      BY <2>7, <3>1
    <3>2. CASE y # p
      <4>1. Sum(m \ {p}) = f[y] + Sum((m \ {p}) \ {y})
        BY <2>3, <2>7, <3>2
      <4>2. Sum(m \ {y}) = f[p] + Sum((m \ {y}) \ {p})
        BY <2>3, <2>7, <3>2
      <4>3. (m \ {p}) \ {y} = (m \ {y}) \ {p}
        OBVIOUS
      <4>4. Sum((m \ {p}) \ {y}) \in Int
        BY <2>3, <2>7
      <4>5. f[p] \in Int /\ f[y] \in Int
        BY <2>7
      <4>6. Sum(m) = f[p] + (f[y] + Sum((m \ {p}) \ {y}))
        BY <2>7, <4>1
      <4>7. Sum(m \ {y}) = f[p] + Sum((m \ {p}) \ {y})
        BY <4>2, <4>3
      <4> QED BY <4>4, <4>5, <4>6, <4>7
    <3> QED BY <3>1, <3>2
  <2> QED BY <2>1, <2>7, <2>8
<1>2. Good(S) /\ Good(S \ {x})
  <2> HIDE DEF Good
  <2> QED BY <1>1
<1> QED BY <1>2

\* A sum of integers is one.
LEMMA SumInt ==
    ASSUME NEW f, NEW S, IsFiniteSet(S), \A x \in S : f[x] \in Int
    PROVE  SumFunctionOnSet(f, S) \in Int
<1>1. CASE S = {}
  BY <1>1, SumEmpty
<1>2. CASE S # {}
  <2>1. PICK x \in S : TRUE
    BY <1>2
  <2> QED BY <2>1, SumTakeOut
<1> QED BY <1>1, <1>2

\* A new element adds its term.
LEMMA SumPutIn ==
    ASSUME NEW f, NEW S, IsFiniteSet(S), NEW x, x \notin S,
           \A y \in S \union {x} : f[y] \in Int
    PROVE  SumFunctionOnSet(f, S \union {x}) = f[x] + SumFunctionOnSet(f, S)
<1>1. IsFiniteSet(S \union {x})
  BY FS_AddElement
<1>2. (S \union {x}) \ {x} = S
  OBVIOUS
<1> QED BY <1>1, <1>2, SumTakeOut

\* A sum looks at its set only.
LEMMA SumAgrees ==
    ASSUME NEW f, NEW g, NEW S, IsFiniteSet(S), \A x \in S : f[x] = g[x]
    PROVE  SumFunctionOnSet(f, S) = SumFunctionOnSet(g, S)
<1> DEFINE B == {s \in SUBSET S : SumFunctionOnSet(f, s) # SumFunctionOnSet(g, s)}
<1> SUFFICES B = {}
  OBVIOUS
<1> SUFFICES ASSUME B # {} PROVE FALSE
  OBVIOUS
<1>1. PICK m \in B : \A b \in B : b \subseteq m => b = m
  <2> B \in SUBSET (SUBSET S)  OBVIOUS
  <2> HIDE DEF B
  <2> QED BY SmallestSubset
<1>2. IsFiniteSet(m)
  BY FS_Subset
<1>3. m # {}
  <2>1. SumFunctionOnSet(f, {}) = 0 /\ SumFunctionOnSet(g, {}) = 0
    BY SumEmpty
  <2>2. {} \notin B
    BY <2>1
  <2> HIDE DEF B
  <2> QED BY <2>2
<1>4. AnyOf(m) \in m
  BY <1>3, AnyIn
<1>5. SumFunctionOnSet(f, m \ {AnyOf(m)}) = SumFunctionOnSet(g, m \ {AnyOf(m)})
  BY <1>1, <1>4
<1> QED BY <1>1, <1>2, <1>3, <1>4, <1>5, SumStep

\* Changing one term changes the sum by as much.
LEMMA SumChange ==
    ASSUME NEW f, NEW g, NEW S, IsFiniteSet(S), NEW x \in S,
           \A y \in S : f[y] \in Int /\ g[y] \in Int,
           \A y \in S \ {x} : f[y] = g[y]
    PROVE  SumFunctionOnSet(g, S) = SumFunctionOnSet(f, S) - f[x] + g[x]
<1>1. IsFiniteSet(S \ {x})
  BY FS_Difference
<1>2. SumFunctionOnSet(f, S \ {x}) = SumFunctionOnSet(g, S \ {x})
  BY <1>1, SumAgrees
<1>3. SumFunctionOnSet(f, S) = f[x] + SumFunctionOnSet(f, S \ {x}) /\ SumFunctionOnSet(f, S \ {x}) \in Int
  <2>1. \A y \in S : f[y] \in Int
    OBVIOUS
  <2> QED BY <2>1, SumTakeOut
<1>4. SumFunctionOnSet(g, S) = g[x] + SumFunctionOnSet(g, S \ {x})
  BY SumTakeOut
<1> QED BY <1>2, <1>3, <1>4

\* A sum is monotone.
LEMMA SumMonotone ==
    ASSUME NEW f, NEW g, NEW S, IsFiniteSet(S),
           \A x \in S : f[x] \in Int /\ g[x] \in Int /\ f[x] <= g[x]
    PROVE  SumFunctionOnSet(f, S) <= SumFunctionOnSet(g, S)
<1> DEFINE B == {s \in SUBSET S : ~(SumFunctionOnSet(f, s) <= SumFunctionOnSet(g, s))}
<1> SUFFICES B = {}
  OBVIOUS
<1> SUFFICES ASSUME B # {} PROVE FALSE
  OBVIOUS
<1>1. PICK m \in B : \A b \in B : b \subseteq m => b = m
  <2> B \in SUBSET (SUBSET S)  OBVIOUS
  <2> HIDE DEF B
  <2> QED BY SmallestSubset
<1>2. IsFiniteSet(m)
  BY FS_Subset
<1>3. m # {}
  <2>1. SumFunctionOnSet(f, {}) = 0 /\ SumFunctionOnSet(g, {}) = 0
    BY SumEmpty
  <2>2. {} \notin B
    BY <2>1
  <2> HIDE DEF B
  <2> QED BY <2>2
<1>4. PICK x \in m : TRUE
  BY <1>3
<1>5. SumFunctionOnSet(f, m \ {x}) <= SumFunctionOnSet(g, m \ {x})
  BY <1>1, <1>4
<1>6. /\ SumFunctionOnSet(f, m) = f[x] + SumFunctionOnSet(f, m \ {x}) /\ SumFunctionOnSet(f, m \ {x}) \in Int
      /\ SumFunctionOnSet(g, m) = g[x] + SumFunctionOnSet(g, m \ {x}) /\ SumFunctionOnSet(g, m \ {x}) \in Int
  BY <1>2, <1>4, SumTakeOut
<1>7. f[x] <= g[x] /\ f[x] \in Int /\ g[x] \in Int
  BY <1>4
<1> QED BY <1>1, <1>5, <1>6, <1>7

\* A sum of naturals is one.
LEMMA SumNat ==
    ASSUME NEW f, NEW S, IsFiniteSet(S), \A x \in S : f[x] \in Nat
    PROVE  SumFunctionOnSet(f, S) \in Nat
<1> DEFINE zero == [x \in S |-> 0]
           B == {s \in SUBSET S : SumFunctionOnSet(f, s) \notin Nat}
<1> SUFFICES B = {}
  OBVIOUS
<1> SUFFICES ASSUME B # {} PROVE FALSE
  OBVIOUS
<1>1. PICK m \in B : \A b \in B : b \subseteq m => b = m
  <2> B \in SUBSET (SUBSET S)  OBVIOUS
  <2> HIDE DEF B
  <2> QED BY SmallestSubset
<1>2. IsFiniteSet(m)
  BY FS_Subset
<1>3. m # {}
  <2>1. {} \notin B
    BY SumEmpty
  <2> HIDE DEF B
  <2> QED BY <2>1
<1>4. PICK x \in m : TRUE
  BY <1>3
<1>5. SumFunctionOnSet(f, m \ {x}) \in Nat
  BY <1>1, <1>4
<1>6. SumFunctionOnSet(f, m) = f[x] + SumFunctionOnSet(f, m \ {x})
  BY <1>2, <1>4, SumTakeOut
<1>7. f[x] \in Nat
  BY <1>4
<1>8. SumFunctionOnSet(f, m) \in Nat
  BY <1>5, <1>6, <1>7
<1> QED BY <1>8

\* No term of a sum of naturals is larger than the sum.
LEMMA SumBoundsTerm ==
    ASSUME NEW f, NEW S, IsFiniteSet(S), \A x \in S : f[x] \in Nat, NEW x \in S
    PROVE  f[x] <= SumFunctionOnSet(f, S)
<1>1. IsFiniteSet(S \ {x})
  BY FS_Difference
<1>2. SumFunctionOnSet(f, S \ {x}) \in Nat
  BY <1>1, SumNat
<1>3. SumFunctionOnSet(f, S) = f[x] + SumFunctionOnSet(f, S \ {x})
  BY SumTakeOut
<1> QED BY <1>2, <1>3

\* Elements whose term is zero may be left out.
LEMMA SumOfNonZero ==
    ASSUME NEW f, NEW S, IsFiniteSet(S), NEW T \in SUBSET S,
           \A x \in S : f[x] \in Int, \A x \in S \ T : f[x] = 0
    PROVE  SumFunctionOnSet(f, S) = SumFunctionOnSet(f, T)
<1> DEFINE B == {s \in SUBSET S : T \subseteq s /\ SumFunctionOnSet(f, s) # SumFunctionOnSet(f, T)}
<1> SUFFICES B = {}
  OBVIOUS
<1> SUFFICES ASSUME B # {} PROVE FALSE
  OBVIOUS
<1>1. PICK m \in B : \A b \in B : b \subseteq m => b = m
  <2> B \in SUBSET (SUBSET S)  OBVIOUS
  <2> HIDE DEF B
  <2> QED BY SmallestSubset
<1>2. IsFiniteSet(m)
  BY FS_Subset
<1>3. m # T
  BY <1>1
<1>4. PICK x \in m : x \notin T
  BY <1>1, <1>3
<1>5. SumFunctionOnSet(f, m \ {x}) = SumFunctionOnSet(f, T)
  BY <1>1, <1>4
<1>6. SumFunctionOnSet(f, m) = f[x] + SumFunctionOnSet(f, m \ {x}) /\ SumFunctionOnSet(f, m \ {x}) \in Int
  BY <1>2, <1>4, SumTakeOut
<1>7. f[x] = 0
  BY <1>4
<1> QED BY <1>1, <1>5, <1>6, <1>7

\* The sum over one element.
LEMMA SumOfOne ==
    ASSUME NEW f, NEW x, f[x] \in Int
    PROVE  SumFunctionOnSet(f, {x}) = f[x]
<1>1. IsFiniteSet({x}) /\ x \in {x} /\ {x} \ {x} = {}
  BY FS_Singleton
<1>2. SumFunctionOnSet(f, {x}) = f[x] + SumFunctionOnSet(f, {x} \ {x})
  BY <1>1, SumTakeOut
<1> QED BY <1>1, <1>2, SumEmpty

\* A sum of zeros is zero.
LEMMA SumOfZeros ==
    ASSUME NEW f, NEW S, IsFiniteSet(S), \A x \in S : f[x] = 0
    PROVE  SumFunctionOnSet(f, S) = 0
<1>1. SumFunctionOnSet(f, S) = SumFunctionOnSet(f, {})
  BY SumOfNonZero
<1> QED BY <1>1, SumEmpty

\* What is selected from S can be summed up over S, the rest counting nothing.
LEMMA SumOfSelected ==
    ASSUME NEW f, NEW h, NEW S, IsFiniteSet(S), NEW A \in SUBSET S,
           \A x \in A : f[x] = h[x], \A x \in S \ A : h[x] = 0, \A x \in S : h[x] \in Int
    PROVE  SumFunctionOnSet(f, A) = SumFunctionOnSet(h, S)
<1>1. IsFiniteSet(A)
  BY FS_Subset
<1>2. SumFunctionOnSet(f, A) = SumFunctionOnSet(h, A)
  BY <1>1, SumAgrees
<1>3. SumFunctionOnSet(h, S) = SumFunctionOnSet(h, A)
  BY SumOfNonZero
<1> QED BY <1>2, <1>3

\* The sum of two functions is the sum of their sums.
LEMMA SumOfSums ==
    ASSUME NEW f, NEW g, NEW h, NEW S, IsFiniteSet(S),
           \A x \in S : f[x] \in Int /\ g[x] \in Int /\ h[x] = f[x] + g[x]
    PROVE  SumFunctionOnSet(h, S) = SumFunctionOnSet(f, S) + SumFunctionOnSet(g, S)
<1> DEFINE B == {s \in SUBSET S : SumFunctionOnSet(h, s) # SumFunctionOnSet(f, s) + SumFunctionOnSet(g, s)}
<1> SUFFICES B = {}
  OBVIOUS
<1> SUFFICES ASSUME B # {} PROVE FALSE
  OBVIOUS
<1>1. PICK m \in B : \A b \in B : b \subseteq m => b = m
  <2> B \in SUBSET (SUBSET S)  OBVIOUS
  <2> HIDE DEF B
  <2> QED BY SmallestSubset
<1>2. IsFiniteSet(m) /\ m \in SUBSET S
  BY FS_Subset
<1>3. m # {}
  <2>1. {} \notin B
    BY SumEmpty
  <2> HIDE DEF B
  <2> QED BY <2>1
<1>4. PICK x \in m : TRUE
  BY <1>3
<1>5. SumFunctionOnSet(h, m \ {x}) = SumFunctionOnSet(f, m \ {x}) + SumFunctionOnSet(g, m \ {x})
  <2>1. m \ {x} \notin B
    <3> HIDE DEF B
    <3> QED BY <1>1, <1>4
  <2> QED BY <1>2, <2>1
<1>6. \A y \in m : f[y] \in Int /\ g[y] \in Int /\ h[y] \in Int /\ h[y] = f[y] + g[y]
  BY <1>2
<1>7. /\ SumFunctionOnSet(f, m) = f[x] + SumFunctionOnSet(f, m \ {x}) /\ SumFunctionOnSet(f, m \ {x}) \in Int
      /\ SumFunctionOnSet(g, m) = g[x] + SumFunctionOnSet(g, m \ {x}) /\ SumFunctionOnSet(g, m \ {x}) \in Int
      /\ SumFunctionOnSet(h, m) = h[x] + SumFunctionOnSet(h, m \ {x}) /\ SumFunctionOnSet(h, m \ {x}) \in Int
  BY <1>2, <1>4, <1>6, SumTakeOut
<1>8. SumFunctionOnSet(h, m) = SumFunctionOnSet(f, m) + SumFunctionOnSet(g, m)
  BY <1>4, <1>5, <1>6, <1>7
<1> QED BY <1>1, <1>8

\* A set can be summed up place by place.
LEMMA SumByPlace ==
    ASSUME NEW f, NEW place, NEW S, IsFiniteSet(S), NEW T, IsFiniteSet(T),
           \A x \in S : f[x] \in Int /\ place[x] \in T
    PROVE  SumFunctionOnSet(f, S)
             = SumFunctionOnSet([y \in T |-> SumFunctionOnSet(f, {x \in S : place[x] = y})], T)
<1> DEFINE At(s, y) == {x \in s : place[x] = y}
           Row(s) == [y \in T |-> SumFunctionOnSet(f, At(s, y))]
           B == {s \in SUBSET S : SumFunctionOnSet(f, s) # SumFunctionOnSet(Row(s), T)}
<1> SUFFICES B = {}
  OBVIOUS
<1> SUFFICES ASSUME B # {} PROVE FALSE
  OBVIOUS
<1>1. PICK m \in B : \A b \in B : b \subseteq m => b = m
  <2> B \in SUBSET (SUBSET S)  OBVIOUS
  <2> HIDE DEF B
  <2> QED BY SmallestSubset
<1>2. IsFiniteSet(m) /\ m \in SUBSET S
  BY FS_Subset
<1>3. m # {}
  <2>1. \A y \in T : Row({})[y] = 0
    BY SumEmpty
  <2>2. SumFunctionOnSet(Row({}), T) = 0
    <3> HIDE DEF Row
    <3> QED BY <2>1, SumOfZeros
  <2>3. {} \notin B
    <3> HIDE DEF Row
    <3> QED BY <2>2, SumEmpty
  <2> HIDE DEF B
  <2> QED BY <2>3
<1>4. PICK x \in m : TRUE
  BY <1>3
<1>5. SumFunctionOnSet(f, m \ {x}) = SumFunctionOnSet(Row(m \ {x}), T)
  <2>1. m \ {x} \notin B
    <3> HIDE DEF B
    <3> QED BY <1>1, <1>4
  <2> HIDE DEF Row
  <2> QED BY <1>2, <2>1
<1>6. \A y \in m : f[y] \in Int /\ place[y] \in T
  BY <1>2
<1>7. SumFunctionOnSet(f, m) = f[x] + SumFunctionOnSet(f, m \ {x})
  BY <1>2, <1>4, <1>6, SumTakeOut
<1>8. \A y \in T : At(m, y) \subseteq m /\ At(m \ {x}, y) \subseteq m
  OBVIOUS
<1>9. \A y \in T : Row(m)[y] \in Int /\ Row(m \ {x})[y] \in Int
  <2>1. ASSUME NEW s \in SUBSET m PROVE SumFunctionOnSet(f, s) \in Int
    BY <1>2, <1>6, FS_Subset, SumInt
  <2> HIDE DEF At
  <2> QED BY <1>8, <2>1
<1>10. Row(m)[place[x]] = f[x] + Row(m \ {x})[place[x]]
  <2>1. At(m \ {x}, place[x]) = At(m, place[x]) \ {x} /\ x \in At(m, place[x])
    BY <1>4
  <2>2. IsFiniteSet(At(m, place[x])) /\ \A z \in At(m, place[x]) : f[z] \in Int
    BY <1>2, <1>6, FS_Subset
  <2> HIDE DEF At
  <2>3. SumFunctionOnSet(f, At(m, place[x])) = f[x] + SumFunctionOnSet(f, At(m, place[x]) \ {x})
    BY <2>1, <2>2, SumTakeOut
  <2> QED BY <1>4, <1>6, <2>1, <2>3
<1>11. \A y \in T \ {place[x]} : Row(m)[y] = Row(m \ {x})[y]
  <2>1. \A y \in T \ {place[x]} : At(m, y) = At(m \ {x}, y)
    OBVIOUS
  <2> HIDE DEF At
  <2> QED BY <2>1
<1>12. place[x] \in T /\ f[x] \in Int
  BY <1>4, <1>6
<1>13. SumFunctionOnSet(f, m) # SumFunctionOnSet(Row(m), T)
  BY <1>1
<1> HIDE DEF Row, B
<1>14. PICK u, v, p : u = Row(m) /\ v = Row(m \ {x}) /\ p = place[x] /\ p \in T
  BY <1>12
<1>15. /\ \A y \in T : u[y] \in Int /\ v[y] \in Int
       /\ \A y \in T \ {p} : v[y] = u[y]
  BY <1>9, <1>11, <1>14
<1>16. SumFunctionOnSet(u, T) = SumFunctionOnSet(v, T) - v[p] + u[p] /\ SumFunctionOnSet(v, T) \in Int
  <2>1. p \in T
    BY <1>14
  <2>2. SumFunctionOnSet(u, T) = SumFunctionOnSet(v, T) - v[p] + u[p]
    BY ONLY IsFiniteSet(T), <1>15, <2>1, SumChange
  <2>3. SumFunctionOnSet(v, T) \in Int
    BY ONLY IsFiniteSet(T), <1>15, SumInt
  <2> QED BY <2>2, <2>3
<1>17. u[p] = f[x] + v[p] /\ u[p] \in Int /\ v[p] \in Int
  BY <1>10, <1>14, <1>15
<1>18. SumFunctionOnSet(f, m) = f[x] + SumFunctionOnSet(v, T)
  BY <1>5, <1>7, <1>14
<1>19. SumFunctionOnSet(f, m) = SumFunctionOnSet(u, T)
  BY <1>12, <1>16, <1>17, <1>18
<1> QED BY <1>13, <1>14, <1>19

\* A sum of terms that are at most d is at most d for each element.
LEMMA SumBounded ==
    ASSUME NEW f, NEW S, IsFiniteSet(S), NEW d \in Nat,
           \A x \in S : f[x] \in Int /\ f[x] <= d
    PROVE  SumFunctionOnSet(f, S) <= Cardinality(S) * d
<1> DEFINE B == {s \in SUBSET S : ~(SumFunctionOnSet(f, s) <= Cardinality(s) * d)}
<1> SUFFICES B = {}
  OBVIOUS
<1> SUFFICES ASSUME B # {} PROVE FALSE
  OBVIOUS
<1>1. PICK m \in B : \A b \in B : b \subseteq m => b = m
  <2> B \in SUBSET (SUBSET S)  OBVIOUS
  <2> HIDE DEF B
  <2> QED BY SmallestSubset
<1>2. IsFiniteSet(m)
  BY FS_Subset
<1>3. m # {}
  <2>1. {} \notin B
    <3>1. SumFunctionOnSet(f, {}) = 0 /\ Cardinality({}) = 0
      BY SumEmpty, FS_EmptySet
    <3> QED BY <3>1
  <2> HIDE DEF B
  <2> QED BY <2>1
<1>4. PICK x \in m : TRUE
  BY <1>3
<1>5. SumFunctionOnSet(f, m \ {x}) <= Cardinality(m \ {x}) * d
  BY <1>1, <1>4
<1>6. SumFunctionOnSet(f, m) = f[x] + SumFunctionOnSet(f, m \ {x}) /\ SumFunctionOnSet(f, m \ {x}) \in Int
  BY <1>2, <1>4, SumTakeOut
<1>7. f[x] <= d /\ f[x] \in Int
  BY <1>4
<1>8. Cardinality(m \ {x}) = Cardinality(m) - 1 /\ Cardinality(m) \in Nat
  BY <1>2, <1>4, FS_RemoveElement, FS_CardinalityType
<1>9. (Cardinality(m) - 1) * d + d = Cardinality(m) * d
  BY <1>8
<1>10. SumFunctionOnSet(f, m) <= Cardinality(m) * d
  <2>1. (Cardinality(m) - 1) * d \in Int /\ Cardinality(m) * d \in Int
    BY <1>8
  <2> QED BY <2>1, <1>5, <1>6, <1>7, <1>8, <1>9
<1> QED BY <1>1, <1>10

\* A set has as many elements as ones add up to.
LEMMA CardinalityIsSum ==
    ASSUME NEW f, NEW S, IsFiniteSet(S), \A x \in S : f[x] = 1
    PROVE  SumFunctionOnSet(f, S) = Cardinality(S)
<1> DEFINE B == {s \in SUBSET S : SumFunctionOnSet(f, s) # Cardinality(s)}
<1> SUFFICES B = {}
  OBVIOUS
<1> SUFFICES ASSUME B # {} PROVE FALSE
  OBVIOUS
<1>1. PICK m \in B : \A b \in B : b \subseteq m => b = m
  <2> B \in SUBSET (SUBSET S)  OBVIOUS
  <2> HIDE DEF B
  <2> QED BY SmallestSubset
<1>2. IsFiniteSet(m) /\ m \subseteq S /\ SumFunctionOnSet(f, m) # Cardinality(m)
  BY <1>1, FS_Subset
<1>3. PICK x \in m : TRUE
  BY <1>2, SumEmpty, FS_EmptySet
<1>4. PICK r : r = m \ {x}
  OBVIOUS
<1>5. SumFunctionOnSet(f, r) = Cardinality(r)
  BY <1>1, <1>2, <1>3, <1>4
<1>6. SumFunctionOnSet(f, m) = f[x] + SumFunctionOnSet(f, r)
  BY <1>2, <1>3, <1>4, SumTakeOut
<1>7. Cardinality(r) = Cardinality(m) - 1 /\ Cardinality(m) \in Nat
  BY <1>2, <1>3, <1>4, FS_RemoveElement, FS_CardinalityType
<1> QED BY <1>2, <1>3, <1>5, <1>6, <1>7

\* How many elements of S have each place.
CountedBy(place, S, T) == [y \in T |-> Cardinality({x \in S : place[x] = y})]

\* A set can be counted place by place.
LEMMA CountByPlace ==
    ASSUME NEW place, NEW S, IsFiniteSet(S), NEW T, IsFiniteSet(T), \A x \in S : place[x] \in T
    PROVE  Cardinality(S) = SumFunctionOnSet(CountedBy(place, S, T), T)
<1> DEFINE one == [x \in S |-> 1]
           sums == [y \in T |-> SumFunctionOnSet(one, {x \in S : place[x] = y})]
<1>1. \A x \in S : one[x] = 1
  OBVIOUS
<1> HIDE DEF one
<1>2. SumFunctionOnSet(one, S) = SumFunctionOnSet(sums, T)
  BY <1>1, SumByPlace
<1>3. SumFunctionOnSet(one, S) = Cardinality(S)
  BY <1>1, CardinalityIsSum
<1>4. ASSUME NEW y \in T PROVE sums[y] = CountedBy(place, S, T)[y]
  <2>1. PICK A : A = {x \in S : place[x] = y}
    OBVIOUS
  <2>2. IsFiniteSet(A) /\ \A x \in A : one[x] = 1
    BY <1>1, <2>1, FS_Subset
  <2>3. SumFunctionOnSet(one, A) = Cardinality(A)
    BY <2>2, CardinalityIsSum
  <2> QED BY <2>1, <2>3 DEF CountedBy
<1> HIDE DEF sums
<1>5. SumFunctionOnSet(sums, T) = SumFunctionOnSet(CountedBy(place, S, T), T)
  BY <1>4, SumAgrees
<1> QED BY <1>2, <1>3, <1>5

\* One element more is d more, of d for every element.
LEMMA OneElementMore ==
  ASSUME NEW S, IsFiniteSet(S), NEW r \in S, NEW d \in Nat
  PROVE  /\ Cardinality(S \ {r}) \in Nat
         /\ Cardinality(S) * d = Cardinality(S \ {r}) * d + d
  <1>1. IsFiniteSet(S \ {r}) /\ Cardinality(S \ {r}) = Cardinality(S) - 1
    BY FS_RemoveElement
  <1>2. Cardinality(S) \in Nat /\ Cardinality(S \ {r}) \in Nat
    BY <1>1, FS_CardinalityType
  <1>3. PICK n \in Nat : n = Cardinality(S \ {r})
    BY <1>2
  <1>4. Cardinality(S) = n + 1 /\ (n + 1) * d = n * d + d
    BY <1>1, <1>2, <1>3
  <1> QED BY <1>3, <1>4

\* d for every one of n is a number that grows with d.
LEMMA TimesGrows ==
  ASSUME NEW n \in Nat, NEW d \in Nat
  PROVE  /\ n * d \in Nat
         /\ \A e \in Nat : d <= e => n * d <= n * e
  OBVIOUS

-----------------------------------------------------------------------------
(* Extreme elements.                                                       *)

\* A nonempty finite set of integers has a least element.
LEMMA LeastExists ==
    ASSUME NEW S, IsFiniteSet(S), S \subseteq Int, S # {}
    PROVE  \E m \in S : \A x \in S : m <= x
<1>1. PICK B : B = {{y \in S : y < x} : x \in S}
  OBVIOUS
<1>2. B \in SUBSET (SUBSET S) /\ B # {}
  BY <1>1
<1>3. PICK m \in B : \A b \in B : b \subseteq m => b = m
  BY ONLY IsFiniteSet(S), <1>2, SmallestSubset
<1>4. PICK x \in S : m = {y \in S : y < x}
  BY <1>1
<1>5. ASSUME NEW z \in S, z < x PROVE FALSE
  <2>1. PICK b \in B : b = {y \in S : y < z}
    BY <1>1
  <2>2. \A y \in b : y \in m
    <3>1. x \in Int /\ z \in Int /\ \A y \in S : y \in Int
      OBVIOUS
    <3> QED BY ONLY <1>4, <1>5, <2>1, <3>1
  <2>3. z \in m /\ z \notin b
    BY <1>4, <1>5, <2>1
  <2> QED BY <1>3, <2>2, <2>3
<1> QED BY <1>5

\* A nonempty finite set of integers has a greatest element.
LEMMA GreatestExists ==
    ASSUME NEW S, IsFiniteSet(S), S \subseteq Int, S # {}
    PROVE  \E m \in S : \A x \in S : x <= m
<1>1. PICK B : B = {{y \in S : x < y} : x \in S}
  OBVIOUS
<1>2. B \in SUBSET (SUBSET S) /\ B # {}
  BY <1>1
<1>3. PICK m \in B : \A b \in B : b \subseteq m => b = m
  BY ONLY IsFiniteSet(S), <1>2, SmallestSubset
<1>4. PICK x \in S : m = {y \in S : x < y}
  BY <1>1
<1>5. ASSUME NEW z \in S, x < z PROVE FALSE
  <2>1. PICK b \in B : b = {y \in S : z < y}
    BY <1>1
  <2>2. \A y \in b : y \in m
    <3>1. x \in Int /\ z \in Int /\ \A y \in S : y \in Int
      OBVIOUS
    <3> QED BY ONLY <1>4, <1>5, <2>1, <3>1
  <2>3. z \in m /\ z \notin b
    BY <1>4, <1>5, <2>1
  <2> QED BY <1>3, <2>2, <2>3
<1> QED BY <1>5

\* A finite set whose elements have a place has one with the first place and
\* one with the last.
LEMMA FirstAndLastExist ==
    ASSUME NEW S, IsFiniteSet(S), S # {}, NEW place, \A x \in S : place[x] \in Int
    PROVE  /\ \E m \in S : \A x \in S : place[m] <= place[x]
           /\ \E m \in S : \A x \in S : place[x] <= place[m]
<1> DEFINE P == {place[x] : x \in S}
<1>1. IsFiniteSet(P) /\ P \subseteq Int /\ P # {}
  <2>1. [x \in S |-> place[x]] \in Surjection(S, P)
    BY DEF Surjection
  <2>2. IsFiniteSet(P)
    <3> HIDE DEF P
    <3> QED BY <2>1, FS_Surjection
  <2> QED BY <2>2
<1>2. (\E p \in P : \A q \in P : p <= q) /\ (\E p \in P : \A q \in P : q <= p)
  <2> HIDE DEF P
  <2> QED BY <1>1, LeastExists, GreatestExists
<1> QED BY <1>2

\* What Min chooses is the least element.
LEMMA MinIsLeast ==
    ASSUME NEW S, S \subseteq Int, NEW m \in S, \A x \in S : m <= x
    PROVE  Min(S) = m
<1>1. \A n \in S : (\A x \in S : n <= x) => n = m
  OBVIOUS
<1> QED BY <1>1 DEF Min

\* A finite set has subsets of every size up to its own.
LEMMA SubsetOfSize ==
    ASSUME NEW S, IsFiniteSet(S), NEW n \in Nat, n <= Cardinality(S)
    PROVE  \E T \in SUBSET S : Cardinality(T) = n
<1> DEFINE B == {T \in SUBSET S : n <= Cardinality(T)}
<1>1. B \in SUBSET (SUBSET S) /\ B # {} /\ \A T \in B : T \in SUBSET S /\ n <= Cardinality(T)
  OBVIOUS
<1>2. \A T \in SUBSET S : n <= Cardinality(T) => T \in B
  OBVIOUS
<1> HIDE DEF B
<1>3. PICK m \in B : \A b \in B : b \subseteq m => b = m
  BY <1>1, SmallestSubset
<1>4. m \in SUBSET S /\ IsFiniteSet(m) /\ Cardinality(m) \in Nat /\ n <= Cardinality(m)
  BY <1>1, <1>3, FS_Subset, FS_CardinalityType
<1>5. CASE n = Cardinality(m)
  BY <1>4, <1>5
<1>6. CASE n # Cardinality(m)
  <2>1. PICK x : x \in m
    BY <1>4, <1>6, FS_EmptySet
  <2>2. Cardinality(m \ {x}) = Cardinality(m) - 1
    BY <1>4, <2>1, FS_RemoveElement
  <2>3. m \ {x} \in SUBSET S /\ n <= Cardinality(m \ {x})
    BY <1>4, <1>6, <2>2
  <2>4. m \ {x} = m
    BY <1>2, <1>3, <2>3
  <2> QED BY <2>1, <2>4
<1> QED BY <1>5, <1>6

-----------------------------------------------------------------------------
(* Rows in an order, cut into pages.                                       *)

\* The place of a row in a strict total order of the rows: as many come before it.
IsOrder(R, S) ==
    /\ \A i \in S : <<i, i>> \notin R
    /\ \A i, j, k \in S : <<i, j>> \in R /\ <<j, k>> \in R => <<i, k>> \in R
    /\ \A i, j \in S : i # j => <<i, j>> \in R \/ <<j, i>> \in R

Before(R, S, i) == {j \in S : <<j, i>> \in R}

\* Different rows have different places, from 0 on.
LEMMA RanksDiffer ==
    ASSUME NEW S, IsFiniteSet(S), NEW R, IsOrder(R, S)
    PROVE  /\ Cardinality(S) \in Nat
           /\ \A i \in S : Cardinality(Before(R, S, i)) \in 0 .. Cardinality(S) - 1
           /\ \A i, k \in S : Cardinality(Before(R, S, i)) = Cardinality(Before(R, S, k)) => i = k
<1>1. ASSUME NEW i \in S
      PROVE  /\ IsFiniteSet(Before(R, S, i)) /\ Cardinality(Before(R, S, i)) \in Nat
             /\ Cardinality(Before(R, S, i)) < Cardinality(S)
  <2>1. Before(R, S, i) \in SUBSET S /\ Before(R, S, i) # S
    BY DEF Before, IsOrder
  <2>2. IsFiniteSet(Before(R, S, i)) /\ Cardinality(S) \in Nat
    BY <2>1, FS_Subset, FS_CardinalityType
  <2>3. Cardinality(Before(R, S, i)) \in Nat
    BY <2>2, FS_CardinalityType
  <2>4. Cardinality(Before(R, S, i)) <= Cardinality(S) /\ Cardinality(Before(R, S, i)) # Cardinality(S)
    BY <2>1, FS_Subset
  <2> QED BY <2>2, <2>3, <2>4
<1>2. ASSUME NEW i \in S, NEW k \in S, <<i, k>> \in R
      PROVE  Cardinality(Before(R, S, i)) < Cardinality(Before(R, S, k))
  <2>1. PICK A, C : A = Before(R, S, i) /\ C = Before(R, S, k)
    OBVIOUS
  <2>2. A \in SUBSET C /\ i \in C /\ i \notin A
    BY <1>2, <2>1 DEF Before, IsOrder
  <2>3. IsFiniteSet(C) /\ Cardinality(C) \in Nat /\ Cardinality(A) \in Nat
    BY <1>1, <2>1
  <2>4. Cardinality(A) <= Cardinality(C) /\ Cardinality(A) # Cardinality(C)
    BY <2>2, <2>3, FS_Subset
  <2> QED BY <2>1, <2>3, <2>4
<1>3. Cardinality(S) \in Nat
  BY FS_CardinalityType
<1>4. ASSUME NEW i \in S, NEW k \in S, i # k
      PROVE  Cardinality(Before(R, S, i)) # Cardinality(Before(R, S, k))
  <2>1. <<i, k>> \in R \/ <<k, i>> \in R
    BY <1>4 DEF IsOrder
  <2>2. Cardinality(Before(R, S, i)) \in Nat /\ Cardinality(Before(R, S, k)) \in Nat
    BY <1>1
  <2> QED BY <1>2, <2>1, <2>2
<1> QED BY <1>1, <1>3, <1>4

\* Division rounds down.
LEMMA Divided ==
    ASSUME NEW n \in Nat, NEW d \in Nat \ {0}
    PROVE  n \div d \in Nat /\ (n \div d) * d <= n /\ n < (n \div d) * d + d
BY SMTT(30)

\* A later page starts where the one before it ends, or after that.
LEMMA MoreTimes ==
    ASSUME NEW p \in Int, NEW q \in Int, NEW d \in Nat \ {0}, p < q
    PROVE  p * d \in Int /\ q * d \in Int /\ p * d + d <= q * d
BY SMTT(30)

\* The pages, of d numbers each from 0 on, that x is on.
OnPages(x, d, last) == {q \in 1 .. last : x \in (q - 1) * d .. (q - 1) * d + d - 1}

\* Each number that the pages reach is on one of them.
LEMMA OnOnePage ==
    ASSUME NEW x \in Nat, NEW d \in Nat \ {0}, NEW last \in Nat, x < last * d
    PROVE  \E p \in 1 .. last : OnPages(x, d, last) = {p}
<1>1. PICK k \in Nat : k * d <= x /\ x < k * d + d
  <2>1. x \div d \in Nat /\ (x \div d) * d <= x /\ x < (x \div d) * d + d
    BY Divided
  <2> QED BY <2>1, Zenon
<1>2. k < last
  <2>1. CASE last <= k
    <3>1. last * d <= k * d
      <4>1. CASE last = k
        <5>1. k * d \in Int
          OBVIOUS
        <5> QED BY <4>1, <5>1
      <4>2. CASE last < k
        BY <4>2, MoreTimes
      <4> QED BY <2>1, <4>1, <4>2
    <3>2. last * d \in Int /\ k * d \in Int
      OBVIOUS
    <3> QED BY <1>1, <3>1, <3>2
  <2> QED BY <2>1
<1>3. k + 1 \in 1 .. last /\ (k + 1) - 1 = k
  BY <1>2
<1>4. x \in k * d .. k * d + d - 1
  BY <1>1
<1>5. ASSUME NEW q \in 1 .. last, x \in (q - 1) * d .. (q - 1) * d + d - 1
      PROVE  q = k + 1
  <2>1. PICK m \in Int : m = q - 1
    OBVIOUS
  <2>2. PICK y \in Int, z \in Int : y = m * d /\ z = k * d
    OBVIOUS
  <2>3. y <= x /\ x <= y + d - 1 /\ z <= x /\ x < z + d
    BY <1>1, <1>5, <2>1, <2>2
  <2>4. ~(m < k)
    <3>1. m < k => y + d <= z
      BY <2>2, MoreTimes
    <3> QED BY <2>3, <3>1
  <2>5. ~(k < m)
    <3>1. k < m => z + d <= y
      BY <2>2, MoreTimes
    <3> QED BY <2>3, <3>1
  <2> QED BY <2>1, <2>4, <2>5
<1>6. OnPages(x, d, last) = {k + 1}
  BY <1>3, <1>4, <1>5 DEF OnPages
<1> QED BY <1>3, <1>6

\* A page is no longer than asked for: its rows have different places on it.
LEMMA PageFits ==
    ASSUME NEW S, NEW place \in [S -> Nat], \A i, k \in S : place[i] = place[k] => i = k,
           NEW a \in Nat, NEW d \in Nat \ {0}
    PROVE  Cardinality({i \in S : place[i] \in a .. a + d - 1}) <= d
<1> DEFINE P == {i \in S : place[i] \in a .. a + d - 1}
           f == [i \in P |-> place[i]]
<1>1. f \in Injection(P, a .. a + d - 1)
  BY DEF Injection, IsInjective
<1>2. IsFiniteSet(a .. a + d - 1) /\ Cardinality(a .. a + d - 1) = d
  BY FS_Interval
<1>3. Cardinality(P) <= Cardinality(a .. a + d - 1)
  <2> HIDE DEF P, f
  <2> QED BY <1>1, <1>2, FS_Injection
<1> QED BY <1>2, <1>3
===============================================================================
