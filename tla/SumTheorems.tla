---------------------------- MODULE SumTheorems ----------------------------
(***************************************************************************)
(* Facts about SumFunctionOnSet of the community modules: that the function *)
(* its recursion chooses exists, and what the sum over a finite set does   *)
(* when an element is taken out, another set is added, or each term moves  *)
(* a little.                                                               *)
(*                                                                         *)
(* The library's induction theorems are about operators. SubsetInduction   *)
(* is about sets, which is enough: what is proved by induction here is     *)
(* that every subset of a finite set is in a set.                          *)
(***************************************************************************)
EXTENDS Integers, FiniteSets, Functions, FiniteSetTheorems, WellFoundedInduction, TLAPS

-----------------------------------------------------------------------------
(* Induction over finite sets *)

\* Induction over the subsets of a finite set: a set that holds a subset whenever
\* it holds what is left of it without each of its elements, holds them all.
LEMMA SubsetInduction ==
    ASSUME NEW S, IsFiniteSet(S), NEW G,
           \A s \in SUBSET S : (\A x \in s : s \ {x} \in G) => s \in G
    PROVE  \A s \in SUBSET S : s \in G
<1> DEFINE Bad == {s \in SUBSET S : s \notin G}
<1> SUFFICES ASSUME Bad # {} PROVE FALSE  OBVIOUS
<1>1. Bad \subseteq FiniteSubsetsOf(S)  BY FS_FiniteSubsetsOfFinite
<1>2. PICK s \in Bad : \A u \in Bad : <<u, s>> \notin StrictSubsetOrdering(S)
  <2>1. IsWellFoundedOn(StrictSubsetOrdering(S), FiniteSubsetsOf(S))
    BY FS_StrictSubsetOrderingWellFounded
  <2> HIDE DEF Bad
  <2> QED  BY <1>1, <2>1, WFMin
<1>3. ASSUME NEW x \in s, s \ {x} \notin G PROVE FALSE
  <2>1. s \ {x} \in Bad  BY <1>3
  <2>2. <<s \ {x}, s>> \in StrictSubsetOrdering(S)  BY DEF StrictSubsetOrdering
  <2> QED  BY <1>2, <2>1, <2>2
<1> QED  BY <1>3

-----------------------------------------------------------------------------
(* The recursion *)

AnElement(s) == CHOOSE x \in s : TRUE

LEMMA AnElementIn == \A s : s # {} => AnElement(s) \in s
BY DEF AnElement

\* What the recursion of the library's folds makes of a set.
Added(g, f, s) == IF s = {} THEN 0 ELSE f[AnElement(s)] + g[s \ {AnElement(s)}]

\* There is a function that the recursion defines: one that is right for sets of
\* n elements gives one that is right for those of n + 1.
LEMMA SumsExist ==
    ASSUME NEW S, IsFiniteSet(S), NEW f
    PROVE  \E g : g = [s \in SUBSET S |-> Added(g, f, s)]
<1> DEFINE Upto(g, n) == \A s \in SUBSET S : Cardinality(s) <= n => g[s] = Added(g, f, s)
           G == {s \in SUBSET S : \E g : Upto(g, Cardinality(s))}
<1>1. \A s \in SUBSET S : IsFiniteSet(s) /\ Cardinality(s) \in Nat
  BY FS_Subset, FS_CardinalityType
<1>2. ASSUME NEW t \in SUBSET S, \A x \in t : t \ {x} \in G
      PROVE  t \in G
  <2>1. CASE t = {}
    <3> DEFINE g == [s \in SUBSET S |-> 0]
    <3>1. \A s \in SUBSET S : Cardinality(s) <= 0 => s = {}  BY <1>1, FS_EmptySet
    <3>2. Upto(g, 0)  BY <3>1 DEF Added
    <3> QED  BY <2>1, <3>2, FS_EmptySet
  <2>2. CASE t # {}
    <3>1. PICK x \in t : TRUE  BY <2>2
    <3>2. PICK g : Upto(g, Cardinality(t \ {x}))  BY <1>2, <3>1
    <3>3. Cardinality(t \ {x}) = Cardinality(t) - 1  BY <1>1, FS_RemoveElement
    <3> DEFINE h == [s \in SUBSET S |-> Added(g, f, s)]
    <3>4. ASSUME NEW s \in SUBSET S, Cardinality(s) <= Cardinality(t)
          PROVE  h[s] = Added(h, f, s)
      <4>1. CASE s = {}  BY <4>1 DEF Added
      <4>2. CASE s # {}
        <5> DEFINE u == s \ {AnElement(s)}
        <5>1. AnElement(s) \in s  BY <4>2, AnElementIn
        <5>2. Cardinality(u) = Cardinality(s) - 1  BY <5>1, <1>1, FS_RemoveElement
        <5>3. u \in SUBSET S /\ Cardinality(u) <= Cardinality(t \ {x})
          BY <5>2, <3>3, <3>4, <1>1
        <5>4. h[u] = g[u]  BY <3>2, <5>3
        <5> QED  BY <4>2, <5>4 DEF Added
      <4> QED  BY <4>1, <4>2
    <3> QED  BY <3>4
  <2> QED  BY <2>1, <2>2
<1>3. S \in G
  <2> HIDE DEF G
  <2> QED  BY <1>2, SubsetInduction
<1>4. PICK g : Upto(g, Cardinality(S))  BY <1>3
<1>5. \A s \in SUBSET S : Cardinality(s) <= Cardinality(S)  BY FS_Subset
<1> DEFINE h == [s \in SUBSET S |-> g[s]]
<1>6. \A s \in SUBSET S : g[s] = Added(g, f, s) /\ Added(h, f, s) = Added(g, f, s)
  BY <1>4, <1>5 DEF Added
<1>7. h = [s \in SUBSET S |-> Added(h, f, s)]  BY <1>6
<1> QED  BY <1>7

\* The library's sum is the value of such a function.
LEMMA SumIsRecursive ==
    ASSUME NEW S, IsFiniteSet(S), NEW f
    PROVE  \E g : /\ \A s \in SUBSET S : g[s] = Added(g, f, s)
                  /\ SumFunctionOnSet(f, S) = g[S]
<1> DEFINE iter == CHOOSE g : g = [s \in SUBSET S |-> Added(g, f, s)]
<1>1. iter = [s \in SUBSET S |-> Added(iter, f, s)]  BY SumsExist
<1>2. SumFunctionOnSet(f, S) = iter[S]
  BY DEF SumFunctionOnSet, FoldFunctionOnSet, MapThenFoldSet, Added, AnElement
<1> HIDE DEF iter
<1> QED  BY <1>1, <1>2

Adds(g, f, S) == \A s \in SUBSET S : g[s] = Added(g, f, s)

LEMMA AddsType ==
    ASSUME NEW S, IsFiniteSet(S), NEW f, \A x \in S : f[x] \in Int, NEW g, Adds(g, f, S)
    PROVE  \A s \in SUBSET S : g[s] \in Int
<1> DEFINE G == {s \in SUBSET S : g[s] \in Int}
<1>1. ASSUME NEW s \in SUBSET S, \A x \in s : s \ {x} \in G PROVE s \in G
  <2>1. CASE s = {}
    <3>1. g[s] = 0  BY <2>1 DEF Adds, Added
    <3> QED  BY <3>1
  <2>2. CASE s # {}
    <3>1. AnElement(s) \in s  BY <2>2, AnElementIn
    <3>2. g[s] = f[AnElement(s)] + g[s \ {AnElement(s)}]  BY <2>2 DEF Adds, Added
    <3>3. f[AnElement(s)] \in Int /\ g[s \ {AnElement(s)}] \in Int  BY <1>1, <3>1
    <3>4. g[s] \in Int  BY <3>2, <3>3
    <3> QED  BY <3>4
  <2> QED  BY <2>1, <2>2
<1> HIDE DEF G
<1>2. \A s \in SUBSET S : s \in G  BY <1>1, SubsetInduction
<1> QED  BY <1>2 DEF G

\* Any element may come first.
LEMMA AddsAny ==
    ASSUME NEW S, IsFiniteSet(S), NEW f, \A x \in S : f[x] \in Int, NEW g, Adds(g, f, S)
    PROVE  \A s \in SUBSET S : \A x \in s : g[s] = f[x] + g[s \ {x}]
<1> DEFINE G == {s \in SUBSET S : \A x \in s : g[s] = f[x] + g[s \ {x}]}
<1>1. ASSUME NEW s \in SUBSET S, \A x \in s : s \ {x} \in G PROVE s \in G
  <2> SUFFICES ASSUME NEW x \in s PROVE g[s] = f[x] + g[s \ {x}]  OBVIOUS
  <2> DEFINE c == AnElement(s)
  <2>1. c \in s  BY AnElementIn
  <2>2. g[s] = f[c] + g[s \ {c}]  BY <2>1 DEF Adds, Added
  <2>3. CASE x # c
    <3>1. g[s \ {c}] = f[x] + g[(s \ {c}) \ {x}]  BY <1>1, <2>1, <2>3
    <3>2. g[s \ {x}] = f[c] + g[(s \ {x}) \ {c}]  BY <1>1, <2>1, <2>3
    <3>3. (s \ {c}) \ {x} = (s \ {x}) \ {c}  OBVIOUS
    <3>4. g[s \ {x}] = f[c] + g[(s \ {c}) \ {x}]  BY <3>2, <3>3
    <3>5. g[(s \ {c}) \ {x}] \in Int  BY AddsType
    <3>6. f[x] \in Int /\ f[c] \in Int  BY <2>1
    <3> HIDE DEF c
    <3> QED  BY <2>2, <3>1, <3>4, <3>5, <3>6
  <2> QED  BY <2>2, <2>3
<1> HIDE DEF G
<1>2. \A s \in SUBSET S : s \in G  BY <1>1, SubsetInduction
<1> QED  BY <1>2 DEF G

\* Two functions that add up the same agree on the sets that both know.
LEMMA AddsUnique ==
    ASSUME NEW S, IsFiniteSet(S), NEW T, S \subseteq T, NEW f, NEW e, \A x \in S : f[x] = e[x],
           NEW g, Adds(g, f, S), NEW h, Adds(h, e, T)
    PROVE  g[S] = h[S]
<1> DEFINE G == {s \in SUBSET S : g[s] = h[s]}
<1>1. ASSUME NEW s \in SUBSET S, \A x \in s : s \ {x} \in G PROVE s \in G
  <2>1. g[s] = Added(g, f, s) /\ h[s] = Added(h, e, s)  BY DEF Adds
  <2> QED  BY <1>1, <2>1, AnElementIn DEF Added
<1> HIDE DEF G
<1>2. \A s \in SUBSET S : s \in G  BY <1>1, SubsetInduction
<1> QED  BY <1>2 DEF G

-----------------------------------------------------------------------------
(* Sums *)

\* A sum, independently of the order in which it is taken.
LEMMA SumEmpty == \A f : SumFunctionOnSet(f, {}) = 0
<1> TAKE f
<1>1. \E g : Adds(g, f, {}) /\ SumFunctionOnSet(f, {}) = g[{}]
  BY SumIsRecursive, FS_EmptySet DEF Adds
<1> QED  BY <1>1 DEF Adds, Added

LEMMA SumType ==
    ASSUME NEW S, IsFiniteSet(S), NEW f, \A x \in S : f[x] \in Int
    PROVE  SumFunctionOnSet(f, S) \in Int
<1>1. PICK g : Adds(g, f, S) /\ SumFunctionOnSet(f, S) = g[S]  BY SumIsRecursive DEF Adds
<1> QED  BY <1>1, AddsType

LEMMA SumRemove ==
    ASSUME NEW S, IsFiniteSet(S), NEW f, \A x \in S : f[x] \in Int, NEW x \in S
    PROVE  SumFunctionOnSet(f, S) = f[x] + SumFunctionOnSet(f, S \ {x})
<1>1. PICK g : Adds(g, f, S) /\ SumFunctionOnSet(f, S) = g[S]  BY SumIsRecursive DEF Adds
<1>2. IsFiniteSet(S \ {x})  BY FS_RemoveElement
<1>3. PICK h : Adds(h, f, S \ {x}) /\ SumFunctionOnSet(f, S \ {x}) = h[S \ {x}]
  BY <1>2, SumIsRecursive DEF Adds
<1>4. h[S \ {x}] = g[S \ {x}]  BY <1>1, <1>2, <1>3, AddsUnique
<1>5. g[S] = f[x] + g[S \ {x}]  BY <1>1, AddsAny
<1> QED  BY <1>1, <1>3, <1>4, <1>5

LEMMA SumUnion ==
    ASSUME NEW S, IsFiniteSet(S), NEW T, IsFiniteSet(T), S \cap T = {},
           NEW f, \A x \in S \cup T : f[x] \in Int
    PROVE  SumFunctionOnSet(f, S \cup T) = SumFunctionOnSet(f, S) + SumFunctionOnSet(f, T)
<1> DEFINE Sum(s) == SumFunctionOnSet(f, s)
           G == {s \in SUBSET S : Sum(s \cup T) = Sum(s) + Sum(T)}
<1>1. ASSUME NEW s \in SUBSET S, \A x \in s : s \ {x} \in G PROVE s \in G
  <2>1. IsFiniteSet(s) /\ IsFiniteSet(s \cup T)  BY FS_Subset, FS_Union
  <2>2. Sum(T) \in Int  BY SumType
  <2>3. CASE s = {}  BY <2>2, <2>3, SumEmpty
  <2>4. CASE s # {}
    <3>1. PICK x \in s : TRUE  BY <2>4
    <3>2. Sum(s) = f[x] + Sum(s \ {x})  BY <2>1, SumRemove
    <3>3. Sum(s \cup T) = f[x] + Sum((s \cup T) \ {x})  BY <2>1, SumRemove
    <3>4. (s \cup T) \ {x} = (s \ {x}) \cup T  BY <3>1
    <3>5. Sum(s \ {x}) \in Int /\ f[x] \in Int  BY <2>1, FS_RemoveElement, SumType
    <3>6. Sum((s \ {x}) \cup T) = Sum(s \ {x}) + Sum(T)  BY <1>1
    <3>7. Sum(s \cup T) = f[x] + (Sum(s \ {x}) + Sum(T))  BY <3>3, <3>4, <3>6
    <3> HIDE DEF Sum
    <3>8. Sum(s \cup T) = Sum(s) + Sum(T)  BY <2>2, <3>2, <3>5, <3>7
    <3> QED  BY <3>8
  <2> QED  BY <2>3, <2>4
<1> HIDE DEF G
<1>2. \A s \in SUBSET S : s \in G  BY <1>1, SubsetInduction
<1> QED  BY <1>2 DEF G

\* Sums over one set of what differs by at most k for each element.
LEMMA SumsNear ==
    ASSUME NEW S, IsFiniteSet(S), NEW k \in Nat, NEW f, NEW e,
           \A x \in S : f[x] \in Int /\ e[x] \in Int /\ f[x] - e[x] \in -k..k
    PROVE  /\ SumFunctionOnSet(f, S) \in Int /\ SumFunctionOnSet(e, S) \in Int
           /\ SumFunctionOnSet(f, S) - SumFunctionOnSet(e, S)
                  \in -(k * Cardinality(S))..(k * Cardinality(S))
<1>1. PICK g : /\ \A s \in SUBSET S : g[s] = Added(g, f, s)
               /\ SumFunctionOnSet(f, S) = g[S]
  BY SumIsRecursive
<1>2. PICK h : /\ \A s \in SUBSET S : h[s] = Added(h, e, s)
               /\ SumFunctionOnSet(e, S) = h[S]
  BY SumIsRecursive
<1> DEFINE Most(s) == k * Cardinality(s)
           Near(s) == g[s] \in Int /\ h[s] \in Int /\ g[s] - h[s] \in -Most(s)..Most(s)
           G == {s \in SUBSET S : Near(s)}
<1>3. ASSUME NEW s \in SUBSET S, \A x \in s : s \ {x} \in G PROVE s \in G
  <2>1. IsFiniteSet(s) /\ Cardinality(s) \in Nat  BY FS_Subset, FS_CardinalityType
  <2>2. CASE s = {}
    <3>1. g[s] = 0 /\ h[s] = 0 /\ Cardinality(s) = 0  BY <1>1, <1>2, <2>2, FS_EmptySet DEF Added
    <3> QED  BY <3>1
  <2>3. CASE s # {}
    <3> DEFINE x == AnElement(s)
               u == s \ {x}
    <3>1. x \in s  BY <2>3, AnElementIn
    <3>2. g[s] = f[x] + g[u] /\ h[s] = e[x] + h[u]  BY <1>1, <1>2, <2>3 DEF Added
    <3>3. IsFiniteSet(u) /\ Cardinality(u) = Cardinality(s) - 1
      BY <2>1, <3>1, FS_RemoveElement
    <3>4. f[x] \in Int /\ e[x] \in Int /\ f[x] - e[x] \in -k..k  BY <3>1
    <3>5. Near(u)  BY <1>3, <3>1
    <3>6. Most(u) \in Int /\ Most(s) = k + Most(u)  BY <2>1, <3>3
    <3> HIDE DEF x, u, Most
    <3>7. g[s] \in Int /\ h[s] \in Int  BY <3>2, <3>4, <3>5
    <3>8. g[s] - h[s] = (f[x] - e[x]) + (g[u] - h[u])  BY <3>2, <3>4, <3>5
    <3>9. g[s] - h[s] \in -Most(s)..Most(s)  BY <3>4, <3>5, <3>6, <3>8
    <3> QED  BY <3>7, <3>9
  <2> QED  BY <2>2, <2>3
<1> HIDE DEF G
<1>4. \A s \in SUBSET S : s \in G  BY <1>3, SubsetInduction
<1>5. S \in G  BY <1>4
<1> QED  BY <1>1, <1>2, <1>5 DEF G
=============================================================================
