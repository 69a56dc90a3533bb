--------------------------------- MODULE Sums ---------------------------------
(***************************************************************************)
(* Induction over the naturals, and what MapThenSumSet of the community    *)
(* modules computes: the sum over a finite set, in whatever order the      *)
(* elements are chosen.                                                    *)
(***************************************************************************)
EXTENDS Integers, FiniteSets, FiniteSetsExt, FiniteSetTheorems, WellFoundedInduction, TLAPS

-----------------------------------------------------------------------------
(***************************************************************************)
(* Induction, for a set in the place of a predicate                        *)
(***************************************************************************)
LEMMA SmallestOf ==
    ASSUME NEW T, T \subseteq Nat, T # {}
    PROVE  \E n \in T : \A m \in T : n <= m
  <1>1. \E R : IsWellFoundedOn(R, Nat) /\ \A m, k \in Nat : m < k => <<m, k>> \in R
    <2>1. \A m, k \in Nat : m < k => <<m, k>> \in OpToRel(<, Nat)
      BY DEF OpToRel
    <2> QED BY <2>1, NatLessThanWellFounded, Zenon
  <1>2. PICK R : IsWellFoundedOn(R, Nat) /\ \A m, k \in Nat : m < k => <<m, k>> \in R
    BY <1>1, Zenon
  <1>3. PICK n \in T : \A m \in T : ~ (<<m, n>> \in R)
    <2>1. \A S, U : IsWellFoundedOn(R, S) /\ U \subseteq S /\ U # {}
                     => \E x \in U : \A y \in U : ~ (<<y, x>> \in R)
      BY WFMin, Zenon
    <2> QED BY <1>2, <2>1
  <1>4. ASSUME NEW m \in T PROVE ~(m < n)
    <2>1. m \in Nat /\ n \in Nat
      OBVIOUS
    <2> QED BY <1>2, <1>3, <2>1, Zenon
  <1> QED BY <1>4

LEMMA Induction ==
    ASSUME NEW T, 0 \in T, \A n \in Nat : n \in T => n + 1 \in T
    PROVE  Nat \subseteq T
  <1> SUFFICES ASSUME NEW k \in Nat, k \notin T PROVE FALSE
    OBVIOUS
  <1>1. PICK n \in Nat \ T : \A m \in Nat \ T : n <= m
    BY SmallestOf
  <1>2. n - 1 \in Nat \ T
    BY <1>1
  <1> QED BY <1>1, <1>2

-----------------------------------------------------------------------------
(***************************************************************************)
(* The fold as a function of the subsets of S                              *)
(***************************************************************************)
Choice(s) == CHOOSE x \in s : TRUE

(* g[s] is f[Choice(s)] and the sum over the rest. *)
Adds(g, f, D) ==
    g = [s \in D |-> IF s = {} THEN 0 ELSE f[Choice(s)] + g[s \ {Choice(s)}]]

Total(f, S) == MapThenSumSet(LAMBDA a : f[a], S)

(* A chosen element taken away leaves one element fewer. *)
LEMMA Chosen ==
    ASSUME NEW s, IsFiniteSet(s), s # {}
    PROVE  /\ Choice(s) \in s
           /\ IsFiniteSet(s \ {Choice(s)})
           /\ Cardinality(s) \in Nat \ {0}
           /\ Cardinality(s \ {Choice(s)}) = Cardinality(s) - 1
  <1>1. Choice(s) \in s
    BY DEF Choice
  <1>2. Cardinality(s) \in Nat /\ Cardinality(s) # 0
    BY FS_CardinalityType, FS_EmptySet
  <1> QED BY <1>1, <1>2, FS_RemoveElement

(* The recursion defines a function: one for the subsets of up to n elements
   gives one for those of up to n + 1. *)
LEMMA AddsExists ==
    ASSUME NEW f, NEW S, IsFiniteSet(S)
    PROVE  \E g : Adds(g, f, SUBSET S)
  <1> DEFINE Small(n) == {s \in SUBSET S : Cardinality(s) <= n}
             T == {n \in Nat : \E g : Adds(g, f, Small(n))}
  <1>1. \A s \in SUBSET S : IsFiniteSet(s) /\ Cardinality(s) \in Nat
    BY FS_Subset, FS_CardinalityType
  <1>2. 0 \in T
    <2>1. \A s \in Small(0) : s = {}
      BY <1>1, FS_EmptySet
    <2>2. [s \in Small(0) |-> 0] =
              [s \in Small(0) |-> IF s = {} THEN 0
                  ELSE f[Choice(s)] + [t \in Small(0) |-> 0][s \ {Choice(s)}]]
      BY <2>1
    <2>3. Adds([s \in Small(0) |-> 0], f, Small(0))
      BY <2>2 DEF Adds
    <2> QED BY <2>3
  <1>3. ASSUME NEW n \in Nat, n \in T PROVE n + 1 \in T
    <2>1. PICK g : Adds(g, f, Small(n))
      BY <1>3
    <2> DEFINE h == [s \in Small(n + 1) |-> IF s = {} THEN 0
                                           ELSE f[Choice(s)] + g[s \ {Choice(s)}]]
    <2>2. \A s \in Small(n) : s \in Small(n + 1) /\ h[s] = g[s]
      <3>1. ASSUME NEW s \in Small(n) PROVE s \in Small(n + 1)
        BY <1>1
      <3> QED BY <2>1, <3>1 DEF Adds
    <2>3. \A s \in Small(n + 1) : s # {} => s \ {Choice(s)} \in Small(n)
      BY <1>1, Chosen
    <2> HIDE DEF Small
    <2>4. h = [s \in Small(n + 1) |-> IF s = {} THEN 0
                                     ELSE f[Choice(s)] + h[s \ {Choice(s)}]]
      BY <2>2, <2>3
    <2> HIDE DEF h
    <2> QED BY <2>4 DEF Adds
  <1>4. Cardinality(S) \in T
    <2>1. Nat \subseteq T
      <3> HIDE DEF T
      <3> QED BY <1>2, <1>3, Induction
    <2> QED BY <2>1, FS_CardinalityType
  <1>5. Small(Cardinality(S)) = SUBSET S
    BY FS_Subset
  <1> HIDE DEF Small
  <1> QED BY <1>4, <1>5

(* Any element of s may be the first that is added. *)
AnyFirst(g, f, s) == g[s] \in Nat /\ \A a \in s : g[s] = f[a] + g[s \ {a}]

(* The order of the choices does not matter. *)
LEMMA AddsAny ==
    ASSUME NEW f, NEW S, IsFiniteSet(S), \A a \in S : f[a] \in Nat,
           NEW g, Adds(g, f, SUBSET S)
    PROVE  \A s \in SUBSET S : AnyFirst(g, f, s)
  <1> DEFINE T == {n \in Nat : \A s \in SUBSET S : Cardinality(s) <= n => AnyFirst(g, f, s)}
  <1>1. \A s \in SUBSET S : IsFiniteSet(s) /\ Cardinality(s) \in Nat
    BY FS_Subset, FS_CardinalityType
  <1>2. \A s \in SUBSET S : g[s] = IF s = {} THEN 0 ELSE f[Choice(s)] + g[s \ {Choice(s)}]
    BY DEF Adds
  <1>3. AnyFirst(g, f, {})
    <2>1. g[{}] = 0
      BY <1>2
    <2> QED BY <2>1 DEF AnyFirst
  <1>4. 0 \in T
    <2>1. \A s \in SUBSET S : Cardinality(s) <= 0 => s = {}
      BY <1>1, FS_EmptySet
    <2> QED BY <1>3, <2>1
  <1>5. ASSUME NEW n \in Nat, n \in T PROVE n + 1 \in T
    <2> SUFFICES ASSUME NEW s \in SUBSET S, Cardinality(s) <= n + 1, s # {}
                 PROVE  AnyFirst(g, f, s)
      BY <1>3
    <2>1. PICK x \in s : x = Choice(s)
      BY <1>1, Chosen
    <2>2. \A t \in SUBSET S : Cardinality(t) <= n => AnyFirst(g, f, t)
      BY <1>5
    <2>3. ASSUME NEW a \in s PROVE AnyFirst(g, f, s \ {a})
      <3>1. Cardinality(s \ {a}) = Cardinality(s) - 1
        BY <1>1, FS_RemoveElement
      <3>2. Cardinality(s \ {a}) <= n /\ s \ {a} \in SUBSET S
        BY <1>1, <3>1
      <3> QED BY <2>2, <3>2
    <2>4. g[s] = f[x] + g[s \ {x}]
      BY <1>2, <2>1
    <2>5. \A a \in s : f[a] \in Nat /\ g[s \ {a}] \in Nat
      BY <2>3 DEF AnyFirst
    <2>6. ASSUME NEW a \in s, a # x PROVE g[s] = f[a] + g[s \ {a}]
      <3>1. g[s \ {x}] = f[a] + g[(s \ {x}) \ {a}] /\ a \in s \ {x}
        BY <2>3, <2>6 DEF AnyFirst
      <3>2. g[s \ {a}] = f[x] + g[(s \ {a}) \ {x}]
        BY <2>3, <2>6 DEF AnyFirst
      <3>3. (s \ {a}) \ {x} = (s \ {x}) \ {a}
        OBVIOUS
      <3>4. g[(s \ {x}) \ {a}] \in Nat
        <4>1. /\ IsFiniteSet(s \ {x}) /\ Cardinality(s \ {x}) = Cardinality(s) - 1
              /\ Cardinality((s \ {x}) \ {a}) = Cardinality(s \ {x}) - 1
          BY <1>1, <3>1, FS_RemoveElement
        <4>2. (s \ {x}) \ {a} \in SUBSET S /\ Cardinality((s \ {x}) \ {a}) <= n
          BY <1>1, <4>1
        <4> QED BY <2>2, <4>2 DEF AnyFirst
      <3>5. PICK G \in Nat : G = g[(s \ {x}) \ {a}]
        BY <3>4
      <3>6. g[s \ {x}] = f[a] + G /\ g[s \ {a}] = f[x] + G
        BY <3>1, <3>2, <3>3, <3>5
      <3> QED BY <2>4, <2>5, <3>6
    <2>7. \A a \in s : g[s] = f[a] + g[s \ {a}]
      BY <2>4, <2>6
    <2> QED BY <2>4, <2>5, <2>7 DEF AnyFirst
  <1>6. Nat \subseteq T
    <2> HIDE DEF T
    <2> QED BY <1>4, <1>5, Induction
  <1> QED BY <1>1, <1>6

(* Sums of functions that agree are equal. *)
LEMMA AddsSame ==
    ASSUME NEW S, IsFiniteSet(S), NEW f, NEW h, \A a \in S : f[a] = h[a],
           NEW g, Adds(g, f, SUBSET S), NEW k, Adds(k, h, SUBSET S)
    PROVE  \A s \in SUBSET S : g[s] = k[s]
  <1> DEFINE T == {n \in Nat : \A s \in SUBSET S : Cardinality(s) <= n => g[s] = k[s]}
  <1>1. \A s \in SUBSET S : IsFiniteSet(s) /\ Cardinality(s) \in Nat
    BY FS_Subset, FS_CardinalityType
  <1>2. \A s \in SUBSET S :
           /\ g[s] = IF s = {} THEN 0 ELSE f[Choice(s)] + g[s \ {Choice(s)}]
           /\ k[s] = IF s = {} THEN 0 ELSE h[Choice(s)] + k[s \ {Choice(s)}]
    BY DEF Adds
  <1>3. 0 \in T
    <2>1. \A s \in SUBSET S : Cardinality(s) <= 0 => s = {}
      BY <1>1, FS_EmptySet
    <2> QED BY <1>2, <2>1
  <1>4. ASSUME NEW n \in Nat, n \in T PROVE n + 1 \in T
    <2> SUFFICES ASSUME NEW s \in SUBSET S, Cardinality(s) <= n + 1, s # {}
                 PROVE  g[s] = k[s]
      BY <1>2
    <2>1. PICK x \in s : x = Choice(s) /\ Cardinality(s \ {x}) <= n
      BY <1>1, Chosen
    <2>2. g[s \ {x}] = k[s \ {x}]
      BY <1>4, <2>1
    <2> QED BY <1>2, <2>1, <2>2
  <1>5. Nat \subseteq T
    <2> HIDE DEF T
    <2> QED BY <1>3, <1>4, Induction
  <1> QED BY <1>1, <1>5

-----------------------------------------------------------------------------
(***************************************************************************)
(* What the sum is                                                         *)
(***************************************************************************)
LEMMA TotalAdds ==
    ASSUME NEW f, NEW S, IsFiniteSet(S)
    PROVE  \E g : Adds(g, f, SUBSET S) /\ Total(f, S) = g[S]
  <1>1. \E g : Adds(g, f, SUBSET S)
    BY AddsExists
  <1> QED BY <1>1 DEF Total, MapThenSumSet, MapThenFoldSet, Adds, Choice

(* The sum over nothing. *)
LEMMA TotalEmpty == \A f : Total(f, {}) = 0
  <1> SUFFICES ASSUME NEW f PROVE Total(f, {}) = 0
    OBVIOUS
  <1>1. PICK g : Adds(g, f, SUBSET {}) /\ Total(f, {}) = g[{}]
    BY TotalAdds, FS_EmptySet
  <1> QED BY <1>1 DEF Adds

LEMMA TotalType ==
    ASSUME NEW f, NEW S, IsFiniteSet(S), \A a \in S : f[a] \in Nat
    PROVE  Total(f, S) \in Nat
  <1>1. PICK g : Adds(g, f, SUBSET S) /\ Total(f, S) = g[S]
    BY TotalAdds
  <1>2. AnyFirst(g, f, S)
    BY <1>1, AddsAny
  <1> QED BY <1>1, <1>2 DEF AnyFirst

(* The sum depends on the values of f in S only. *)
LEMMA TotalSame ==
    ASSUME NEW S, IsFiniteSet(S), NEW f, NEW h, \A a \in S : f[a] = h[a]
    PROVE  Total(f, S) = Total(h, S)
  <1>1. PICK g : Adds(g, f, SUBSET S) /\ Total(f, S) = g[S]
    BY TotalAdds
  <1>2. PICK k : Adds(k, h, SUBSET S) /\ Total(h, S) = k[S]
    BY TotalAdds
  <1> QED BY <1>1, <1>2, AddsSame

(* One element more. *)
LEMMA TotalAdd ==
    ASSUME NEW S, IsFiniteSet(S), NEW a, a \notin S,
           NEW f, \A b \in S \cup {a} : f[b] \in Nat
    PROVE  Total(f, S \cup {a}) = Total(f, S) + f[a]
  <1>1. IsFiniteSet(S \cup {a})
    BY FS_AddElement
  <1>2. PICK g : Adds(g, f, SUBSET (S \cup {a})) /\ Total(f, S \cup {a}) = g[S \cup {a}]
    BY <1>1, TotalAdds
  <1>3. PICK k : Adds(k, f, SUBSET S) /\ Total(f, S) = k[S]
    BY TotalAdds
  <1>4. g[S] = k[S]
    <2>1. PICK r : r = [s \in SUBSET S |-> g[s]]
      OBVIOUS
    <2>2. Adds(r, f, SUBSET S)
      BY <1>2, <2>1 DEF Adds
    <2>3. r[S] = k[S]
      BY <1>3, <2>2, AddsSame
    <2> QED BY <2>1, <2>3
  <1>5. (S \cup {a}) \ {a} = S
    OBVIOUS
  <1>6. AnyFirst(g, f, S \cup {a}) /\ AnyFirst(k, f, S)
    BY <1>1, <1>2, <1>3, AddsAny
  <1>7. g[S \cup {a}] = f[a] + g[S] /\ k[S] \in Nat /\ f[a] \in Nat
    BY <1>5, <1>6 DEF AnyFirst
  <1> QED BY <1>2, <1>3, <1>4, <1>7
=============================================================================
