------------------------------ MODULE SumProofs ------------------------------
(***************************************************************************)
(* Sums over finite sets (SumFunctionOnSet of module Functions), for the      *)
(* proofs about quotas and stock.  The sum is a function recursive over the    *)
(* subsets of its index set; that there is one such function, and what it      *)
(* computes, is shown by smallest counterexamples.                           *)
(***************************************************************************)
EXTENDS Functions, FiniteSetTheorems, WellFoundedInduction, TLAPS

(* The element a fold takes first. *)
First(s) == CHOOSE x \in s : TRUE

(* g adds up f over every set of the family D.                              *)
AddsUp(g, f, D) ==
  g = [s \in D |-> IF s = {} THEN 0 ELSE f[First(s)] + g[s \ {First(s)}]]

Upto(S, n) == {s \in SUBSET S : Cardinality(s) <= n}

-----------------------------------------------------------------------------
(* A nonempty set of numbers has a smallest one. *)
LEMMA Smallest ==
  ASSUME NEW T, T \subseteq Nat, T # {}
  PROVE  \E n \in T : \A m \in T : n <= m
<1>1. PICK n \in T : \A m \in T : <<m, n>> \notin OpToRel(<, Nat)
  BY NatLessThanWellFounded, WFMin, Zenon
<1>2. \A m \in T : ~(m < n) BY <1>1 DEF OpToRel
<1>3. \A m \in T : n <= m BY <1>2
<1> QED BY <1>3

(* A nonempty family of finite sets has one with fewest elements. *)
LEMMA Fewest ==
  ASSUME NEW F, F # {}, \A s \in F : IsFiniteSet(s)
  PROVE  \E s \in F : \A t \in F : Cardinality(s) <= Cardinality(t)
<1> DEFINE N == {Cardinality(s) : s \in F}
<1>1. N \subseteq Nat BY FS_CardinalityType
<1>2. N # {} OBVIOUS
<1>3. PICK n \in N : \A m \in N : n <= m BY <1>1, <1>2, Smallest
<1> QED BY <1>3

LEMMA FirstIsIn == ASSUME NEW s, s # {} PROVE First(s) \in s
BY DEF First

(* Two functions that add up f agree wherever both are defined. *)
LEMMA AddsUpOnce ==
  ASSUME NEW S, IsFiniteSet(S), NEW f, NEW D, NEW E, NEW g, NEW h,
         D \subseteq SUBSET S, \A s \in D, x \in S : s \ {x} \in D,
         E \subseteq SUBSET S, \A s \in E, x \in S : s \ {x} \in E,
         AddsUp(g, f, D), AddsUp(h, f, E), NEW t \in D, t \in E
  PROVE  g[t] = h[t]
<1> DEFINE F == {s \in D \cap E : g[s] # h[s]}
<1>1. SUFFICES ASSUME F # {} PROVE FALSE OBVIOUS
<1>2. \A s \in F : IsFiniteSet(s) BY FS_Subset
<1>3. PICK s \in F : \A u \in F : Cardinality(s) <= Cardinality(u)
  BY <1>1, <1>2, Fewest, Zenon
<1>4. g[s] = IF s = {} THEN 0 ELSE f[First(s)] + g[s \ {First(s)}] BY DEF AddsUp
<1>5. h[s] = IF s = {} THEN 0 ELSE f[First(s)] + h[s \ {First(s)}] BY DEF AddsUp
<1>6. s # {} BY <1>4, <1>5
<1>7. First(s) \in s /\ First(s) \in S BY <1>6, FirstIsIn
<1> DEFINE u == s \ {First(s)}
<1>8. u \in D \cap E BY <1>7
<1>9. Cardinality(u) = Cardinality(s) - 1 /\ Cardinality(s) \in Nat
  <2>1. IsFiniteSet(s) BY <1>2
  <2> QED BY <1>7, <2>1, FS_RemoveElement, FS_CardinalityType
<1>10. g[u] = h[u] BY <1>3, <1>8, <1>9
<1> QED BY <1>4, <1>5, <1>6, <1>10

(* The recursion is well founded: there is a function that adds up f.       *)
LEMMA AddsUpSomehow ==
  ASSUME NEW S, IsFiniteSet(S), NEW f
  PROVE  \E g : AddsUp(g, f, SUBSET S)
<1> DEFINE T == {n \in Nat : ~ \E g : AddsUp(g, f, Upto(S, n))}
<1>1. ASSUME T # {} PROVE FALSE
  <2>1. PICK n \in T : \A m \in T : n <= m BY <1>1, Smallest
  <2>2. CASE n = 0
    <3> DEFINE g == [s \in Upto(S, 0) |-> 0]
    <3>1. \A s \in Upto(S, 0) : s = {}
      <4> SUFFICES ASSUME NEW s \in Upto(S, 0) PROVE s = {} OBVIOUS
      <4>1. s \in SUBSET S /\ Cardinality(s) <= 0 BY DEF Upto
      <4>2. IsFiniteSet(s) BY <4>1, FS_Subset
      <4>3. Cardinality(s) = 0 BY <4>1, <4>2, FS_CardinalityType
      <4> QED BY <4>2, <4>3, FS_EmptySet
    <3>2. AddsUp(g, f, Upto(S, 0)) BY <3>1 DEF AddsUp
    <3> QED BY <2>2, <3>2
  <2>3. CASE n # 0
    <3>1. n \in Nat /\ n - 1 \in Nat BY <2>3
    <3>2. PICK h : AddsUp(h, f, Upto(S, n - 1)) BY <2>1, <3>1
    <3> DEFINE g == [s \in Upto(S, n) |-> IF s = {} THEN 0 ELSE f[First(s)] + h[s \ {First(s)}]]
    <3>3. ASSUME NEW s \in Upto(S, n), s # {} PROVE s \ {First(s)} \in Upto(S, n - 1)
      <4>1. s \in SUBSET S /\ Cardinality(s) <= n BY DEF Upto
      <4>2. IsFiniteSet(s) BY <4>1, FS_Subset
      <4>3. First(s) \in s BY <3>3, FirstIsIn
      <4>4. Cardinality(s \ {First(s)}) = Cardinality(s) - 1 /\ Cardinality(s) \in Nat
        BY <4>2, <4>3, FS_RemoveElement, FS_CardinalityType
      <4> QED BY <3>1, <4>1, <4>4 DEF Upto
    <3>4. \A s \in Upto(S, n - 1) : s \in Upto(S, n) /\ g[s] = h[s]
      <4> SUFFICES ASSUME NEW s \in Upto(S, n - 1) PROVE s \in Upto(S, n) /\ g[s] = h[s] OBVIOUS
      <4>1. s \in SUBSET S /\ Cardinality(s) <= n - 1 BY DEF Upto
      <4>2. IsFiniteSet(s) /\ Cardinality(s) \in Nat BY <4>1, FS_Subset, FS_CardinalityType
      <4>3. s \in Upto(S, n) BY <3>1, <4>1, <4>2 DEF Upto
      <4>4. h[s] = IF s = {} THEN 0 ELSE f[First(s)] + h[s \ {First(s)}] BY <3>2 DEF AddsUp
      <4> QED BY <4>3, <4>4
    <3>5. AddsUp(g, f, Upto(S, n))
      <4> SUFFICES g = [s \in Upto(S, n) |-> IF s = {} THEN 0 ELSE f[First(s)] + g[s \ {First(s)}]]
        BY Zenon DEF AddsUp
      <4>1. \A s \in Upto(S, n) : s # {} => g[s \ {First(s)}] = h[s \ {First(s)}] BY <3>3, <3>4
      <4> QED BY <4>1
    <3> QED BY <3>5
  <2> QED BY <2>2, <2>3
<1>2. Cardinality(S) \in Nat BY FS_CardinalityType
<1>3. PICK g : AddsUp(g, f, Upto(S, Cardinality(S))) BY <1>1, <1>2
<1>4. Upto(S, Cardinality(S)) = SUBSET S BY FS_Subset DEF Upto
<1> QED BY <1>3, <1>4

(* The sum over a subset is what any function that adds up f says of it.     *)
LEMMA SumIsAddsUp ==
  ASSUME NEW S, IsFiniteSet(S), NEW f, NEW g, AddsUp(g, f, SUBSET S), NEW T \in SUBSET S
  PROVE  SumFunctionOnSet(f, T) = g[T]
<1> DEFINE h == CHOOSE k : AddsUp(k, f, SUBSET T)
<1>1. SumFunctionOnSet(f, T) = h[T]
  BY DEF SumFunctionOnSet, FoldFunctionOnSet, MapThenFoldSet, AddsUp, First
<1>2. IsFiniteSet(T) BY FS_Subset
<1>3. AddsUp(h, f, SUBSET T) BY <1>2, AddsUpSomehow
<1>4. h[T] = g[T]
  <2> HIDE DEF h
  <2>1. /\ SUBSET T \subseteq SUBSET S /\ \A s \in SUBSET T, x \in S : s \ {x} \in SUBSET T
        /\ \A s \in SUBSET S, x \in S : s \ {x} \in SUBSET S /\ T \in SUBSET T
    OBVIOUS
  <2>2. T \in SUBSET S OBVIOUS
  <2> QED BY <1>3, <2>1, <2>2, AddsUpOnce
<1> QED BY <1>1, <1>4

-----------------------------------------------------------------------------
(* Nothing adds up to nothing, and a sum is its first term and the rest.     *)
LEMMA SumStep ==
  ASSUME NEW S, IsFiniteSet(S), NEW f
  PROVE  SumFunctionOnSet(f, S) =
           IF S = {} THEN 0 ELSE f[First(S)] + SumFunctionOnSet(f, S \ {First(S)})
<1>1. PICK g : AddsUp(g, f, SUBSET S) BY AddsUpSomehow
<1>2. g[S] = IF S = {} THEN 0 ELSE f[First(S)] + g[S \ {First(S)}] BY <1>1 DEF AddsUp
<1>3. \A T \in SUBSET S : SumFunctionOnSet(f, T) = g[T] BY <1>1, SumIsAddsUp
<1> QED BY <1>2, <1>3

LEMMA SumEmpty == \A f : SumFunctionOnSet(f, {}) = 0
BY SumStep, FS_EmptySet

LEMMA SumType ==
  ASSUME NEW S, IsFiniteSet(S), NEW f, \A x \in S : f[x] \in Int
  PROVE  SumFunctionOnSet(f, S) \in Int
<1> DEFINE F == {s \in SUBSET S : SumFunctionOnSet(f, s) \notin Int}
<1>1. SUFFICES ASSUME F # {} PROVE FALSE OBVIOUS
<1>2. \A s \in F : IsFiniteSet(s) BY FS_Subset
<1>3. PICK s \in F : \A u \in F : Cardinality(s) <= Cardinality(u)
  BY <1>1, <1>2, Fewest, Zenon
<1>4. SumFunctionOnSet(f, s) = IF s = {} THEN 0 ELSE f[First(s)] + SumFunctionOnSet(f, s \ {First(s)})
  BY <1>2, SumStep
<1>5. s # {} BY <1>4
<1>6. First(s) \in s BY <1>5, FirstIsIn
<1>7. Cardinality(s \ {First(s)}) = Cardinality(s) - 1 /\ Cardinality(s) \in Nat
  BY <1>2, <1>6, FS_RemoveElement, FS_CardinalityType
<1>8. s \ {First(s)} \notin F BY <1>3, <1>7
<1> QED BY <1>4, <1>5, <1>6, <1>8

(* Any term may be taken first. *)
LEMMA SumRemove ==
  ASSUME NEW S, IsFiniteSet(S), NEW f, \A x \in S : f[x] \in Int, NEW x \in S
  PROVE  SumFunctionOnSet(f, S) = f[x] + SumFunctionOnSet(f, S \ {x})
<1> DEFINE A(s) == SumFunctionOnSet(f, s)
           F == {s \in SUBSET S : \E y \in s : A(s) # f[y] + A(s \ {y})}
<1>1. SUFFICES ASSUME F # {} PROVE FALSE OBVIOUS
<1>2. \A s \in SUBSET S : IsFiniteSet(s) BY FS_Subset
<1>3. PICK s \in F : \A u \in F : Cardinality(s) <= Cardinality(u)
  BY <1>1, <1>2, Fewest, Zenon
<1>4. PICK y \in s : A(s) # f[y] + A(s \ {y}) OBVIOUS
<1> DEFINE z == First(s)
<1>5. z \in s BY <1>4, FirstIsIn
<1>6. A(s) = f[z] + A(s \ {z}) BY <1>2, <1>4, SumStep
<1>7. y # z BY <1>4, <1>6
<1>8. ASSUME NEW v \in s, NEW w \in s, v # w PROVE A(s \ {v}) = f[w] + A((s \ {v}) \ {w})
  <2>1. Cardinality(s \ {v}) = Cardinality(s) - 1 /\ Cardinality(s) \in Nat
    BY <1>2, FS_RemoveElement, FS_CardinalityType
  <2>2. s \ {v} \notin F BY <1>3, <2>1
  <2>3. s \ {v} \in SUBSET S /\ w \in s \ {v} BY <1>8
  <2> QED BY <2>2, <2>3
<1>9. A(s \ {z}) = f[y] + A((s \ {z}) \ {y}) BY <1>5, <1>7, <1>8
<1>10. A(s \ {y}) = f[z] + A((s \ {y}) \ {z}) BY <1>5, <1>7, <1>8
<1> DEFINE r == (s \ {y}) \ {z}
<1>11. A(s \ {z}) = f[y] + A(r) /\ A(s \ {y}) = f[z] + A(r)
  <2>1. (s \ {z}) \ {y} = r OBVIOUS
  <2> QED BY <1>9, <1>10, <2>1
<1>12. f[y] \in Int /\ f[z] \in Int BY <1>5
<1>13. A(r) \in Int
  <2>1. r \in SUBSET S OBVIOUS
  <2> QED BY <1>2, <2>1, SumType
<1> HIDE DEF A, z, r
<1> QED BY <1>4, <1>6, <1>11, <1>12, <1>13

LEMMA SumAdd ==
  ASSUME NEW S, IsFiniteSet(S), NEW f, NEW x, x \notin S, \A y \in S \cup {x} : f[y] \in Int
  PROVE  SumFunctionOnSet(f, S \cup {x}) = SumFunctionOnSet(f, S) + f[x]
<1>1. IsFiniteSet(S \cup {x}) BY FS_AddElement
<1>2. (S \cup {x}) \ {x} = S OBVIOUS
<1>3. SumFunctionOnSet(f, S \cup {x}) = f[x] + SumFunctionOnSet(f, S) BY <1>1, <1>2, SumRemove
<1>4. SumFunctionOnSet(f, S) \in Int BY SumType
<1> QED BY <1>3, <1>4

(* A sum looks at the terms of its set only. *)
LEMMA SumSame ==
  ASSUME NEW S, IsFiniteSet(S), NEW f, NEW g, \A x \in S : f[x] = g[x]
  PROVE  SumFunctionOnSet(f, S) = SumFunctionOnSet(g, S)
<1> DEFINE F == {s \in SUBSET S : SumFunctionOnSet(f, s) # SumFunctionOnSet(g, s)}
<1>1. SUFFICES ASSUME F # {} PROVE FALSE OBVIOUS
<1>2. \A s \in F : IsFiniteSet(s) BY FS_Subset
<1>3. PICK s \in F : \A u \in F : Cardinality(s) <= Cardinality(u)
  BY <1>1, <1>2, Fewest, Zenon
<1>4. \A h : SumFunctionOnSet(h, s) =
               IF s = {} THEN 0 ELSE h[First(s)] + SumFunctionOnSet(h, s \ {First(s)})
  BY <1>2, SumStep
<1>5. s # {} BY <1>4
<1>6. First(s) \in s BY <1>5, FirstIsIn
<1>7. Cardinality(s \ {First(s)}) = Cardinality(s) - 1 /\ Cardinality(s) \in Nat
  BY <1>2, <1>6, FS_RemoveElement, FS_CardinalityType
<1>8. s \ {First(s)} \notin F BY <1>3, <1>7
<1>9. SumFunctionOnSet(f, s \ {First(s)}) = SumFunctionOnSet(g, s \ {First(s)}) BY <1>6, <1>8
<1> QED BY <1>4, <1>5, <1>6, <1>9

(* Disjoint sets of amounts add up one after the other.                     *)
LEMMA SumDisjoint ==
  ASSUME NEW S, IsFiniteSet(S), NEW T, IsFiniteSet(T), S \cap T = {},
         NEW f, \A x \in S \cup T : f[x] \in Int
  PROVE  SumFunctionOnSet(f, S \cup T) = SumFunctionOnSet(f, S) + SumFunctionOnSet(f, T)
<1> DEFINE A(s) == SumFunctionOnSet(f, s)
           F == {s \in SUBSET T : A(S \cup s) # A(S) + A(s)}
<1>1. SUFFICES ASSUME F # {} PROVE FALSE OBVIOUS
<1>2. \A s \in SUBSET T : IsFiniteSet(s) /\ IsFiniteSet(S \cup s) BY FS_Subset, FS_Union
<1>3. PICK s \in F : \A u \in F : Cardinality(s) <= Cardinality(u)
  BY <1>1, <1>2, Fewest, Zenon
<1>4. \A u \in SUBSET T : A(u) \in Int /\ A(S \cup u) \in Int
  <2> SUFFICES ASSUME NEW u \in SUBSET T PROVE A(u) \in Int /\ A(S \cup u) \in Int OBVIOUS
  <2>1. IsFiniteSet(u) /\ IsFiniteSet(S \cup u) BY <1>2
  <2> QED BY <2>1, SumType
<1>5. A(S) \in Int BY SumType
<1>6. s # {}
  <2>1. A({}) = 0 BY SumEmpty
  <2>2. S \cup {} = S OBVIOUS
  <2> HIDE DEF A
  <2>3. A(S \cup {}) = A(S) + A({}) BY <1>5, <2>1, <2>2
  <2> QED BY <2>3
<1>7. PICK x \in s : TRUE BY <1>6
<1> DEFINE u == s \ {x}
<1>8. Cardinality(u) = Cardinality(s) - 1 /\ Cardinality(s) \in Nat
  BY <1>2, FS_RemoveElement, FS_CardinalityType
<1>9. A(S \cup u) = A(S) + A(u) BY <1>3, <1>8
<1>10. A(s) = f[x] + A(u) BY <1>2, SumRemove
<1>11. (S \cup s) \ {x} = S \cup u OBVIOUS
<1>12. A(S \cup s) = f[x] + A(S \cup u)
  <2>1. x \in S \cup s /\ IsFiniteSet(S \cup s) /\ \A y \in S \cup s : f[y] \in Int BY <1>2
  <2>2. A(S \cup s) = f[x] + A((S \cup s) \ {x}) BY <2>1, SumRemove
  <2> QED BY <1>11, <2>2
<1>13. f[x] \in Int /\ u \in SUBSET T /\ A(S \cup s) # A(S) + A(s) BY <1>3
<1>14. A(u) \in Int /\ A(S \cup u) \in Int BY <1>4, <1>13
<1> HIDE DEF A, u
<1> QED BY <1>5, <1>9, <1>10, <1>12, <1>13, <1>14

LEMMA SumNat ==
  ASSUME NEW S, IsFiniteSet(S), NEW f, \A x \in S : f[x] \in Nat
  PROVE  SumFunctionOnSet(f, S) \in Nat
<1> DEFINE F == {s \in SUBSET S : SumFunctionOnSet(f, s) \notin Nat}
<1>1. SUFFICES ASSUME F # {} PROVE FALSE OBVIOUS
<1>2. \A s \in F : IsFiniteSet(s) BY FS_Subset
<1>3. PICK s \in F : \A u \in F : Cardinality(s) <= Cardinality(u)
  BY <1>1, <1>2, Fewest, Zenon
<1>4. SumFunctionOnSet(f, s) = IF s = {} THEN 0 ELSE f[First(s)] + SumFunctionOnSet(f, s \ {First(s)})
  BY <1>2, SumStep
<1>5. s # {} BY <1>4
<1>6. First(s) \in s BY <1>5, FirstIsIn
<1>7. Cardinality(s \ {First(s)}) = Cardinality(s) - 1 /\ Cardinality(s) \in Nat
  BY <1>2, <1>6, FS_RemoveElement, FS_CardinalityType
<1>8. s \ {First(s)} \notin F BY <1>3, <1>7
<1> QED BY <1>4, <1>5, <1>6, <1>8

(* A part of a set of amounts adds up to no more than the whole.            *)
LEMMA SumPart ==
  ASSUME NEW S, IsFiniteSet(S), NEW f, \A x \in S : f[x] \in Nat, NEW T \in SUBSET S
  PROVE  SumFunctionOnSet(f, T) <= SumFunctionOnSet(f, S)
<1>1. IsFiniteSet(T) /\ IsFiniteSet(S \ T) BY FS_Subset
<1>2. T \cup (S \ T) = S /\ T \cap (S \ T) = {} OBVIOUS
<1>3. SumFunctionOnSet(f, S) = SumFunctionOnSet(f, T) + SumFunctionOnSet(f, S \ T)
  <2>1. \A x \in T \cup (S \ T) : f[x] \in Int BY <1>2
  <2>2. SumFunctionOnSet(f, T \cup (S \ T)) = SumFunctionOnSet(f, T) + SumFunctionOnSet(f, S \ T)
    BY <1>1, <1>2, <2>1, SumDisjoint
  <2> QED BY <1>2, <2>2
<1>4. SumFunctionOnSet(f, T) \in Nat /\ SumFunctionOnSet(f, S \ T) \in Nat BY <1>1, SumNat
<1> QED BY <1>3, <1>4
=============================================================================
