---------------------------- MODULE SumTheorems ----------------------------
(***************************************************************************)
(* Sums of the values of a function over a finite set (SumFunctionOnSet of *)
(* the module Functions), for any set: taken apart at any element, equal   *)
(* for functions that agree, and changed by what one value changes.  The   *)
(* induction is over a set of counterexamples, of which the well-founded   *)
(* order of the natural numbers has a smallest.                            *)
(***************************************************************************)
EXTENDS Integers, FiniteSets, Functions, FiniteSetTheorems, WellFoundedInduction, TLAPS

LEMMA SmallestNat ==
    ASSUME NEW B \in SUBSET Nat, B # {}
    PROVE  \E n \in B : \A m \in B : n <= m
<1>1. IsWellFoundedOn(OpToRel(<, Nat), Nat)
  BY NatLessThanWellFounded
<1>2. PICK R : R = OpToRel(<, Nat)
  OBVIOUS
<1>3. \A m, n \in Nat : m < n => <<m, n>> \in R
  BY <1>2 DEF OpToRel
<1>4. IsWellFoundedOn(R, Nat)
  BY <1>1, <1>2
<1>5. PICK n \in B : \A m \in B : ~(<<m, n>> \in R)
  BY <1>4, WFMin
<1>6. \A m \in B : ~(m < n) /\ m \in Nat
  BY <1>3, <1>5
<1>7. \A m \in B : n <= m
  BY <1>6
<1> QED
  BY <1>7

\* Of some subsets of a finite set one has no smaller one among them.
LEMMA SmallestSet ==
    ASSUME NEW S, IsFiniteSet(S), NEW B \in SUBSET (SUBSET S), B # {}
    PROVE  \E T \in B : \A x \in T : T \ {x} \notin B
<1>1. \A T \in B : IsFiniteSet(T) /\ Cardinality(T) \in Nat
  BY FS_Subset, FS_CardinalityType
<1>2. PICK sizes : sizes = {Cardinality(T) : T \in B}
  OBVIOUS
<1>3. sizes \in SUBSET Nat /\ sizes # {}
  BY <1>1, <1>2
<1>4. PICK n \in sizes : \A m \in sizes : n <= m
  BY <1>3, SmallestNat
<1>5. PICK T \in B : Cardinality(T) = n
  BY <1>2, <1>4
<1>6. ASSUME NEW x \in T, T \ {x} \in B
      PROVE  FALSE
  <2>1. Cardinality(T \ {x}) = Cardinality(T) - 1
    BY <1>1, <1>6, FS_RemoveElement
  <2>2. n <= Cardinality(T \ {x})
    BY <1>2, <1>4, <1>6
  <2> QED
    BY <1>1, <1>5, <2>1, <2>2
<1> QED
  BY <1>5, <1>6

\* The function that gives each subset its sum, taken apart anywhere.
Adds(g, f, S) ==
    /\ g \in [SUBSET S -> Int] /\ g[{}] = 0
    /\ \A T \in SUBSET S : \A x \in T : g[T] = f[x] + g[T \ {x}]

\* The fold of the library takes apart the element that it chooses.
Chosen(s) == CHOOSE x \in s : TRUE
IsFold(g, f, S) ==
    g = [s \in SUBSET S |-> IF s = {} THEN 0 ELSE f[Chosen(s)] + g[s \ {Chosen(s)}]]

LEMMA SumIsFold ==
    ASSUME NEW f, NEW S
    PROVE  SumFunctionOnSet(f, S) = (CHOOSE g : IsFold(g, f, S))[S]
BY DEF SumFunctionOnSet, FoldFunctionOnSet, MapThenFoldSet, IsFold, Chosen

LEMMA ChosenIn ==
    ASSUME NEW s, s # {}
    PROVE  Chosen(s) \in s
BY DEF Chosen

LEMMA AddsMore ==
    ASSUME NEW f, NEW T, NEW y \in T, \A x \in T : f[x] \in Int, NEW g, Adds(g, f, T \ {y})
    PROVE  \E h : Adds(h, f, T)
<1>1. PICK h : h = [U \in SUBSET T |-> IF y \in U THEN f[y] + g[U \ {y}] ELSE g[U]]
  OBVIOUS
<1>2. \A U \in SUBSET T : U \ {y} \in SUBSET (T \ {y}) /\ g[U \ {y}] \in Int
  BY DEF Adds
<1>3. \A U \in SUBSET T : y \notin U => U = U \ {y} /\ h[U] = g[U \ {y}]
  <2> SUFFICES ASSUME NEW U \in SUBSET T, y \notin U
               PROVE  U = U \ {y} /\ h[U] = g[U \ {y}]
    OBVIOUS
  <2>1. U = U \ {y}
    OBVIOUS
  <2>2. h[U] = g[U]
    BY <1>1
  <2> QED
    BY <2>1, <2>2
<1>4. \A U \in SUBSET T : y \in U => h[U] = f[y] + g[U \ {y}]
  BY <1>1
<1>5. h \in [SUBSET T -> Int]
  <2>1. ASSUME NEW U \in SUBSET T
        PROVE  h[U] \in Int
    <3>1. g[U \ {y}] \in Int /\ f[y] \in Int
      BY <1>2
    <3>2. h[U] = g[U \ {y}] \/ h[U] = f[y] + g[U \ {y}]
      BY <1>3, <1>4
    <3> QED
      BY <3>1, <3>2
  <2> QED
    BY <1>1, <2>1
<1>6. h[{}] = 0
  BY <1>1 DEF Adds
<1>7. ASSUME NEW U \in SUBSET T, NEW x \in U
      PROVE  h[U] = f[x] + h[U \ {x}]
  <2>1. U \ {x} \in SUBSET T
    OBVIOUS
  <2>2. CASE y \notin U
    <3>1. g[U \ {y}] = f[x] + g[(U \ {y}) \ {x}]
      BY <1>2, <2>2 DEF Adds
    <3>2. h[U \ {x}] = g[(U \ {x}) \ {y}]
      BY <1>3, <2>1, <2>2
    <3>3. (U \ {y}) \ {x} = (U \ {x}) \ {y}
      OBVIOUS
    <3> QED
      BY <1>3, <2>2, <3>1, <3>2, <3>3
  <2>3. CASE y \in U /\ x = y
    <3>1. h[U \ {x}] = g[(U \ {x}) \ {y}]
      BY <1>3, <2>1, <2>3
    <3>2. (U \ {x}) \ {y} = U \ {y}
      BY <2>3
    <3> QED
      BY <1>4, <2>3, <3>1, <3>2
  <2>4. CASE y \in U /\ x # y
    <3>1. g[U \ {y}] = f[x] + g[(U \ {y}) \ {x}]
      BY <1>2, <2>4 DEF Adds
    <3>2. h[U \ {x}] = f[y] + g[(U \ {x}) \ {y}]
      BY <1>4, <2>1, <2>4
    <3>3. (U \ {y}) \ {x} = (U \ {x}) \ {y}
      OBVIOUS
    <3>4. h[U] = f[y] + g[U \ {y}]
      BY <1>4, <2>4
    <3>5. f[x] \in Int /\ f[y] \in Int /\ g[(U \ {x}) \ {y}] \in Int
      BY <1>2, <2>1
    <3>6. g[U \ {y}] = f[x] + g[(U \ {x}) \ {y}]
      BY <3>1, <3>3
    <3> QED
      BY <3>2, <3>4, <3>5, <3>6
  <2> QED
    BY <2>2, <2>3, <2>4
<1> QED
  BY <1>5, <1>6, <1>7 DEF Adds

LEMMA SomethingAdds ==
    ASSUME NEW S, IsFiniteSet(S), NEW f, \A x \in S : f[x] \in Int
    PROVE  \E g : Adds(g, f, S)
<1> SUFFICES ASSUME ~ \E g : Adds(g, f, S)
             PROVE  FALSE
  OBVIOUS
<1>1. PICK B : B = {T \in SUBSET S : ~ \E g : Adds(g, f, T)}
  OBVIOUS
<1>2. S \in B /\ B \in SUBSET (SUBSET S)
  BY <1>1
<1>3. PICK T \in B : \A x \in T : T \ {x} \notin B
  BY <1>2, SmallestSet
<1>4. CASE T = {}
  <2>1. PICK g : g = [U \in SUBSET T |-> 0]
    OBVIOUS
  <2>2. Adds(g, f, T)
    BY <1>4, <2>1 DEF Adds
  <2> QED
    BY <1>1, <1>3, <2>2
<1>5. CASE T # {}
  <2>1. PICK y \in T : T \ {y} \notin B
    BY <1>3, <1>5
  <2>2. PICK g : Adds(g, f, T \ {y})
    BY <1>1, <1>3, <2>1
  <2>3. \A x \in T : f[x] \in Int
    BY <1>2, <1>3
  <2>4. \E h : Adds(h, f, T)
    BY <2>2, <2>3, AddsMore
  <2> QED
    BY <1>1, <1>3, <2>4
<1> QED
  BY <1>4, <1>5

LEMMA FoldAdds ==
    ASSUME NEW S, IsFiniteSet(S), NEW f, NEW g, Adds(g, f, S), NEW h, IsFold(h, f, S)
    PROVE  h = g
<1>1. PICK B : B = {T \in SUBSET S : h[T] # g[T]}
  OBVIOUS
<1>2. ASSUME B # {}
      PROVE  FALSE
  <2>1. PICK T \in B : \A x \in T : T \ {x} \notin B
    BY <1>1, <1>2, SmallestSet
  <2>2. T # {}
    BY <1>1, <2>1 DEF IsFold, Adds
  <2>3. PICK x : x = Chosen(T)
    OBVIOUS
  <2>4. x \in T
    BY <2>2, <2>3, ChosenIn
  <2>5. h[T] = f[x] + h[T \ {x}]
    BY <1>1, <2>1, <2>2, <2>3 DEF IsFold
  <2>6. h[T \ {x}] = g[T \ {x}]
    BY <1>1, <2>1, <2>4
  <2> QED
    BY <1>1, <2>1, <2>4, <2>5, <2>6 DEF Adds
<1> QED
  BY <1>1, <1>2 DEF IsFold, Adds

LEMMA AddsFold ==
    ASSUME NEW S, NEW f, NEW g, Adds(g, f, S)
    PROVE  IsFold(g, f, S)
<1>1. ASSUME NEW s \in SUBSET S
      PROVE  g[s] = IF s = {} THEN 0 ELSE f[Chosen(s)] + g[s \ {Chosen(s)}]
  BY ChosenIn DEF Adds
<1> QED
  BY <1>1 DEF IsFold, Adds

LEMMA SumIs ==
    ASSUME NEW S, IsFiniteSet(S), NEW f, NEW g, Adds(g, f, S)
    PROVE  SumFunctionOnSet(f, S) = g[S]
<1>1. PICK h : h = CHOOSE k : IsFold(k, f, S)
  OBVIOUS
<1>2. IsFold(h, f, S)
  BY <1>1, AddsFold
<1> QED
  BY <1>1, <1>2, FoldAdds, SumIsFold

-----------------------------------------------------------------------------
(* What the sum of a finite set is *)

LEMMA SumEmpty ==
    ASSUME NEW f
    PROVE  SumFunctionOnSet(f, {}) = 0
<1>1. IsFiniteSet({})
  BY FS_EmptySet
<1>2. PICK g : Adds(g, f, {})
  BY <1>1, SomethingAdds
<1> QED
  BY <1>1, <1>2, SumIs DEF Adds

LEMMA SumInt ==
    ASSUME NEW S, IsFiniteSet(S), NEW f, \A x \in S : f[x] \in Int
    PROVE  SumFunctionOnSet(f, S) \in Int
<1>1. PICK g : Adds(g, f, S)
  BY SomethingAdds
<1>2. SumFunctionOnSet(f, S) = g[S] /\ S \in SUBSET S
  BY <1>1, SumIs
<1> QED
  BY <1>1, <1>2 DEF Adds

LEMMA SumSplit ==
    ASSUME NEW S, IsFiniteSet(S), NEW f, \A x \in S : f[x] \in Int, NEW x \in S
    PROVE  SumFunctionOnSet(f, S) = f[x] + SumFunctionOnSet(f, S \ {x})
<1>1. PICK g : Adds(g, f, S)
  BY SomethingAdds
<1>2. PICK h : h = [U \in SUBSET (S \ {x}) |-> g[U]]
  OBVIOUS
<1>3. Adds(h, f, S \ {x})
  <2>1. \A U \in SUBSET (S \ {x}) : h[U] = g[U] /\ U \in SUBSET S
    BY <1>2
  <2>2. \A U \in SUBSET (S \ {x}) : \A y \in U : U \ {y} \in SUBSET (S \ {x})
    OBVIOUS
  <2>3. h \in [SUBSET (S \ {x}) -> Int] /\ h[{}] = 0
    BY <1>1, <1>2, <2>1 DEF Adds
  <2>4. \A U \in SUBSET (S \ {x}) : \A y \in U : h[U] = f[y] + h[U \ {y}]
    BY <1>1, <2>1, <2>2 DEF Adds
  <2> QED
    BY <2>3, <2>4 DEF Adds
<1>4. SumFunctionOnSet(f, S \ {x}) = g[S \ {x}]
  <2>1. IsFiniteSet(S \ {x})
    BY FS_RemoveElement
  <2>2. SumFunctionOnSet(f, S \ {x}) = h[S \ {x}]
    BY <1>3, <2>1, SumIs
  <2> QED
    BY <1>2, <2>2
<1>5. SumFunctionOnSet(f, S) = g[S] /\ S \in SUBSET S
  BY <1>1, SumIs
<1> QED
  BY <1>1, <1>4, <1>5 DEF Adds

\* Functions that agree on the set have the same sum.
LEMMA SumAgree ==
    ASSUME NEW S, IsFiniteSet(S), NEW f, NEW h, \A x \in S : f[x] \in Int /\ h[x] = f[x]
    PROVE  SumFunctionOnSet(h, S) = SumFunctionOnSet(f, S)
<1>1. PICK g : Adds(g, f, S)
  BY SomethingAdds
<1>2. Adds(g, h, S)
  BY <1>1 DEF Adds
<1> QED
  BY <1>1, <1>2, SumIs

\* One value changes.
LEMMA SumChange ==
    ASSUME NEW S, IsFiniteSet(S), NEW f, NEW h, NEW x \in S,
           \A y \in S : f[y] \in Int /\ h[y] \in Int /\ (y # x => h[y] = f[y])
    PROVE  SumFunctionOnSet(h, S) = SumFunctionOnSet(f, S) - f[x] + h[x]
<1>1. IsFiniteSet(S \ {x})
  BY FS_RemoveElement
<1>2. SumFunctionOnSet(h, S \ {x}) = SumFunctionOnSet(f, S \ {x})
  BY <1>1, SumAgree
<1>3. /\ SumFunctionOnSet(f, S) = f[x] + SumFunctionOnSet(f, S \ {x})
      /\ SumFunctionOnSet(h, S) = h[x] + SumFunctionOnSet(h, S \ {x})
  BY SumSplit
<1>4. SumFunctionOnSet(f, S \ {x}) \in Int
  BY <1>1, SumInt
<1> QED
  BY <1>2, <1>3, <1>4

\* Values that grow have a sum that does.
LEMMA SumGrows ==
    ASSUME NEW S, IsFiniteSet(S), NEW f, NEW h,
           \A x \in S : f[x] \in Int /\ h[x] \in Int /\ f[x] <= h[x]
    PROVE  SumFunctionOnSet(f, S) <= SumFunctionOnSet(h, S)
<1>1. PICK B : B = {T \in SUBSET S : ~(SumFunctionOnSet(f, T) <= SumFunctionOnSet(h, T))}
  OBVIOUS
<1>2. ASSUME B # {}
      PROVE  FALSE
  <2>1. PICK T \in B : \A x \in T : T \ {x} \notin B
    BY <1>1, <1>2, SmallestSet
  <2>2. T \in SUBSET S /\ IsFiniteSet(T)
    BY <1>1, <2>1, FS_Subset
  <2>3. PICK x \in T : T \ {x} \notin B
    <3>1. T # {}
      BY <1>1, <2>1, SumEmpty
    <3> QED
      BY <2>1, <3>1
  <2>4. SumFunctionOnSet(f, T \ {x}) <= SumFunctionOnSet(h, T \ {x})
    BY <1>1, <2>2, <2>3
  <2>5. /\ SumFunctionOnSet(f, T) = f[x] + SumFunctionOnSet(f, T \ {x})
        /\ SumFunctionOnSet(h, T) = h[x] + SumFunctionOnSet(h, T \ {x})
    BY <2>2, SumSplit
  <2>6. SumFunctionOnSet(f, T \ {x}) \in Int /\ SumFunctionOnSet(h, T \ {x}) \in Int
    BY <2>2, FS_RemoveElement, SumInt
  <2>7. f[x] \in Int /\ h[x] \in Int /\ f[x] <= h[x]
    BY <2>2
  <2>8. SumFunctionOnSet(f, T) <= SumFunctionOnSet(h, T)
    BY <2>4, <2>5, <2>6, <2>7
  <2> QED
    BY <1>1, <2>1, <2>8
<1> QED
  BY <1>1, <1>2

\* A sum of nothing but zeros.
LEMMA SumZero ==
    ASSUME NEW S, IsFiniteSet(S), NEW f, \A x \in S : f[x] = 0
    PROVE  SumFunctionOnSet(f, S) = 0
<1>1. PICK g : g = [T \in SUBSET S |-> 0]
  OBVIOUS
<1>2. Adds(g, f, S)
  BY <1>1 DEF Adds
<1> QED
  BY <1>1, <1>2, SumIs

\* A sum of natural numbers is one, and no less than any of them.
LEMMA SumNat ==
    ASSUME NEW S, IsFiniteSet(S), NEW f, \A x \in S : f[x] \in Nat
    PROVE  /\ SumFunctionOnSet(f, S) \in Nat
           /\ \A x \in S : f[x] <= SumFunctionOnSet(f, S)
<1>1. ASSUME NEW T, IsFiniteSet(T), \A x \in T : f[x] \in Nat
      PROVE  SumFunctionOnSet(f, T) \in Nat
  <2>1. PICK zero : zero = [x \in T |-> 0]
    OBVIOUS
  <2>2. SumFunctionOnSet(zero, T) = 0
    BY <1>1, <2>1, SumZero
  <2>3. SumFunctionOnSet(zero, T) <= SumFunctionOnSet(f, T)
    BY <1>1, <2>1, SumGrows
  <2>4. SumFunctionOnSet(f, T) \in Int
    BY <1>1, SumInt
  <2> QED
    BY <2>2, <2>3, <2>4
<1>2. ASSUME NEW x \in S
      PROVE  f[x] <= SumFunctionOnSet(f, S)
  <2>1. SumFunctionOnSet(f, S \ {x}) \in Nat
    BY <1>1, FS_RemoveElement
  <2>2. SumFunctionOnSet(f, S) = f[x] + SumFunctionOnSet(f, S \ {x})
    BY SumSplit
  <2> QED
    BY <2>1, <2>2
<1> QED
  BY <1>1, <1>2

\* What is not in T adds nothing.
LEMMA SumWithin ==
    ASSUME NEW S, IsFiniteSet(S), NEW T \in SUBSET S, NEW f,
           \A x \in S : f[x] \in Int /\ (x \notin T => f[x] = 0)
    PROVE  SumFunctionOnSet(f, S) = SumFunctionOnSet(f, T)
<1>1. PICK B : B = {U \in SUBSET S : SumFunctionOnSet(f, T \cup U) # SumFunctionOnSet(f, T)}
  OBVIOUS
<1>2. ASSUME B # {} PROVE FALSE
  <2>1. PICK U \in B : \A x \in U : U \ {x} \notin B
    BY <1>1, <1>2, SmallestSet
  <2>2. U \in SUBSET S /\ SumFunctionOnSet(f, T \cup U) # SumFunctionOnSet(f, T)
    BY <1>1, <2>1
  <2>3. PICK x \in U : x \in U
    <3>1. CASE U = {}
      <4>1. T \cup U = T
        BY <3>1
      <4> QED
        BY <2>2, <4>1
    <3> QED
      BY <3>1
  <2>4. SumFunctionOnSet(f, T \cup (U \ {x})) = SumFunctionOnSet(f, T)
    BY <1>1, <2>1, <2>2, <2>3
  <2>5. CASE x \in T
    <3>1. T \cup (U \ {x}) = T \cup U
      BY <2>5
    <3> QED
      BY <2>2, <2>4, <3>1
  <2>6. CASE x \notin T
    <3>1. PICK V : V = T \cup U
      OBVIOUS
    <3>2. V \in SUBSET S /\ x \in V /\ V \ {x} = T \cup (U \ {x})
      BY <2>2, <2>6, <3>1
    <3>3. IsFiniteSet(V)
      BY <3>2, FS_Subset
    <3>4. SumFunctionOnSet(f, V) = f[x] + SumFunctionOnSet(f, V \ {x})
      BY <3>2, <3>3, SumSplit
    <3>5. f[x] = 0 /\ SumFunctionOnSet(f, V \ {x}) = SumFunctionOnSet(f, T)
      BY <2>2, <2>3, <2>4, <2>6, <3>2
    <3>6. SumFunctionOnSet(f, T) \in Int
      <4>1. IsFiniteSet(T)
        BY FS_Subset
      <4> QED
        BY <4>1, SumInt
    <3> QED
      BY <2>2, <3>1, <3>4, <3>5, <3>6
  <2> QED
    BY <2>5, <2>6
<1>3. T \cup S = S
  OBVIOUS
<1>4. S \notin B
  BY <1>2
<1> QED
  BY <1>1, <1>3, <1>4

LEMMA SumOfFunction ==
    ASSUME NEW S, NEW f, DOMAIN f = S
    PROVE  SumFunction(f) = SumFunctionOnSet(f, S)
BY DEF SumFunction

\* One value more at the end of a list.
LEMMA SumExtends ==
    ASSUME NEW n \in Nat, NEW f, NEW g, DOMAIN f = 1..n, DOMAIN g = 1..n + 1,
           \A k \in 1..n : f[k] \in Int /\ g[k] = f[k], g[n + 1] \in Int
    PROVE  SumFunction(g) = SumFunction(f) + g[n + 1]
<1>1. /\ IsFiniteSet(1..n) /\ IsFiniteSet(1..n + 1)
      /\ n + 1 \in 1..n + 1 /\ (1..n + 1) \ {n + 1} = 1..n
  <2>1. n \in Int /\ n + 1 \in Int /\ 1 \in Int
    OBVIOUS
  <2>2. IsFiniteSet(1..n) /\ IsFiniteSet(1..n + 1)
    BY <2>1, FS_Interval
  <2>3. n + 1 \in 1..n + 1
    OBVIOUS
  <2>4. \A k : k \in (1..n + 1) \ {n + 1} <=> k \in 1..n
    OBVIOUS
  <2> QED
    BY <2>2, <2>3, <2>4
<1>2. \A k \in 1..n + 1 : g[k] \in Int
  <2> SUFFICES ASSUME NEW k \in 1..n + 1
               PROVE  g[k] \in Int
    OBVIOUS
  <2>1. k \in 1..n \/ k = n + 1
    OBVIOUS
  <2> QED
    BY <2>1
<1>3. SumFunctionOnSet(g, 1..n + 1) = g[n + 1] + SumFunctionOnSet(g, 1..n)
  BY <1>1, <1>2, SumSplit
<1>4. SumFunctionOnSet(g, 1..n) = SumFunctionOnSet(f, 1..n)
  BY <1>1, SumAgree
<1>5. SumFunctionOnSet(f, 1..n) \in Int
  BY <1>1, SumInt
<1> QED
  BY <1>3, <1>4, <1>5, SumOfFunction
=============================================================================
