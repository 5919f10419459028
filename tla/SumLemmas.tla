----------------------------- MODULE SumLemmas -----------------------------
(***************************************************************************)
(* Facts about sums over finite sets: the folds by which the Lambdas of    *)
(* this project add what their threads, phases and workers counted.  The   *)
(* community modules define a sum as a fold that takes the elements in an  *)
(* arbitrary order; the facts below say that the order does not matter.    *)
(***************************************************************************)
EXTENDS Integers, Functions, FiniteSetTheorems, TLAPS

Pick(S) == CHOOSE x \in S : TRUE

(* A function that holds the partial sums of f over every subset of S. *)
Adds(f, S, g) ==
  g = [s \in SUBSET S |-> IF s = {} THEN 0 ELSE f[Pick(s)] + g[s \ {Pick(s)}]]

Small(S, n) == {s \in SUBSET S : Cardinality(s) <= n}

(* The same for the subsets of at most n elements. *)
AddsUpTo(f, S, n, g) ==
  g = [s \in Small(S, n) |-> IF s = {} THEN 0 ELSE f[Pick(s)] + g[s \ {Pick(s)}]]

(* Induction over the natural numbers, as a minimum: a set of numbers that *)
(* has an element has a least one.                                         *)
LEMMA LeastNumber ==
  ASSUME NEW B \in SUBSET Nat, B # {}
  PROVE  \E n \in B : \A m \in B : n <= m
<1>1. PICK n \in B : \A m \in B : ~ (<<m, n>> \in OpToRel(<, Nat))
  BY NatLessThanWellFounded, WFMin
<1>2. \A m \in B : ~ (m < n)
  BY <1>1 DEF OpToRel
<1> QED BY <1>2

(* Induction over the subsets of a finite set, in the same form: a set of  *)
(* subsets that is not empty has one that contains no other.               *)
LEMMA LeastSubset ==
  ASSUME NEW S, IsFiniteSet(S), NEW B \in SUBSET SUBSET S, B # {}
  PROVE  \E T \in B : \A U \in B : ~ (U \subseteq T /\ U # T)
<1>0. IsWellFoundedOn(StrictSubsetOrdering(S), FiniteSubsetsOf(S))
  BY FS_StrictSubsetOrderingWellFounded
<1>1. FiniteSubsetsOf(S) = SUBSET S
  BY FS_FiniteSubsetsOfFinite
<1>2. PICK T \in B : \A U \in B : ~ (<<U, T>> \in StrictSubsetOrdering(S))
  BY <1>0, <1>1, WFMin
<1> QED BY <1>2 DEF StrictSubsetOrdering

LEMMA PickIn == ASSUME NEW S, S # {} PROVE Pick(S) \in S
BY DEF Pick

(* The partial sums of up to n elements exist for every n ... *)
LEMMA AddsUpToExists ==
  ASSUME NEW f, NEW S, IsFiniteSet(S), NEW n \in Nat
  PROVE  \E g : AddsUpTo(f, S, n, g)
<1> DEFINE Bad == {k \in Nat : ~ \E g : AddsUpTo(f, S, k, g)}
<1> SUFFICES ASSUME Bad # {} PROVE FALSE
  OBVIOUS
<1>1. PICK k \in Bad : \A m \in Bad : k <= m
  BY LeastNumber
<1>2. \A s \in SUBSET S : IsFiniteSet(s) /\ Cardinality(s) \in Nat
  BY FS_Subset, FS_CardinalityType
<1>3. CASE k = 0
  <2>1. Small(S, 0) = {{}}
    BY <1>2, FS_EmptySet DEF Small
  <2> DEFINE g == [s \in Small(S, 0) |-> 0]
  <2>2. AddsUpTo(f, S, 0, g)
    BY <2>1 DEF AddsUpTo
  <2> QED BY <1>3, <2>2
<1>4. CASE k # 0
  <2>1. k - 1 \in Nat /\ ~ (k - 1 \in Bad)
    BY <1>1, <1>4
  <2>2. PICK g : AddsUpTo(f, S, k - 1, g)
    BY <2>1
  <2> DEFINE h == [s \in Small(S, k) |->
                     IF s = {} THEN 0 ELSE f[Pick(s)] + g[s \ {Pick(s)}]]
  <2>3. ASSUME NEW s \in Small(S, k), s # {}
        PROVE  s \ {Pick(s)} \in Small(S, k - 1)
    BY <1>2, <2>3, PickIn, FS_RemoveElement DEF Small
  <2>4. Small(S, k - 1) \subseteq Small(S, k)
    BY <1>2 DEF Small
  <2>5. ASSUME NEW s \in Small(S, k - 1) PROVE g[s] = h[s]
    BY <2>2, <2>4 DEF AddsUpTo
  <2>6. h = [s \in Small(S, k) |->
               IF s = {} THEN 0 ELSE f[Pick(s)] + h[s \ {Pick(s)}]]
    BY <2>3, <2>5
  <2>7. AddsUpTo(f, S, k, h)
    BY <2>6 DEF AddsUpTo
  <2> QED BY <1>1, <2>7
<1> QED BY <1>3, <1>4

(* ... and those of a finite set are all of them. *)
LEMMA AddsExists ==
  ASSUME NEW f, NEW S, IsFiniteSet(S)
  PROVE  \E g : Adds(f, S, g)
<1>1. Cardinality(S) \in Nat
  BY FS_CardinalityType
<1>2. Small(S, Cardinality(S)) = SUBSET S
  BY FS_Subset DEF Small
<1>3. PICK g : AddsUpTo(f, S, Cardinality(S), g)
  BY <1>1, AddsUpToExists
<1>4. Adds(f, S, g)
  BY <1>2, <1>3 DEF AddsUpTo, Adds
<1> QED BY <1>4

(* What the library's sum is: the last of the partial sums. *)
LEMMA SumIsAdds ==
  ASSUME NEW f, NEW S, IsFiniteSet(S)
  PROVE  \E g : Adds(f, S, g) /\ SumFunctionOnSet(f, S) = g[S]
<1> DEFINE g == CHOOSE h : Adds(f, S, h)
<1>1. Adds(f, S, g)
  BY AddsExists
<1>2. SumFunctionOnSet(f, S) = g[S]
  BY DEF Adds, Pick, SumFunctionOnSet, FoldFunctionOnSet, MapThenFoldSet
<1> QED BY <1>1, <1>2

(* Two partial sums of functions that agree on a set agree on its sum.     *)
LEMMA AddsAgree ==
  ASSUME NEW S, IsFiniteSet(S), NEW T, IsFiniteSet(T), NEW U, U \subseteq S, U \subseteq T,
         NEW f, NEW e, \A x \in U : f[x] = e[x],
         NEW g, Adds(f, S, g), NEW h, Adds(e, T, h)
  PROVE  g[U] = h[U]
<1> DEFINE Bad == {V \in SUBSET U : g[V] # h[V]}
<1> SUFFICES ASSUME Bad # {} PROVE FALSE
  OBVIOUS
<1>1. IsFiniteSet(U)
  BY FS_Subset
<1>2. PICK V \in Bad : \A W \in Bad : ~ (W \subseteq V /\ W # V)
  <2> HIDE DEF Bad
  <2>1. Bad \in SUBSET SUBSET U
    BY DEF Bad
  <2> QED BY <1>1, <2>1, LeastSubset
<1>3. V # {}
  BY <1>2 DEF Adds
<1>4. Pick(V) \in V
  BY <1>3, PickIn
<1>5. g[V \ {Pick(V)}] = h[V \ {Pick(V)}]
  BY <1>2, <1>4
<1>6. g[V] = f[Pick(V)] + g[V \ {Pick(V)}]
  BY <1>2, <1>3 DEF Adds
<1>7. h[V] = e[Pick(V)] + h[V \ {Pick(V)}]
  BY <1>2, <1>3 DEF Adds
<1> QED BY <1>2, <1>4, <1>5, <1>6, <1>7

(* Nothing adds up to 0. *)
LEMMA SumEmpty == ASSUME NEW f PROVE SumFunctionOnSet(f, {}) = 0
<1>1. PICK g : Adds(f, {}, g) /\ SumFunctionOnSet(f, {}) = g[{}]
  BY SumIsAdds, FS_EmptySet
<1> QED BY <1>1 DEF Adds

(* Functions that agree on a finite set have the same sum over it. *)
LEMMA SumAgree ==
  ASSUME NEW S, IsFiniteSet(S), NEW f, NEW e, \A x \in S : f[x] = e[x]
  PROVE  SumFunctionOnSet(f, S) = SumFunctionOnSet(e, S)
<1>1. PICK g : Adds(f, S, g) /\ SumFunctionOnSet(f, S) = g[S]
  BY SumIsAdds
<1>2. PICK h : Adds(e, S, h) /\ SumFunctionOnSet(e, S) = h[S]
  BY SumIsAdds
<1> QED BY <1>1, <1>2, AddsAgree

LEMMA SumPick ==
  ASSUME NEW S, IsFiniteSet(S), S # {}, NEW f
  PROVE  SumFunctionOnSet(f, S) = f[Pick(S)] + SumFunctionOnSet(f, S \ {Pick(S)})
<1> DEFINE R == S \ {Pick(S)}
<1>1. IsFiniteSet(R)
  BY FS_RemoveElement
<1>2. PICK g : Adds(f, S, g) /\ SumFunctionOnSet(f, S) = g[S]
  BY SumIsAdds
<1>3. PICK h : Adds(f, R, h) /\ SumFunctionOnSet(f, R) = h[R]
  BY <1>1, SumIsAdds
<1>4. g[R] = h[R]
  BY <1>1, <1>2, <1>3, AddsAgree
<1>5. g[S] = f[Pick(S)] + g[R]
  BY <1>2 DEF Adds
<1> QED BY <1>2, <1>3, <1>4, <1>5

(* A sum of integers is an integer ... *)
LEMMA SumInt ==
  ASSUME NEW S, IsFiniteSet(S), NEW f, \A x \in S : f[x] \in Int
  PROVE  SumFunctionOnSet(f, S) \in Int
<1> DEFINE Bad == {T \in SUBSET S : SumFunctionOnSet(f, T) \notin Int}
<1> SUFFICES ASSUME Bad # {} PROVE FALSE
  OBVIOUS
<1>1. PICK T \in Bad : \A U \in Bad : ~ (U \subseteq T /\ U # T)
  <2> HIDE DEF Bad
  <2>1. Bad \in SUBSET SUBSET S
    BY DEF Bad
  <2> QED BY <2>1, LeastSubset
<1>2. T # {}
  <2> SUFFICES ASSUME T = {} PROVE FALSE
    OBVIOUS
  <2>1. SumFunctionOnSet(f, T) = 0
    BY SumEmpty
  <2> QED BY <1>1, <2>1
<1>3. IsFiniteSet(T)
  BY FS_Subset
<1>4. Pick(T) \in T
  BY <1>2, PickIn
<1>5. SumFunctionOnSet(f, T \ {Pick(T)}) \in Int
  BY <1>1, <1>4
<1>6. SumFunctionOnSet(f, T) = f[Pick(T)] + SumFunctionOnSet(f, T \ {Pick(T)})
  BY <1>2, <1>3, SumPick
<1> QED BY <1>1, <1>4, <1>5, <1>6

(* ... and any element may be added last: the order does not matter. *)
LEMMA SumRemove ==
  ASSUME NEW S, IsFiniteSet(S), NEW f, \A x \in S : f[x] \in Int, NEW a \in S
  PROVE  SumFunctionOnSet(f, S) = f[a] + SumFunctionOnSet(f, S \ {a})
<1> DEFINE F == [T \in SUBSET S |-> SumFunctionOnSet(f, T)]
           Bad == {T \in SUBSET S : \E x \in T : F[T] # f[x] + F[T \ {x}]}
<1>0. \A T \in SUBSET S : F[T] \in Int
  BY FS_Subset, SumInt
<1>00. \A T \in SUBSET S : T # {} => F[T] = f[Pick(T)] + F[T \ {Pick(T)}]
  BY FS_Subset, SumPick
<1> HIDE DEF F
<1>1. ASSUME Bad # {} PROVE FALSE
  <2>1. PICK T \in Bad : \A U \in Bad : ~ (U \subseteq T /\ U # T)
    <3> HIDE DEF Bad
    <3>1. Bad \in SUBSET SUBSET S
      BY DEF Bad
    <3> QED BY <1>1, <3>1, LeastSubset
  <2>2. PICK x \in T : F[T] # f[x] + F[T \ {x}]
    BY <2>1
  <2> DEFINE p == Pick(T)
  <2>3. p \in T
    BY <2>2, PickIn
  <2>4. F[T] = f[p] + F[T \ {p}]
    BY <1>00, <2>1, <2>2
  <2>5. p # x
    BY <2>2, <2>4
  <2> HIDE DEF p
  <2>0. \A U \in SUBSET T : U # T => \A y \in U : F[U] = f[y] + F[U \ {y}]
    BY <2>1
  <2>6. F[T \ {p}] = f[x] + F[(T \ {p}) \ {x}]
    BY <2>0, <2>3, <2>5
  <2>7. F[T \ {x}] = f[p] + F[(T \ {x}) \ {p}]
    BY <2>0, <2>3, <2>5
  <2>8. (T \ {x}) \ {p} = (T \ {p}) \ {x} /\ (T \ {x}) \ {p} \in SUBSET S
    BY <2>1
  <2>9. f[p] \in Int /\ f[x] \in Int /\ F[(T \ {p}) \ {x}] \in Int
    BY <1>0, <2>1, <2>2, <2>3, <2>8
  <2>10. F[T \ {x}] = f[p] + F[(T \ {p}) \ {x}]
    BY <2>7, <2>8
  <2>11. F[T] = f[p] + (f[x] + F[(T \ {p}) \ {x}])
    BY <2>4, <2>6
  <2>12. \A u, v, w \in Int : u + (v + w) = v + (u + w)
    OBVIOUS
  <2>13. F[T] = f[x] + F[T \ {x}]
    BY <2>9, <2>10, <2>11, <2>12
  <2> QED BY <2>2, <2>13
<1>2. F[S] = f[a] + F[S \ {a}]
  BY <1>1
<1> QED BY <1>2 DEF F

(* Adding one more element, or changing the value of one. *)
LEMMA SumAdd ==
  ASSUME NEW S, IsFiniteSet(S), NEW a, a \notin S,
         NEW f, \A x \in S \cup {a} : f[x] \in Int
  PROVE  SumFunctionOnSet(f, S \cup {a}) = SumFunctionOnSet(f, S) + f[a]
<1> DEFINE T == S \cup {a}
<1>1. IsFiniteSet(T) /\ a \in T /\ T \ {a} = S
  BY FS_AddElement
<1>2. SumFunctionOnSet(f, T) = f[a] + SumFunctionOnSet(f, S)
  BY <1>1, SumRemove
<1>3. SumFunctionOnSet(f, S) \in Int
  BY SumInt
<1> QED BY <1>2, <1>3

LEMMA SumChange ==
  ASSUME NEW S, IsFiniteSet(S), NEW a \in S,
         NEW f, \A x \in S : f[x] \in Int,
         NEW e, \A x \in S : e[x] \in Int, \A x \in S \ {a} : e[x] = f[x]
  PROVE  SumFunctionOnSet(e, S) = SumFunctionOnSet(f, S) + (e[a] - f[a])
<1> DEFINE R == S \ {a}
<1>1. IsFiniteSet(R)
  BY FS_RemoveElement
<1>2. SumFunctionOnSet(e, R) = SumFunctionOnSet(f, R)
  BY <1>1, SumAgree
<1>3. SumFunctionOnSet(f, S) = f[a] + SumFunctionOnSet(f, R)
  BY SumRemove
<1>4. SumFunctionOnSet(e, S) = e[a] + SumFunctionOnSet(e, R)
  BY SumRemove
<1>5. SumFunctionOnSet(f, R) \in Int
  BY <1>1, SumInt
<1> QED BY <1>2, <1>3, <1>4, <1>5

(* A sum is at most the bound of its terms, once for each term. *)
LEMMA SumBound ==
  ASSUME NEW S, IsFiniteSet(S), NEW c \in Int,
         NEW f, \A x \in S : f[x] \in Int /\ f[x] <= c
  PROVE  SumFunctionOnSet(f, S) <= c * Cardinality(S)
<1> DEFINE F == [T \in SUBSET S |-> SumFunctionOnSet(f, T)]
           Bad == {T \in SUBSET S : ~ (F[T] <= c * Cardinality(T))}
<1>1. ASSUME Bad # {} PROVE FALSE
  <2>1. PICK T \in Bad : \A U \in Bad : ~ (U \subseteq T /\ U # T)
    <3> HIDE DEF Bad
    <3>1. Bad \in SUBSET SUBSET S
      BY DEF Bad
    <3> QED BY <1>1, <3>1, LeastSubset
  <2>2. IsFiniteSet(T) /\ Cardinality(T) \in Nat
    BY FS_Subset, FS_CardinalityType
  <2>3. T # {}
    <3> SUFFICES ASSUME T = {} PROVE FALSE
      OBVIOUS
    <3>1. F[T] = 0 /\ Cardinality(T) = 0
      BY SumEmpty, FS_EmptySet
    <3> QED BY <2>1, <3>1
  <2>4. PICK x \in T : TRUE
    BY <2>3
  <2> DEFINE R == T \ {x}
  <2>5. IsFiniteSet(R) /\ Cardinality(R) = Cardinality(T) - 1 /\ R \in SUBSET S
    BY <2>2, FS_RemoveElement
  <2>6. F[R] <= c * Cardinality(R)
    <3>1. R \notin Bad
      BY <2>1, <2>4
    <3> HIDE DEF F, R
    <3> QED BY <2>5, <3>1
  <2>7. F[T] = f[x] + F[R]
    BY <2>2, <2>5, SumRemove
  <2>8. F[R] \in Int
    BY <2>5, SumInt
  <2>9. c * Cardinality(T) = c * Cardinality(R) + c /\ c * Cardinality(R) \in Int
    <3>1. \A n \in Nat : c * n = c * (n - 1) + c /\ c * (n - 1) \in Int
      OBVIOUS
    <3> QED BY <2>2, <2>5, <3>1
  <2>10. f[x] \in Int /\ f[x] <= c
    OBVIOUS
  <2>11. ~ (F[T] <= c * Cardinality(T))
    BY <2>1
  <2> HIDE DEF F, Bad, R
  <2> QED BY <2>6, <2>7, <2>8, <2>9, <2>10, <2>11
<1> QED BY <1>1

(* Terms that are none the smaller make a sum that is none the smaller. *)
LEMMA SumMonotone ==
  ASSUME NEW S, IsFiniteSet(S), NEW f, NEW e,
         \A x \in S : f[x] \in Int /\ e[x] \in Int /\ f[x] <= e[x]
  PROVE  SumFunctionOnSet(f, S) <= SumFunctionOnSet(e, S)
<1> DEFINE F == [T \in SUBSET S |-> SumFunctionOnSet(f, T)]
           E == [T \in SUBSET S |-> SumFunctionOnSet(e, T)]
           Bad == {T \in SUBSET S : ~ (F[T] <= E[T])}
<1>1. ASSUME Bad # {} PROVE FALSE
  <2>1. PICK T \in Bad : \A U \in Bad : ~ (U \subseteq T /\ U # T)
    <3> HIDE DEF Bad
    <3>1. Bad \in SUBSET SUBSET S
      BY DEF Bad
    <3> QED BY <1>1, <3>1, LeastSubset
  <2>2. IsFiniteSet(T)
    BY FS_Subset
  <2>3. T # {}
    <3> SUFFICES ASSUME T = {} PROVE FALSE
      OBVIOUS
    <3>1. F[T] = 0 /\ E[T] = 0
      BY SumEmpty
    <3> QED BY <2>1, <3>1
  <2>4. PICK x \in T : TRUE
    BY <2>3
  <2> DEFINE R == T \ {x}
  <2>5. IsFiniteSet(R) /\ R \in SUBSET S
    BY <2>2, FS_RemoveElement
  <2>6. F[R] <= E[R]
    BY <2>1, <2>4, <2>5
  <2>7. F[T] = f[x] + F[R] /\ E[T] = e[x] + E[R]
    BY <2>2, <2>5, SumRemove
  <2>8. F[R] \in Int /\ E[R] \in Int
    BY <2>5, SumInt
  <2>10. f[x] \in Int /\ e[x] \in Int /\ f[x] <= e[x]
    OBVIOUS
  <2>11. ~ (F[T] <= E[T])
    BY <2>1
  <2> HIDE DEF F, E, Bad, R
  <2> QED BY <2>6, <2>7, <2>8, <2>10, <2>11
<1> QED BY <1>1

(* Elements that count nothing may be left out. *)
LEMMA SumOfSupport ==
  ASSUME NEW S, IsFiniteSet(S), NEW R \in SUBSET S,
         NEW f, \A x \in S : f[x] \in Int, \A x \in S \ R : f[x] = 0
  PROVE  SumFunctionOnSet(f, S) = SumFunctionOnSet(f, R)
<1> DEFINE F == [T \in SUBSET S |-> SumFunctionOnSet(f, T)]
           Bad == {T \in SUBSET S : R \subseteq T /\ F[T] # F[R]}
<1>1. ASSUME Bad # {} PROVE FALSE
  <2>1. PICK T \in Bad : \A U \in Bad : ~ (U \subseteq T /\ U # T)
    <3> HIDE DEF Bad
    <3>1. Bad \in SUBSET SUBSET S
      BY DEF Bad
    <3> QED BY <1>1, <3>1, LeastSubset
  <2>2. IsFiniteSet(T)
    BY FS_Subset
  <2>3. PICK x \in T : x \notin R
    <3>1. R \subseteq T /\ F[T] # F[R]
      BY <2>1
    <3>2. T # R
      BY <3>1
    <3> QED BY <3>1, <3>2
  <2> DEFINE Q == T \ {x}
  <2>4. Q \in SUBSET S /\ R \subseteq Q /\ Q # T /\ Q \subseteq T /\ IsFiniteSet(Q)
    BY <2>1, <2>2, <2>3, FS_RemoveElement
  <2>5. F[Q] = F[R]
    BY <2>1, <2>4
  <2>6. F[T] = f[x] + F[Q]
    BY <2>2, <2>4, SumRemove
  <2>7. f[x] = 0 /\ F[Q] \in Int
    BY <2>3, <2>4, SumInt
  <2>8. F[T] # F[R]
    BY <2>1
  <2> HIDE DEF F, Bad, Q
  <2> QED BY <2>5, <2>6, <2>7, <2>8
<1> QED BY <1>1

(* Nothing but zeros. *)
LEMMA SumZero ==
  ASSUME NEW S, IsFiniteSet(S), NEW f, \A x \in S : f[x] = 0
  PROVE  SumFunctionOnSet(f, S) = 0
BY SumOfSupport, SumEmpty

(* A sum of natural numbers is one. *)
LEMMA SumNat ==
  ASSUME NEW S, IsFiniteSet(S), NEW f, \A x \in S : f[x] \in Nat
  PROVE  SumFunctionOnSet(f, S) \in Nat
<1> DEFINE z == [x \in S |-> 0]
<1>1. SumFunctionOnSet(z, S) = 0
  BY SumZero
<1>2. SumFunctionOnSet(z, S) <= SumFunctionOnSet(f, S)
  BY SumMonotone
<1>3. SumFunctionOnSet(f, S) \in Int
  BY SumInt
<1> QED BY <1>1, <1>2, <1>3

(* Of a function, over its whole domain. *)
LEMMA SumFunctionChange ==
  ASSUME NEW f, IsFiniteSet(DOMAIN f), NEW e, DOMAIN e = DOMAIN f, NEW a \in DOMAIN f,
         \A x \in DOMAIN f : f[x] \in Int /\ e[x] \in Int,
         \A x \in DOMAIN f \ {a} : e[x] = f[x],
         NEW d, e[a] - f[a] = d
  PROVE  SumFunction(e) = SumFunction(f) + d
BY SumChange DEF SumFunction

LEMMA SumFunctionNat ==
  ASSUME NEW f, IsFiniteSet(DOMAIN f), \A x \in DOMAIN f : f[x] \in Nat
  PROVE  SumFunction(f) \in Nat
BY SumNat DEF SumFunction

LEMMA SumFunctionExtend ==
  ASSUME NEW f, NEW e, IsFiniteSet(DOMAIN e), DOMAIN f \subseteq DOMAIN e,
         \A x \in DOMAIN f : f[x] \in Int /\ e[x] = f[x],
         \A x \in DOMAIN e \ DOMAIN f : e[x] = 0
  PROVE  SumFunction(e) = SumFunction(f)
<1>1. IsFiniteSet(DOMAIN f)
  BY FS_Subset
<1>2. SumFunctionOnSet(e, DOMAIN e) = SumFunctionOnSet(e, DOMAIN f)
  <2>1. \A x \in DOMAIN e : e[x] \in Int
    OBVIOUS
  <2> QED BY <2>1, SumOfSupport
<1>3. SumFunctionOnSet(e, DOMAIN f) = SumFunctionOnSet(f, DOMAIN f)
  BY <1>1, SumAgree
<1> QED BY <1>2, <1>3 DEF SumFunction

(* Sums and multiples go through a sum. *)
LEMMA SumCombine ==
  ASSUME NEW S, IsFiniteSet(S), NEW k \in Int, NEW f, NEW e, NEW d,
         \A x \in S : f[x] \in Int /\ e[x] \in Int /\ d[x] = k * f[x] + e[x]
  PROVE  SumFunctionOnSet(d, S) = k * SumFunctionOnSet(f, S) + SumFunctionOnSet(e, S)
<1> DEFINE F == [T \in SUBSET S |-> SumFunctionOnSet(f, T)]
           E == [T \in SUBSET S |-> SumFunctionOnSet(e, T)]
           D == [T \in SUBSET S |-> SumFunctionOnSet(d, T)]
           Bad == {T \in SUBSET S : D[T] # k * F[T] + E[T]}
<1>0. /\ \A a, b \in Int : k * (a + b) = k * a + k * b
      /\ \A a \in Int : k * a \in Int
      /\ k * 0 = 0
  OBVIOUS
<1>1. ASSUME Bad # {} PROVE FALSE
  <2>1. PICK T \in Bad : \A U \in Bad : ~ (U \subseteq T /\ U # T)
    <3> HIDE DEF Bad
    <3>1. Bad \in SUBSET SUBSET S
      BY DEF Bad
    <3> QED BY <1>1, <3>1, LeastSubset
  <2>2. IsFiniteSet(T)
    BY FS_Subset
  <2>3. T # {}
    <3> SUFFICES ASSUME T = {} PROVE FALSE
      OBVIOUS
    <3>1. F[T] = 0 /\ E[T] = 0 /\ D[T] = 0
      BY SumEmpty
    <3> QED BY <1>0, <2>1, <3>1
  <2>4. PICK x \in T : TRUE
    BY <2>3
  <2> DEFINE R == T \ {x}
  <2>5. IsFiniteSet(R) /\ R \in SUBSET S
    BY <2>2, FS_RemoveElement
  <2>6. D[R] = k * F[R] + E[R]
    BY <2>1, <2>4, <2>5
  <2>7. f[x] \in Int /\ e[x] \in Int /\ d[x] = k * f[x] + e[x]
    OBVIOUS
  <2>8. \A y \in T : f[y] \in Int /\ e[y] \in Int /\ d[y] \in Int
    BY <1>0
  <2>9. F[T] = f[x] + F[R] /\ E[T] = e[x] + E[R] /\ D[T] = d[x] + D[R]
    BY <2>2, <2>5, <2>8, SumRemove
  <2>10. F[R] \in Int /\ E[R] \in Int
    BY <2>5, SumInt
  <2>11. D[T] # k * F[T] + E[T]
    BY <2>1
  <2> DEFINE a == f[x]
             b == F[R]
  <2>12. k * (a + b) = k * a + k * b /\ k * a \in Int /\ k * b \in Int
    <3>1. a \in Int /\ b \in Int
      BY <2>7, <2>10
    <3> HIDE DEF a, b
    <3> QED BY <1>0, <3>1
  <2>13. D[T] = (k * a + e[x]) + (k * b + E[R])
    BY <2>6, <2>7, <2>9
  <2>14. k * F[T] + E[T] = (k * a + k * b) + (e[x] + E[R])
    BY <2>9, <2>12
  <2>15. \A p, q, r, s \in Int : (p + r) + (q + s) = (p + q) + (r + s)
    OBVIOUS
  <2>16. (k * a + e[x]) + (k * b + E[R]) = (k * a + k * b) + (e[x] + E[R])
    <3> HIDE DEF E, R, a, b
    <3> QED BY <2>7, <2>10, <2>12, <2>15
  <2> QED BY <2>11, <2>13, <2>14, <2>16
<1>2. Bad = {}
  BY <1>1
<1>3. S \in SUBSET S /\ S \notin Bad
  BY <1>2
<1> QED BY <1>3

(* A part counts no more than the whole. *)
LEMMA SumPart ==
  ASSUME NEW S, IsFiniteSet(S), NEW f, \A x \in S : f[x] \in Nat, NEW a \in S
  PROVE  f[a] <= SumFunctionOnSet(f, S)
<1>1. IsFiniteSet(S \ {a})
  BY FS_RemoveElement
<1>2. SumFunctionOnSet(f, S \ {a}) \in Nat
  BY <1>1, SumNat
<1>3. SumFunctionOnSet(f, S) = f[a] + SumFunctionOnSet(f, S \ {a})
  BY SumRemove
<1> QED BY <1>2, <1>3

(* The sum of terms that are cut at m is at least the sum cut at m. *)
LEMMA SumCapped ==
  ASSUME NEW S, IsFiniteSet(S), NEW m \in Nat, NEW f, NEW e,
         \A x \in S : f[x] \in Nat /\ e[x] \in Nat /\ (e[x] >= f[x] \/ e[x] >= m)
  PROVE  SumFunctionOnSet(e, S) >= SumFunctionOnSet(f, S) \/ SumFunctionOnSet(e, S) >= m
<1>1. SumFunctionOnSet(e, S) \in Nat
  BY SumNat
<1>2. ASSUME NEW x \in S, e[x] >= m
      PROVE  SumFunctionOnSet(e, S) >= m
  <2>1. e[x] <= SumFunctionOnSet(e, S)
    BY SumPart
  <2>2. e[x] \in Nat
    OBVIOUS
  <2> QED BY <1>1, <1>2, <2>1, <2>2
<1>3. ASSUME \A x \in S : ~ (e[x] >= m)
      PROVE  SumFunctionOnSet(f, S) <= SumFunctionOnSet(e, S)
  <2>1. \A x \in S : f[x] \in Int /\ e[x] \in Int /\ f[x] <= e[x]
    BY <1>3
  <2> QED BY <2>1, SumMonotone
<1>4. SumFunctionOnSet(f, S) \in Nat
  BY SumNat
<1> QED BY <1>1, <1>2, <1>3, <1>4
=============================================================================
