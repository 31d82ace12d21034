---------------------------- MODULE WeightsProofs ----------------------------
(***************************************************************************)
(* The lemmas the proofs about the program rest on: finite sums, and what  *)
(* the operators of Weights return and how they are bounded.               *)
(*                                                                         *)
(* A sum is SumFunctionOnSet of the community module Functions, which      *)
(* folds "+" over a finite set in an order left to CHOOSE.  The induction  *)
(* theorems of the library are schemas over a predicate, so each induction *)
(* below is a least counterexample: the set of naturals that refute the    *)
(* claim has a least element, by LeastNatural.                             *)
(***************************************************************************)
EXTENDS Weights, FiniteSetTheorems, WellFoundedInduction, TLAPS
----------------------------------------------------------------------------
(* Sums. *)

\* The subsets of S with at most n elements.
UpTo(S, n) == { s \in SUBSET S : Cardinality(s) <= n }

\* g folds f over every set in Dom, taking out at each step the element that the
\* library's fold takes out.
IsFold(g, f, Dom) ==
    g = [ s \in Dom |-> IF s = {} THEN 0
                        ELSE f[CHOOSE x \in s : TRUE] + g[s \ {CHOOSE x \in s : TRUE}] ]

\* A non-empty set of naturals has a least element.
LEMMA LeastNatural ==
    ASSUME NEW T, T \subseteq Nat, T # {}
    PROVE  \E n \in T : \A j \in T : n <= j
<1> DEFINE R == OpToRel(<, Nat)
<1>1. IsWellFoundedOn(R, Nat)
  BY NatLessThanWellFounded, Zenon
<1>2. \A i, j \in Nat : i < j => <<i, j>> \in R
  BY DEF OpToRel
<1> HIDE DEF R
<1>3. PICK n \in T : \A j \in T : ~(<<j, n>> \in R)
  BY <1>1, WFMin
<1>4. \A j \in T : ~(j < n)
  BY <1>2, <1>3
<1> QED
  BY <1>4

\* Taking the chosen element out of a non-empty subset of a finite set gives a
\* smaller subset.
LEMMA TakeOut ==
    ASSUME NEW S, IsFiniteSet(S), NEW s \in SUBSET S, s # {}
    PROVE  LET x == CHOOSE y \in s : TRUE IN
           /\ x \in s
           /\ s \ {x} \in SUBSET S
           /\ IsFiniteSet(s)
           /\ Cardinality(s) \in Nat
           /\ Cardinality(s \ {x}) \in Nat
           /\ Cardinality(s \ {x}) = Cardinality(s) - 1
<1> DEFINE x == CHOOSE y \in s : TRUE
<1>1. x \in s
  OBVIOUS
<1>2. IsFiniteSet(s)
  BY FS_Subset
<1>3. Cardinality(s \ {x}) = Cardinality(s) - 1 /\ IsFiniteSet(s \ {x})
  BY <1>1, <1>2, FS_RemoveElement
<1>4. Cardinality(s) \in Nat /\ Cardinality(s \ {x}) \in Nat
  BY <1>2, <1>3, FS_CardinalityType
<1> QED
  BY <1>1, <1>2, <1>3, <1>4

\* The recursive function of the fold exists.
LEMMA FoldExists ==
    ASSUME NEW S, IsFiniteSet(S), NEW f
    PROVE  \E g : IsFold(g, f, SUBSET S)
<1> DEFINE Bad == { n \in Nat : ~ \E g : IsFold(g, f, UpTo(S, n)) }
<1>1. Bad = {}
  <2>1. SUFFICES ASSUME NEW k \in Bad PROVE FALSE
    OBVIOUS
  <2>2. PICK n \in Bad : \A j \in Bad : n <= j
    BY <2>1, LeastNatural
  <2>3. CASE n = 0
    <3> DEFINE h == [ s \in UpTo(S, 0) |-> 0 ]
    <3>1. \A s \in UpTo(S, 0) : s = {}
      BY FS_Subset, FS_CardinalityType, FS_EmptySet DEF UpTo
    <3>2. IsFold(h, f, UpTo(S, 0))
      BY <3>1 DEF IsFold
    <3> QED
      BY <2>3, <3>2
  <2>4. CASE n # 0
    <3>1. n - 1 \in Nat /\ n - 1 \notin Bad
      BY <2>2, <2>4
    <3>2. PICK g : IsFold(g, f, UpTo(S, n - 1))
      BY <3>1
    <3> DEFINE Step(s) == IF s = {} THEN 0
                 ELSE f[CHOOSE x \in s : TRUE] + g[s \ {CHOOSE x \in s : TRUE}]
               h == [ s \in UpTo(S, n) |-> Step(s) ]
    <3>3. \A s \in UpTo(S, n - 1) : h[s] = g[s] /\ s \in UpTo(S, n)
      <4>1. SUFFICES ASSUME NEW s \in UpTo(S, n - 1) PROVE h[s] = g[s] /\ s \in UpTo(S, n)
        OBVIOUS
      <4>2. s \in UpTo(S, n)
        BY <3>1, FS_Subset, FS_CardinalityType DEF UpTo
      <4>3. g[s] = Step(s)
        BY <3>2 DEF IsFold
      <4> QED
        BY <4>2, <4>3
    <3>4. \A s \in UpTo(S, n) :
             s # {} => s \ {CHOOSE x \in s : TRUE} \in UpTo(S, n - 1)
      BY TakeOut DEF UpTo
    <3>5. IsFold(h, f, UpTo(S, n))
      <4>1. \A s \in UpTo(S, n) :
               Step(s) = IF s = {} THEN 0
                         ELSE f[CHOOSE x \in s : TRUE] + h[s \ {CHOOSE x \in s : TRUE}]
        BY <3>3, <3>4
      <4> HIDE DEF Step
      <4> QED
        BY <4>1 DEF IsFold
    <3> QED
      BY <2>2, <3>5
  <2> QED
    BY <2>3, <2>4
<1>2. UpTo(S, Cardinality(S)) = SUBSET S
  BY FS_Subset DEF UpTo
<1>3. Cardinality(S) \in Nat
  BY FS_CardinalityType
<1>4. \E g : IsFold(g, f, UpTo(S, Cardinality(S)))
  BY <1>1, <1>3
<1> QED
  BY <1>2, <1>4
\* SumFunctionOnSet is a fold over the subsets of its index set.
LEMMA SumIsFold ==
    ASSUME NEW S, IsFiniteSet(S), NEW f
    PROVE  \E g : IsFold(g, f, SUBSET S) /\ SumFunctionOnSet(f, S) = g[S]
<1> DEFINE g == CHOOSE h : IsFold(h, f, SUBSET S)
<1>1. IsFold(g, f, SUBSET S)
  BY FoldExists
<1>2. SumFunctionOnSet(f, S) = g[S]
  BY DEF SumFunctionOnSet, FoldFunctionOnSet, MapThenFoldSet, IsFold
<1> QED
  BY <1>1, <1>2

\* Folds of functions that agree give the same value on every common set.
LEMMA FoldsAgree ==
    ASSUME NEW S, IsFiniteSet(S), NEW T, IsFiniteSet(T), NEW f, NEW e, NEW g, NEW h,
           IsFold(g, f, SUBSET S), IsFold(h, e, SUBSET T),
           \A x \in S \cap T : f[x] = e[x]
    PROVE  \A s \in SUBSET (S \cap T) : g[s] = h[s]
<1> DEFINE Bad == { n \in Nat : \E s \in SUBSET (S \cap T) : Cardinality(s) = n /\ g[s] # h[s] }
<1>1. SUFFICES ASSUME Bad # {} PROVE FALSE
  <2>1. \A s \in SUBSET (S \cap T) : Cardinality(s) \in Nat
    BY FS_Subset, FS_CardinalityType
  <2> QED
    BY <1>1, <2>1
<1>2. PICK n \in Bad : \A j \in Bad : n <= j
  BY <1>1, LeastNatural
<1>3. PICK s \in SUBSET (S \cap T) : Cardinality(s) = n /\ g[s] # h[s]
  BY <1>2
<1>4. s # {}
  BY <1>3 DEF IsFold
<1> DEFINE x == CHOOSE y \in s : TRUE
<1>5. /\ x \in s
      /\ s \ {x} \in SUBSET (S \cap T)
      /\ Cardinality(s \ {x}) \in Nat
      /\ Cardinality(s \ {x}) = Cardinality(s) - 1
  BY <1>4, TakeOut
<1>6. g[s \ {x}] = h[s \ {x}]
  BY <1>2, <1>3, <1>5
<1>7. g[s] = f[x] + g[s \ {x}] /\ h[s] = e[x] + h[s \ {x}]
  BY <1>4 DEF IsFold
<1> QED
  BY <1>3, <1>5, <1>6, <1>7

\* Every value of a fold of a natural-valued function is a natural, and any element
\* may be taken out first.
LEMMA FoldTake ==
    ASSUME NEW S, IsFiniteSet(S), NEW f, NEW g, IsFold(g, f, SUBSET S),
           \A x \in S : f[x] \in Nat
    PROVE  \A s \in SUBSET S :
              g[s] \in Nat /\ \A y \in s : g[s] = f[y] + g[s \ {y}]
<1> DEFINE OK(s)  == g[s] \in Nat /\ \A y \in s : g[s] = f[y] + g[s \ {y}]
           Bad    == { n \in Nat : \E s \in SUBSET S : Cardinality(s) = n /\ ~OK(s) }
<1>1. SUFFICES ASSUME Bad # {} PROVE FALSE
  <2>1. \A s \in SUBSET S : Cardinality(s) \in Nat
    BY FS_Subset, FS_CardinalityType
  <2> QED
    BY <1>1, <2>1
<1>2. PICK n \in Bad : \A j \in Bad : n <= j
  BY <1>1, LeastNatural
<1>3. PICK s \in SUBSET S : Cardinality(s) = n /\ ~OK(s)
  BY <1>2
<1>4. \A t \in SUBSET S : Cardinality(t) \in Nat /\ Cardinality(t) < n => OK(t)
  BY <1>2
<1>5. s # {}
  BY <1>3 DEF IsFold
<1> DEFINE x == CHOOSE y \in s : TRUE
<1>6. /\ x \in s
      /\ s \ {x} \in SUBSET S
      /\ Cardinality(s \ {x}) \in Nat
      /\ Cardinality(s \ {x}) = Cardinality(s) - 1
      /\ IsFiniteSet(s)
      /\ Cardinality(s) \in Nat
  BY <1>5, TakeOut
<1>7. g[s] = f[x] + g[s \ {x}]
  BY <1>5 DEF IsFold
<1>8. OK(s \ {x})
  BY <1>3, <1>4, <1>6
<1>9. g[s] \in Nat
  BY <1>6, <1>7, <1>8
<1>10. ASSUME NEW y \in s PROVE g[s] = f[y] + g[s \ {y}]
  <2>1. CASE y = x
    BY <1>7, <2>1
  <2>2. CASE y # x
    <3>1. (s \ {x}) \ {y} = (s \ {y}) \ {x}
      OBVIOUS
    <3>2. Cardinality(s \ {y}) = Cardinality(s) - 1 /\ Cardinality(s \ {y}) \in Nat
      BY <1>6, FS_RemoveElement, FS_CardinalityType
    <3>3. OK(s \ {y})
      <4>1. s \ {y} \in SUBSET S /\ Cardinality(s \ {y}) < n
        BY <1>3, <1>6, <3>2
      <4> HIDE DEF OK
      <4> QED
        BY <1>4, <3>2, <4>1
    <3>4. g[s \ {x}] = f[y] + g[(s \ {x}) \ {y}]
      BY <1>8, <2>2
    <3>5. g[s \ {y}] = f[x] + g[(s \ {y}) \ {x}]
      BY <1>6, <2>2, <3>3
    <3>6. g[(s \ {x}) \ {y}] \in Nat
      <4>1. (s \ {x}) \ {y} \in SUBSET S /\ IsFiniteSet(s \ {x})
        BY <1>6, FS_RemoveElement
      <4>2. Cardinality((s \ {x}) \ {y}) = Cardinality(s \ {x}) - 1
        BY <2>2, <4>1, FS_RemoveElement
      <4>3. Cardinality((s \ {x}) \ {y}) \in Nat
        BY <4>1, FS_RemoveElement, FS_CardinalityType
      <4> QED
        BY <1>3, <1>4, <1>6, <4>1, <4>2, <4>3
    <3>7. f[x] \in Nat /\ f[y] \in Nat
      BY <1>6
    <3>8. g[(s \ {x}) \ {y}] = g[(s \ {y}) \ {x}]
      BY <3>1, Zenon
    <3> DEFINE c == g[(s \ {x}) \ {y}]
    <3>9. g[s] = f[x] + (f[y] + c) /\ g[s \ {y}] = f[x] + c
      BY <1>7, <3>4, <3>5, <3>8, Zenon
    <3> HIDE DEF c, x
    <3> QED
      BY <3>6, <3>7, <3>9 DEF c
  <2> QED
    BY <2>1, <2>2
<1> QED
  BY <1>3, <1>9, <1>10
----------------------------------------------------------------------------
(* The facts the other modules use. *)

\* The empty sum.
LEMMA SumEmpty ==
    ASSUME NEW f
    PROVE  SumFunctionOnSet(f, {}) = 0
<1>1. PICK g : IsFold(g, f, SUBSET {}) /\ SumFunctionOnSet(f, {}) = g[{}]
  BY FS_EmptySet, SumIsFold
<1> QED
  BY <1>1 DEF IsFold

\* A sum of naturals is a natural.
LEMMA SumNat ==
    ASSUME NEW S, IsFiniteSet(S), NEW f, \A x \in S : f[x] \in Nat
    PROVE  SumFunctionOnSet(f, S) \in Nat
<1>1. PICK g : IsFold(g, f, SUBSET S) /\ SumFunctionOnSet(f, S) = g[S]
  BY SumIsFold
<1>2. \A s \in SUBSET S : g[s] \in Nat
  BY <1>1, FoldTake
<1> QED
  BY <1>1, <1>2

\* A sum depends only on the values at its indices.
LEMMA SumSame ==
    ASSUME NEW S, IsFiniteSet(S), NEW f, NEW e, \A x \in S : f[x] = e[x]
    PROVE  SumFunctionOnSet(f, S) = SumFunctionOnSet(e, S)
<1>1. PICK g : IsFold(g, f, SUBSET S) /\ SumFunctionOnSet(f, S) = g[S]
  BY SumIsFold
<1>2. PICK h : IsFold(h, e, SUBSET S) /\ SumFunctionOnSet(e, S) = h[S]
  BY SumIsFold
<1> QED
  BY <1>1, <1>2, FoldsAgree

\* Any index may be taken out of a sum.
LEMMA SumTake ==
    ASSUME NEW S, IsFiniteSet(S), NEW f, \A x \in S : f[x] \in Nat, NEW y \in S
    PROVE  /\ SumFunctionOnSet(f, S) = f[y] + SumFunctionOnSet(f, S \ {y})
           /\ SumFunctionOnSet(f, S \ {y}) \in Nat
<1>0. IsFiniteSet(S \ {y})
  BY FS_RemoveElement
<1>1. PICK g : IsFold(g, f, SUBSET S) /\ SumFunctionOnSet(f, S) = g[S]
  BY SumIsFold
<1>2. PICK h : IsFold(h, f, SUBSET (S \ {y})) /\ SumFunctionOnSet(f, S \ {y}) = h[S \ {y}]
  BY <1>0, SumIsFold
<1>3. g[S] = f[y] + g[S \ {y}]
  BY <1>1, FoldTake
<1>4. g[S \ {y}] = h[S \ {y}]
  <2> DEFINE T == S \ {y}
  <2>0. IsFiniteSet(T) /\ IsFold(h, f, SUBSET T) /\ IsFold(g, f, SUBSET S)
    BY <1>0, <1>1, <1>2
  <2>1. \A s \in SUBSET (S \cap T) : g[s] = h[s]
    <3> HIDE DEF T
    <3> QED
      BY <2>0, FoldsAgree
  <2> QED
    BY <2>1
<1>5. SumFunctionOnSet(f, S \ {y}) \in Nat
  BY <1>0, SumNat
<1> QED
  BY <1>1, <1>2, <1>3, <1>4, <1>5

\* Changing one summand changes the sum by as much.
LEMMA SumUpdate ==
    ASSUME NEW S, IsFiniteSet(S), NEW f, NEW e, NEW y \in S,
           \A x \in S : f[x] \in Nat /\ e[x] \in Nat,
           \A x \in S \ {y} : e[x] = f[x]
    PROVE  /\ SumFunctionOnSet(e, S) = SumFunctionOnSet(f, S) - f[y] + e[y]
           /\ SumFunctionOnSet(f, S) \in Nat
           /\ SumFunctionOnSet(e, S) \in Nat
<1>1. IsFiniteSet(S \ {y})
  BY FS_RemoveElement
<1>2. SumFunctionOnSet(f, S \ {y}) = SumFunctionOnSet(e, S \ {y})
  BY <1>1, SumSame
<1>3. /\ SumFunctionOnSet(f, S) = f[y] + SumFunctionOnSet(f, S \ {y})
      /\ SumFunctionOnSet(f, S \ {y}) \in Nat
  BY SumTake
<1>4. SumFunctionOnSet(e, S) = e[y] + SumFunctionOnSet(e, S \ {y})
  BY SumTake
<1> QED
  BY <1>2, <1>3, <1>4

\* A sum of zeros is zero.
LEMMA SumZero ==
    ASSUME NEW S, IsFiniteSet(S), NEW f, \A x \in S : f[x] = 0
    PROVE  SumFunctionOnSet(f, S) = 0
<1>1. PICK g : IsFold(g, f, SUBSET S) /\ SumFunctionOnSet(f, S) = g[S]
  BY SumIsFold
<1> DEFINE z == [ s \in SUBSET S |-> 0 ]
<1>2. IsFold(z, f, SUBSET S)
  BY TakeOut DEF IsFold
<1> HIDE DEF z
<1>3. g[S] = z[S]
  BY <1>1, <1>2, FoldsAgree
<1> QED
  BY <1>1, <1>3 DEF z
----------------------------------------------------------------------------
(* Sums that are compared, and sums over pairs. *)

\* A non-empty family of subsets of a finite set has a member from which no element
\* can be taken without leaving the family.
LEMMA LeastSubset ==
    ASSUME NEW S, IsFiniteSet(S), NEW F, F \subseteq SUBSET S, F # {}
    PROVE  \E s \in F : IsFiniteSet(s) /\ \A x \in s : s \ {x} \notin F
<1> DEFINE N == { Cardinality(s) : s \in F }
<1>1. \A s \in F : IsFiniteSet(s) /\ Cardinality(s) \in Nat
  BY FS_Subset, FS_CardinalityType
<1>2. N \subseteq Nat /\ N # {}
  BY <1>1
<1>3. PICK n \in N : \A j \in N : n <= j
  BY <1>2, LeastNatural
<1>4. PICK s \in F : Cardinality(s) = n
  BY <1>3
<1>5. ASSUME NEW x \in s PROVE s \ {x} \notin F
  <2>1. Cardinality(s \ {x}) = Cardinality(s) - 1
    BY <1>1, FS_RemoveElement
  <2> QED
    BY <1>1, <1>3, <1>4, <2>1
<1> QED
  BY <1>1, <1>5

\* Indices whose summand is zero may be left out.
LEMMA SumSupport ==
    ASSUME NEW S, IsFiniteSet(S), NEW W \in SUBSET S, NEW f,
           \A x \in S : f[x] \in Nat, \A x \in S \ W : f[x] = 0
    PROVE  SumFunctionOnSet(f, S) = SumFunctionOnSet(f, W)
<1> DEFINE Bad == { s \in SUBSET S :
                      W \subseteq s /\ SumFunctionOnSet(f, s) # SumFunctionOnSet(f, W) }
<1>1. SUFFICES ASSUME Bad # {} PROVE FALSE
  BY <1>1
<1>2. PICK s \in Bad : IsFiniteSet(s) /\ \A x \in s : s \ {x} \notin Bad
  <2>1. Bad \subseteq SUBSET S
    OBVIOUS
  <2> HIDE DEF Bad
  <2> QED
    BY <1>1, <2>1, LeastSubset
<1>3. PICK y \in s \ W : TRUE
  BY <1>2
<1>4. SumFunctionOnSet(f, s \ {y}) = SumFunctionOnSet(f, W)
  BY <1>2, <1>3
<1>5. /\ SumFunctionOnSet(f, s) = f[y] + SumFunctionOnSet(f, s \ {y})
      /\ SumFunctionOnSet(f, s \ {y}) \in Nat
  BY <1>2, <1>3, SumTake
<1>6. f[y] = 0
  BY <1>2, <1>3
<1> QED
  BY <1>2, <1>4, <1>5, <1>6

\* If every summand of e is at most c/d times that of f, so is the sum.
LEMMA SumScale ==
    ASSUME NEW S, IsFiniteSet(S), NEW f, NEW e, NEW c \in Nat, NEW d \in Nat,
           \A x \in S : f[x] \in Nat /\ e[x] \in Nat /\ e[x] * d <= f[x] * c
    PROVE  SumFunctionOnSet(e, S) * d <= SumFunctionOnSet(f, S) * c
<1> DEFINE E(s) == SumFunctionOnSet(e, s)
           G(s) == SumFunctionOnSet(f, s)
           Bad  == { s \in SUBSET S : ~(E(s) * d <= G(s) * c) }
<1>1. SUFFICES ASSUME Bad # {} PROVE FALSE
  BY <1>1
<1>2. PICK s \in Bad : IsFiniteSet(s) /\ \A x \in s : s \ {x} \notin Bad
  BY <1>1, LeastSubset
<1>3. CASE s = {}
  BY <1>2, <1>3, SumEmpty
<1>4. CASE s # {}
  <2>1. PICK y \in s : TRUE
    BY <1>4
  <2>2. E(s \ {y}) * d <= G(s \ {y}) * c
    BY <1>2, <2>1
  <2>3. E(s) = e[y] + E(s \ {y}) /\ E(s \ {y}) \in Nat
    BY <1>2, <2>1, SumTake
  <2>4. G(s) = f[y] + G(s \ {y}) /\ G(s \ {y}) \in Nat
    BY <1>2, <2>1, SumTake
  <2>5. y \in S /\ e[y] \in Nat /\ f[y] \in Nat /\ e[y] * d <= f[y] * c
    BY <1>2, <2>1
  <2> DEFINE a == E(s \ {y})
             b == G(s \ {y})
             p == e[y]
             q == f[y]
  <2>6. a \in Nat /\ b \in Nat /\ p \in Nat /\ q \in Nat /\ a * d <= b * c /\ p * d <= q * c
    BY <2>2, <2>3, <2>4, <2>5
  <2>7. E(s) = p + a /\ G(s) = q + b
    BY <2>3, <2>4
  <2> HIDE DEF a, b, p, q, E, G
  <2>8. (p + a) * d <= (q + b) * c
    BY <2>6
  <2> QED
    BY <1>2, <2>7, <2>8
<1> QED
  BY <1>3, <1>4

\* Adding one to every summand adds the number of summands.
LEMMA SumSuccessors ==
    ASSUME NEW S, IsFiniteSet(S), NEW f, NEW g, \A x \in S : f[x] \in Nat /\ g[x] = f[x] + 1
    PROVE  SumFunctionOnSet(g, S) = SumFunctionOnSet(f, S) + Cardinality(S)
<1> DEFINE F(s) == SumFunctionOnSet(f, s)
           G(s) == SumFunctionOnSet(g, s)
           Bad  == { s \in SUBSET S : G(s) # F(s) + Cardinality(s) }
<1>1. SUFFICES ASSUME Bad # {} PROVE FALSE
  BY <1>1
<1>2. PICK s \in Bad : IsFiniteSet(s) /\ \A x \in s : s \ {x} \notin Bad
  BY <1>1, LeastSubset
<1>3. CASE s = {}
  BY <1>2, <1>3, SumEmpty, FS_EmptySet
<1>4. CASE s # {}
  <2>1. PICK y \in s : TRUE
    BY <1>4
  <2>2. G(s \ {y}) = F(s \ {y}) + Cardinality(s \ {y})
    BY <1>2, <2>1
  <2>3. F(s) = f[y] + F(s \ {y}) /\ F(s \ {y}) \in Nat
    BY <1>2, <2>1, SumTake
  <2>4. G(s) = g[y] + G(s \ {y}) /\ G(s \ {y}) \in Nat
    BY <1>2, <2>1, SumTake
  <2>5. f[y] \in Nat /\ g[y] = f[y] + 1
    BY <1>2, <2>1
  <2>6. Cardinality(s \ {y}) = Cardinality(s) - 1 /\ Cardinality(s) \in Nat
    BY <1>2, <2>1, FS_RemoveElement, FS_CardinalityType
  <2>7. G(s) # F(s) + Cardinality(s)
    BY <1>2
  <2> HIDE DEF F, G
  <2> QED
    BY <2>2, <2>3, <2>4, <2>5, <2>6, <2>7
<1> QED
  BY <1>3, <1>4

\* If no summand exceeds c, the sum does not exceed c for each of them.
LEMMA SumAtMost ==
    ASSUME NEW S, IsFiniteSet(S), NEW f, NEW c \in Nat, \A x \in S : f[x] \in Nat /\ f[x] <= c
    PROVE  SumFunctionOnSet(f, S) <= Cardinality(S) * c
<1> DEFINE zero == [ x \in S |-> 0 ]
           one  == [ x \in S |-> 1 ]
<1>1. /\ \A x \in S : zero[x] \in Nat /\ one[x] = zero[x] + 1 /\ zero[x] = 0 /\ one[x] = 1
  OBVIOUS
<1> HIDE DEF zero, one
<1>2. SumFunctionOnSet(one, S) = SumFunctionOnSet(zero, S) + Cardinality(S)
  BY <1>1, SumSuccessors
<1>3. SumFunctionOnSet(zero, S) = 0 /\ Cardinality(S) \in Nat
  BY <1>1, SumZero, FS_CardinalityType
<1>4. SumFunctionOnSet(f, S) * 1 <= SumFunctionOnSet(one, S) * c
  <2>1. \A x \in S : one[x] \in Nat /\ f[x] \in Nat /\ f[x] * 1 <= one[x] * c
    BY <1>1
  <2>2. 1 \in Nat
    OBVIOUS
  <2> QED
    BY <2>1, <2>2, SumScale
<1>5. SumFunctionOnSet(f, S) \in Nat
  BY SumNat
<1> QED
  BY <1>2, <1>3, <1>4, <1>5

\* Adding the pairs <<a, y>> of a new column y adds that column's sum.
LEMMA SumColumn ==
    ASSUME NEW A, IsFiniteSet(A), NEW R, IsFiniteSet(R), NEW y, y \notin R, NEW f,
           \A p \in A \X (R \cup {y}) : f[p] \in Nat
    PROVE  SumFunctionOnSet(f, A \X (R \cup {y}))
             = SumFunctionOnSet(f, A \X R)
               + SumFunctionOnSet([ a \in A |-> f[<<a, y>>] ], A)
<1> DEFINE row    == [ a \in A |-> f[<<a, y>>] ]
           Set(t) == (A \X R) \cup (t \X {y})
           OK(t)  == SumFunctionOnSet(f, Set(t))
                       = SumFunctionOnSet(f, A \X R) + SumFunctionOnSet(row, t)
           Bad    == { t \in SUBSET A : ~OK(t) }
<1>1. IsFiniteSet(A \X R) /\ SumFunctionOnSet(f, A \X R) \in Nat
  <2>1. IsFiniteSet(A \X R)
    BY FS_Product
  <2> QED
    BY <2>1, SumNat
<1>2. ASSUME NEW t \in SUBSET A PROVE IsFiniteSet(Set(t)) /\ IsFiniteSet(t)
  <2>1. IsFiniteSet(t) /\ IsFiniteSet({y})
    BY FS_Subset, FS_Singleton
  <2>2. IsFiniteSet(t \X {y})
    BY <2>1, FS_Product
  <2> QED
    BY <1>1, <2>1, <2>2, FS_Union
<1>3. Bad = {}
  <2>1. SUFFICES ASSUME Bad # {} PROVE FALSE
    OBVIOUS
  <2>2. PICK t \in Bad : \A x \in t : t \ {x} \notin Bad
    BY <2>1, LeastSubset
  <2>3. CASE t = {}
    <3>1. Set({}) = A \X R
      OBVIOUS
    <3>2. SumFunctionOnSet(row, {}) = 0
      BY SumEmpty
    <3> QED
      BY <1>1, <2>2, <2>3, <3>1, <3>2
  <2>4. CASE t # {}
    <3>1. PICK x \in t : TRUE
      BY <2>4
    <3>2. t \in SUBSET A /\ x \in A /\ t \ {x} \in SUBSET A
      BY <2>2, <3>1
    <3>3. OK(t \ {x})
      BY <2>2, <3>1, <3>2
    <3>4. Set(t) \ {<<x, y>>} = Set(t \ {x}) /\ <<x, y>> \in Set(t)
      BY <3>1, <3>2
    <3>5. SumFunctionOnSet(f, Set(t))
            = f[<<x, y>>] + SumFunctionOnSet(f, Set(t) \ {<<x, y>>})
      <4>1. IsFiniteSet(Set(t)) /\ \A p \in Set(t) : f[p] \in Nat
        BY <1>2, <3>2
      <4> HIDE DEF Set
      <4> QED
        BY <3>4, <4>1, SumTake
    <3>6. /\ SumFunctionOnSet(row, t) = row[x] + SumFunctionOnSet(row, t \ {x})
          /\ SumFunctionOnSet(row, t \ {x}) \in Nat
      <4>1. IsFiniteSet(t) /\ \A a \in t : row[a] \in Nat
        BY <1>2, <3>2
      <4> HIDE DEF row
      <4> QED
        BY <3>1, <4>1, SumTake
    <3>7. row[x] = f[<<x, y>>] /\ f[<<x, y>>] \in Nat
      BY <3>2
    <3>8. ~OK(t)
      BY <2>2
    <3> HIDE DEF row, Set
    <3>9. SumFunctionOnSet(f, Set(t) \ {<<x, y>>})
            = SumFunctionOnSet(f, A \X R) + SumFunctionOnSet(row, t \ {x})
      BY <3>3, <3>4
    <3> QED
      BY <1>1, <3>5, <3>6, <3>7, <3>8, <3>9
  <2> QED
    BY <2>3, <2>4
<1>4. OK(A)
  BY <1>3
<1>5. Set(A) = A \X (R \cup {y})
  OBVIOUS
<1> QED
  BY <1>4, <1>5

\* A sum over pairs is the sum of its columns' sums.
LEMMA SumPairs ==
    ASSUME NEW A, IsFiniteSet(A), NEW B, IsFiniteSet(B), NEW f,
           \A p \in A \X B : f[p] \in Nat
    PROVE  SumFunctionOnSet(f, A \X B)
             = SumFunctionOnSet([ b \in B |->
                   SumFunctionOnSet([ a \in A |-> f[<<a, b>>] ], A) ], B)
<1> DEFINE col   == [ b \in B |-> SumFunctionOnSet([ a \in A |-> f[<<a, b>>] ], A) ]
           OK(s) == SumFunctionOnSet(f, A \X s) = SumFunctionOnSet(col, s)
           Bad   == { s \in SUBSET B : ~OK(s) }
<1>1. \A b \in B : col[b] \in Nat
  <2>1. SUFFICES ASSUME NEW b \in B PROVE col[b] \in Nat
    OBVIOUS
  <2> DEFINE row == [ a \in A |-> f[<<a, b>>] ]
  <2>2. \A a \in A : row[a] \in Nat
    OBVIOUS
  <2> HIDE DEF row
  <2>3. SumFunctionOnSet(row, A) \in Nat
    BY <2>2, SumNat
  <2> QED
    BY <2>3 DEF row
<1>2. SUFFICES ASSUME Bad # {} PROVE FALSE
  BY <1>2
<1>3. PICK s \in Bad : IsFiniteSet(s) /\ \A x \in s : s \ {x} \notin Bad
  BY <1>2, LeastSubset
<1>4. CASE s = {}
  <2>1. A \X s = {}
    BY <1>4
  <2> QED
    BY <1>3, <1>4, <2>1, SumEmpty
<1>5. CASE s # {}
  <2>1. PICK y \in s : TRUE
    BY <1>5
  <2> DEFINE R == s \ {y}
  <2>2. /\ s \in SUBSET B /\ y \in B /\ R \in SUBSET B
        /\ IsFiniteSet(R) /\ y \notin R /\ R \cup {y} = s
    BY <1>3, <2>1, FS_Subset
  <2>3. OK(R)
    BY <1>3, <2>1, <2>2
  <2>4. SumFunctionOnSet(f, A \X s)
          = SumFunctionOnSet(f, A \X R) + SumFunctionOnSet([ a \in A |-> f[<<a, y>>] ], A)
    <3>1. \A p \in A \X (R \cup {y}) : f[p] \in Nat
      BY <2>2
    <3> HIDE DEF R
    <3>2. SumFunctionOnSet(f, A \X (R \cup {y}))
            = SumFunctionOnSet(f, A \X R) + SumFunctionOnSet([ a \in A |-> f[<<a, y>>] ], A)
      BY <2>2, <3>1, SumColumn
    <3> QED
      BY <2>2, <3>2
  <2>5. SumFunctionOnSet([ a \in A |-> f[<<a, y>>] ], A) = col[y]
    BY <2>2
  <2> HIDE DEF col
  <2>6. /\ SumFunctionOnSet(col, s) = col[y] + SumFunctionOnSet(col, R)
        /\ SumFunctionOnSet(col, R) \in Nat
    BY <1>1, <1>3, <2>1, <2>2, SumTake
  <2>7. col[y] \in Nat
    BY <1>1, <2>2
  <2> HIDE DEF R
  <2> QED
    BY <1>3, <2>3, <2>4, <2>5, <2>6, <2>7
<1> QED
  BY <1>4, <1>5
----------------------------------------------------------------------------
(* The operators of Weights. *)

\* Integer division of naturals, as every share and weight of the program uses it.
LEMMA DivNat ==
    ASSUME NEW a \in Nat, NEW d \in Nat \ {0}
    PROVE  a \div d \in Nat /\ d * (a \div d) <= a
  OBVIOUS

\* Integer division rounds down, also below zero.
LEMMA Division ==
    ASSUME NEW a \in Int, NEW d \in Nat \ {0}
    PROVE  a \div d \in Int /\ d * (a \div d) <= a /\ a < d * (a \div d) + d
  OBVIOUS

\* The quotient is the only number that does so.
LEMMA QuotientUnique ==
    ASSUME NEW a \in Int, NEW d \in Nat \ {0}, NEW q \in Int, d * q <= a, a < d * q + d
    PROVE  a \div d = q
<1> DEFINE p == a \div d
<1>1. p \in Int /\ d * p <= a /\ a < d * p + d
  BY Division
<1> HIDE DEF p
<1>2. ~(p >= q + 1)
  <2>1. SUFFICES ASSUME p >= q + 1 PROVE FALSE
    OBVIOUS
  <2>2. d * p >= d * (q + 1)
    BY <1>1, <2>1
  <2> QED
    BY <1>1, <2>2
<1>3. ~(q >= p + 1)
  <2>1. SUFFICES ASSUME q >= p + 1 PROVE FALSE
    OBVIOUS
  <2>2. d * q >= d * (p + 1)
    BY <1>1, <2>1
  <2> QED
    BY <1>1, <2>2
<1> QED
  BY <1>1, <1>2, <1>3 DEF p

\* What fits into a number as a multiple is at most the quotient.
LEMMA QuotientMax ==
    ASSUME NEW a \in Int, NEW d \in Nat \ {0}, NEW q \in Int, d * q <= a
    PROVE  q <= a \div d
<1> DEFINE p == a \div d
<1>1. p \in Int /\ d * p <= a /\ a < d * p + d
  BY Division
<1> HIDE DEF p
<1>2. ~(q >= p + 1)
  <2>1. SUFFICES ASSUME q >= p + 1 PROVE FALSE
    OBVIOUS
  <2>2. d * q >= d * (p + 1)
    BY <1>1, <2>1
  <2> QED
    BY <1>1, <2>2
<1> QED
  BY <1>1, <1>2 DEF p

\* The products of the program are naturals.
LEMMA MulNat ==
    ASSUME NEW a \in Nat, NEW b \in Nat
    PROVE  a * b \in Nat
  OBVIOUS

\* A cast to u64 never raises a value.
LEMMA AsU64Type ==
    ASSUME NEW n \in Nat
    PROVE  AsU64(n) \in Nat /\ AsU64(n) <= n
  BY WeightConstants DEF AsU64

\* The distance of two buckets is a natural.
LEMMA DistanceType ==
    ASSUME NEW i \in Nat, NEW j \in Nat
    PROVE  Distance(i, j) \in Nat
  BY DEF Distance

\* A bucket array has finitely many cells.
LEMMA BucketsFinite == IsFiniteSet(Buckets) /\ IsFiniteSet(Playable) /\ Playable \subseteq Buckets
<1>1. IsFiniteSet(0..MaxBucket)
  <2>1. 0 \in Int /\ MaxBucket \in Int
    BY WeightConstants
  <2> QED
    BY <2>1, FS_Interval
<1>2. 1..MaxBucket \in SUBSET (0..MaxBucket)
  BY WeightConstants
<1>3. IsFiniteSet(1..MaxBucket)
  BY <1>1, <1>2, FS_Subset
<1> QED
  BY <1>1, <1>2, <1>3 DEF Buckets, Playable

\* A bet placed after betting started falls on one of the betting days.
LEMMA DayIndexType ==
    ASSUME NEW t \in Int, NEW start \in Int, t >= start
    PROVE  DayIndex(t, start) \in 0..BETTING_DURATION_DAYS - 1
<1> DEFINE day == (t - start) \div SECONDS_PER_DAY
<1>1. day \in Nat
  BY WeightConstants, DivNat
<1> HIDE DEF day
<1>2. (IF day < BETTING_DURATION_DAYS THEN day ELSE BETTING_DURATION_DAYS - 1)
         \in 0..BETTING_DURATION_DAYS - 1
  BY <1>1, WeightConstants
<1> QED
  BY <1>2 DEF DayIndex, day

\* A bet's weight on a betting day is a natural.
LEMMA WeightedAmountType ==
    ASSUME NEW amount \in Nat, NEW day \in 0..BETTING_DURATION_DAYS - 1
    PROVE  WeightedAmount(amount, day) \in Nat
<1>1. TimeMultiplier(day) \in Nat
  BY WeightConstants DEF TimeMultiplier
<1>2. amount * TimeMultiplier(day) \in Nat
  BY <1>1, MulNat
<1> QED
  BY <1>2, WeightConstants, DivNat DEF WeightedAmount

\* Saturation never raises a product.
LEMMA SaturatingMulType ==
    ASSUME NEW a \in Nat, NEW b \in Nat
    PROVE  SaturatingMul(a, b) \in Nat /\ SaturatingMul(a, b) <= a * b
<1>1. a * b \in Nat
  BY MulNat
<1> QED
  BY <1>1, WeightConstants DEF SaturatingMul

\* Only buckets that can be bet on win (cell 0 of an array never does).
LEMMA WinningInPlayable ==
    ASSUME NEW arr, NEW outcome, NEW radius
    PROVE  WinningBuckets(arr, outcome, radius) \subseteq Playable
  BY DEF WinningBuckets, Nearest, WithinRadius

\* The weight of a bucket in the distribution is a natural.
LEMMA BucketWeightType ==
    ASSUME NEW arr \in [Buckets -> Nat], NEW outcome \in Nat, NEW b \in Playable
    PROVE  BucketWeight(b, arr, outcome) \in Nat
<1>1. b \in Nat /\ arr[b] \in Nat
  BY BucketsFinite, WeightConstants DEF Buckets, Playable
<1>2. Distance(b, outcome) + 1 \in Nat \ {0}
  <2>1. Distance(b, outcome) \in Nat
    BY <1>1, DistanceType
  <2> QED
    BY <2>1
<1>3. ClosenessWeight(b, outcome) \in Nat
  BY <1>2, WeightConstants, DivNat DEF ClosenessWeight
<1> QED
  BY <1>1, <1>3, SaturatingMulType DEF BucketWeight

\* TBW is a natural, whatever the winning buckets.
LEMMA TotalBucketWeightType ==
    ASSUME NEW arr \in [Buckets -> Nat], NEW outcome \in Nat, NEW radius
    PROVE  TotalBucketWeight(arr, outcome, radius) \in Nat
<1> DEFINE W == WinningBuckets(arr, outcome, radius)
           f == [ i \in W |-> BucketWeight(i, arr, outcome) ]
<1>1. W \subseteq Playable /\ IsFiniteSet(W)
  BY WinningInPlayable, BucketsFinite, FS_Subset
<1>2. \A i \in W : f[i] \in Nat
  BY <1>1, BucketWeightType
<1> HIDE DEF W, f
<1>3. SumFunctionOnSet(f, W) \in Nat
  BY <1>1, <1>2, SumNat
<1> QED
  BY <1>3 DEF TotalBucketWeight, W, f

\* compute_bucket_prizes returns an array of naturals: it never divides by zero.
LEMMA BucketPrizesType ==
    ASSUME NEW arr \in [Buckets -> Nat], NEW outcome \in Nat, NEW radius, NEW total \in Nat
    PROVE  ComputeBucketPrizes(arr, outcome, radius, total) \in [Buckets -> Nat]
<1> DEFINE W   == WinningBuckets(arr, outcome, radius)
           tbw == TotalBucketWeight(arr, outcome, radius)
<1>1. ASSUME NEW i \in W, tbw > 0
      PROVE  BucketPrize(i, arr, outcome, radius, total) \in Nat
  <2>1. tbw \in Nat \ {0}
    BY <1>1, TotalBucketWeightType
  <2>2. BucketWeight(i, arr, outcome) \in Nat
    BY <1>1, WinningInPlayable, BucketWeightType
  <2>3. SaturatingMul(BucketWeight(i, arr, outcome), total) \in Nat
    BY <2>2, SaturatingMulType
  <2>4. SaturatingMul(BucketWeight(i, arr, outcome), total) \div tbw \in Nat
    BY <2>1, <2>3, DivNat
  <2> QED
    BY <2>4, AsU64Type DEF BucketPrize
<1> HIDE DEF W, tbw
<1>2. \A i \in Buckets :
        (IF i \in W /\ tbw > 0 THEN BucketPrize(i, arr, outcome, radius, total) ELSE 0) \in Nat
  BY <1>1
<1> QED
  BY <1>2 DEF ComputeBucketPrizes, W, tbw

\* calc_user_payout returns a natural.
LEMMA PayoutType ==
    ASSUME NEW w \in Nat, NEW b \in Buckets,
           NEW prize \in [Buckets -> Nat], NEW arr \in [Buckets -> Nat]
    PROVE  CalcUserPayout(w, b, prize, arr) \in Nat
<1>1. CASE arr[b] > 0 /\ prize[b] > 0
  <2>1. w * prize[b] \in Nat /\ arr[b] \in Nat \ {0}
    BY <1>1, MulNat
  <2>2. (w * prize[b]) \div arr[b] \in Nat
    BY <2>1, DivNat
  <2>3. AsU64((w * prize[b]) \div arr[b]) \in Nat
    BY <2>2, AsU64Type
  <2> QED
    BY <1>1, <2>3 DEF CalcUserPayout
<1>2. CASE ~(arr[b] > 0 /\ prize[b] > 0)
  BY <1>2 DEF CalcUserPayout
<1> QED
  BY <1>1, <1>2
----------------------------------------------------------------------------
(* Nothing is handed out twice: rounding down never makes up more than the whole. *)

\* A share rounded down, scaled up again, is at most what was shared.
LEMMA DivScale ==
    ASSUME NEW a \in Nat, NEW d \in Nat \ {0}, NEW q \in Nat, q <= a \div d
    PROVE  q * d <= a
<1>1. a \div d \in Nat /\ d * (a \div d) <= a
  BY DivNat
<1> DEFINE n == a \div d
<1>2. n \in Nat /\ d * n <= a /\ q <= n
  BY <1>1
<1> HIDE DEF n
<1>3. q * d <= n * d
  BY <1>2
<1> QED
  BY <1>2, <1>3

\* A common positive factor cancels.
LEMMA CancelFactor ==
    ASSUME NEW a \in Nat, NEW b \in Nat, NEW d \in Nat \ {0}, a * d <= d * b
    PROVE  a <= b
<1>1. SUFFICES ASSUME a >= b + 1 PROVE FALSE
  OBVIOUS
<1>2. a * d >= (b + 1) * d
  BY <1>1
<1>3. (b + 1) * d = d * b + d
  OBVIOUS
<1> QED
  BY <1>2, <1>3

\* The prizes of a resolved market never add up to more than its prize money, for
\* every pool, outcome and radius, and even where the u128 products saturate.
LEMMA PrizesWithinTotal ==
    ASSUME NEW arr \in [Buckets -> Nat], NEW outcome \in Nat, NEW radius, NEW total \in Nat
    PROVE  SumFunctionOnSet(ComputeBucketPrizes(arr, outcome, radius, total), Buckets) <= total
<1> DEFINE W     == WinningBuckets(arr, outcome, radius)
           tbw   == TotalBucketWeight(arr, outcome, radius)
           prize == ComputeBucketPrizes(arr, outcome, radius, total)
           f     == [ i \in W |-> BucketWeight(i, arr, outcome) ]
<1>1. W \in SUBSET Buckets /\ W \subseteq Playable /\ IsFiniteSet(W)
  BY WinningInPlayable, BucketsFinite, FS_Subset
<1>2. tbw \in Nat /\ prize \in [Buckets -> Nat]
  BY TotalBucketWeightType, BucketPrizesType
<1>3. \A i \in W : f[i] \in Nat /\ f[i] = BucketWeight(i, arr, outcome)
  BY <1>1, BucketWeightType
<1>4. tbw = SumFunctionOnSet(f, W)
  BY DEF TotalBucketWeight
<1>5. CASE tbw = 0
  <2>1. \A i \in Buckets : prize[i] = 0
    BY <1>5 DEF ComputeBucketPrizes
  <2> HIDE DEF prize
  <2>2. SumFunctionOnSet(prize, Buckets) = 0
    BY <2>1, BucketsFinite, SumZero
  <2> QED
    BY <2>2 DEF prize
<1>6. CASE tbw # 0
  <2>1. tbw \in Nat \ {0}
    BY <1>2, <1>6
  <2>2. \A i \in Buckets \ W : prize[i] = 0
    BY DEF ComputeBucketPrizes
  <2>3. ASSUME NEW i \in W PROVE prize[i] * tbw <= f[i] * total
    <3> DEFINE bw == BucketWeight(i, arr, outcome)
               a  == SaturatingMul(bw, total)
    <3>1. bw \in Nat /\ f[i] = bw
      BY <1>3
    <3>2. a \in Nat /\ a <= bw * total
      BY <3>1, SaturatingMulType
    <3>3. prize[i] = AsU64(a \div tbw)
      BY <1>1, <2>1 DEF ComputeBucketPrizes, BucketPrize
    <3> HIDE DEF bw, a, tbw, f, prize
    <3>4. a \div tbw \in Nat
      BY <2>1, <3>2, DivNat
    <3>5. prize[i] \in Nat /\ prize[i] <= a \div tbw
      BY <3>3, <3>4, AsU64Type
    <3>6. prize[i] * tbw <= a
      BY <2>1, <3>2, <3>5, DivScale
    <3>7. prize[i] * tbw \in Nat /\ bw * total \in Nat
      BY <2>1, <3>1, <3>5, MulNat
    <3> QED
      BY <3>1, <3>2, <3>6, <3>7
  <2>4. SumFunctionOnSet(prize, Buckets) = SumFunctionOnSet(prize, W)
    <3> HIDE DEF prize, W
    <3> QED
      BY <1>1, <1>2, <2>2, BucketsFinite, SumSupport
  <2>5. SumFunctionOnSet(prize, W) \in Nat
    <3> HIDE DEF prize, W
    <3> QED
      BY <1>1, <1>2, SumNat
  <2>6. SumFunctionOnSet(prize, W) * tbw <= SumFunctionOnSet(f, W) * total
    <3>1. \A i \in W : f[i] \in Nat /\ prize[i] \in Nat /\ prize[i] * tbw <= f[i] * total
      BY <1>1, <1>2, <1>3, <2>3
    <3> HIDE DEF prize, W, f, tbw
    <3> QED
      BY <1>1, <2>1, <3>1, SumScale
  <2> HIDE DEF prize, W, f, tbw
  <2>7. SumFunctionOnSet(prize, W) * tbw <= tbw * total
    BY <1>4, <2>6
  <2>8. SumFunctionOnSet(prize, W) <= total
    BY <2>1, <2>5, <2>7, CancelFactor
  <2> QED
    BY <2>4, <2>8 DEF prize
<1> QED
  BY <1>5, <1>6

\* However the weight of a bucket is divided among positions, the payouts of all of
\* them stay within the bucket's prize.
LEMMA PayoutsWithinPrize ==
    ASSUME NEW A, IsFiniteSet(A), NEW w, \A u \in A : w[u] \in Nat,
           NEW b \in Buckets, NEW prize \in [Buckets -> Nat], NEW arr \in [Buckets -> Nat],
           SumFunctionOnSet(w, A) = arr[b]
    PROVE  SumFunctionOnSet([ u \in A |-> CalcUserPayout(w[u], b, prize, arr) ], A) <= prize[b]
<1> DEFINE pay == [ u \in A |-> CalcUserPayout(w[u], b, prize, arr) ]
<1>1. CASE arr[b] > 0 /\ prize[b] > 0
  <2>1. arr[b] \in Nat \ {0} /\ prize[b] \in Nat
    BY <1>1
  <2>2. ASSUME NEW u \in A
        PROVE  pay[u] \in Nat /\ pay[u] * arr[b] <= w[u] * prize[b]
    <3> DEFINE a == w[u] * prize[b]
               d == arr[b]
    <3>1. a \in Nat /\ d \in Nat \ {0}
      BY <2>1, MulNat
    <3>2. pay[u] = AsU64(a \div d)
      BY <1>1 DEF CalcUserPayout
    <3> HIDE DEF a, d, pay
    <3>3. a \div d \in Nat
      BY <3>1, DivNat
    <3>4. pay[u] \in Nat /\ pay[u] <= a \div d
      BY <3>2, <3>3, AsU64Type
    <3>5. pay[u] * d <= a
      BY <3>1, <3>4, DivScale
    <3> QED
      BY <3>4, <3>5 DEF a, d
  <2> HIDE DEF pay
  <2>3. SumFunctionOnSet(pay, A) * arr[b] <= SumFunctionOnSet(w, A) * prize[b]
    BY <2>1, <2>2, SumScale
  <2>4. SumFunctionOnSet(pay, A) \in Nat
    BY <2>2, SumNat
  <2>5. SumFunctionOnSet(pay, A) <= prize[b]
    BY <2>1, <2>3, <2>4, CancelFactor
  <2> QED
    BY <2>5 DEF pay
<1>2. CASE ~(arr[b] > 0 /\ prize[b] > 0)
  <2>1. \A u \in A : pay[u] = 0
    BY <1>2 DEF CalcUserPayout
  <2> HIDE DEF pay
  <2>2. SumFunctionOnSet(pay, A) = 0
    BY <2>1, SumZero
  <2> QED
    BY <2>2 DEF pay
<1> QED
  BY <1>1, <1>2
=============================================================================
