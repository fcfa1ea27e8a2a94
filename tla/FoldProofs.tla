------------------------------- MODULE FoldProofs -------------------------------
(***************************************************************************)
(* Facts that the proofs of several components share: least and greatest   *)
(* naturals, which stand in for induction, what a fold along a sequence     *)
(* computes, and sums over finite sets.                                    *)
(***************************************************************************)
EXTENDS SequencesExt, FiniteSetTheorems, WellFoundedInduction, TLAPS

\* A set of naturals has a least element.
LEMMA LeastNatural ==
  ASSUME NEW S \in SUBSET Nat, S # {}
  PROVE  \E m \in S : \A k \in S : m <= k
<1> DEFINE less == OpToRel(<, Nat)
<1>1. IsWellFoundedOn(less, Nat)
  BY NatLessThanWellFounded
<1>2. PICK m \in S : \A k \in S : ~(<<k, m>> \in less)
  <2> HIDE DEF less
  <2> QED BY <1>1, WFMin
<1>3. \A k \in S : m <= k
  <2> SUFFICES ASSUME NEW k \in S PROVE m <= k
    OBVIOUS
  <2>1. ~(k < m)
    BY <1>2 DEF OpToRel
  <2> QED BY <2>1
<1> QED BY <1>3

\* A bounded set of naturals has a greatest element.
LEMMA GreatestIs ==
  ASSUME NEW n \in Nat, NEW S \in SUBSET (1 .. n), S # {}
  PROVE  \E x \in S : \A y \in S : x >= y
<1> DEFINE Rest == {n - x : x \in S}
           less == OpToRel(<, Nat)
<1>0. \A x \in S : x \in 1 .. n
  OBVIOUS
<1>1. Rest \subseteq Nat /\ Rest # {}
  <2>1. \A x \in S : n - x \in Nat
    BY <1>0
  <2>2. Rest # {}
    BY Zenon
  <2> QED BY <2>1, <2>2
<1>2. PICK r \in Rest : \A q \in Rest : ~(<<q, r>> \in less)
  <2>1. IsWellFoundedOn(less, Nat)
    BY NatLessThanWellFounded
  <2> HIDE DEF less, Rest
  <2> QED BY <1>1, <2>1, WFMin
<1>3. \A q \in Rest : ~(q < r)
  BY <1>1, <1>2 DEF OpToRel
<1>4. PICK x \in S : r = n - x
  OBVIOUS
<1>5. ASSUME NEW y \in S PROVE x >= y
  <2>1. ~(n - y < n - x)
    BY <1>3, <1>4
  <2>2. x \in 1 .. n /\ y \in 1 .. n
    BY <1>0
  <2> QED BY <2>1, <2>2
<1> QED BY <1>5

-----------------------------------------------------------------------------
\* What FoldLeft recurses on: the sets of positions, the greatest one first.
FoldsAlong(F, base, n, g) ==
  \A s \in SUBSET (1 .. n) :
    g[s] = IF s = {} THEN base ELSE F[<<Max(s), g[s \ {Max(s)}]>>]

LEMMA MaxOfTop ==
  ASSUME NEW m \in Nat, NEW s \in SUBSET (1 .. m + 1), m + 1 \in s
  PROVE  Max(s) = m + 1 /\ s \ {m + 1} \in SUBSET (1 .. m)
<1>1. \A x \in s : x \in 1 .. m + 1
  OBVIOUS
<1>2. \A y \in s : m + 1 >= y
  BY <1>1
<1>3. \A x \in s : (\A y \in s : x >= y) => x = m + 1
  BY <1>1
<1>4. Max(s) = m + 1
  BY <1>2, <1>3 DEF Max
<1> QED BY <1>1, <1>4

LEMMA FoldExists ==
  ASSUME NEW A, NEW base \in A, NEW n \in Nat, NEW F \in [(1 .. n) \X A -> A]
  PROVE  \E g \in [SUBSET (1 .. n) -> A] : FoldsAlong(F, base, n, g)
<1> DEFINE Has(m) == \E g \in [SUBSET (1 .. m) -> A] : FoldsAlong(F, base, m, g)
           Bad    == {m \in 0 .. n : ~Has(m)}
<1> SUFFICES ASSUME Bad # {} PROVE FALSE
  <2>1. n \in 0 .. n
    OBVIOUS
  <2> QED BY <2>1
<1>1. Bad \in SUBSET Nat
  OBVIOUS
<1> HIDE DEF Has
<1>2. PICK m \in Bad : \A k \in Bad : m <= k
  BY <1>1, LeastNatural
<1>3. m \in 0 .. n /\ ~Has(m)
  OBVIOUS
<1>4. m # 0
  <2> DEFINE g == [s \in SUBSET (1 .. 0) |-> base]
  <2>1. g \in [SUBSET (1 .. 0) -> A] /\ FoldsAlong(F, base, 0, g)
    BY DEF FoldsAlong
  <2> QED BY <1>3, <2>1 DEF Has
<1> DEFINE p == m - 1
<1>5. p \in 0 .. n /\ m = p + 1 /\ p + 1 \in 1 .. n
  BY <1>3, <1>4
<1> HIDE DEF p
<1>6. Has(p)
  <2>1. ~(m <= p)
    BY <1>3, <1>5
  <2>2. p \notin Bad
    BY <1>2, <2>1
  <2> QED BY <1>5, <2>2
<1>7. PICK g \in [SUBSET (1 .. p) -> A] : FoldsAlong(F, base, p, g)
  BY <1>6 DEF Has
<1> DEFINE h == [s \in SUBSET (1 .. p + 1) |->
                   IF p + 1 \in s THEN F[<<p + 1, g[s \ {p + 1}]>>] ELSE g[s]]
<1>8. ASSUME NEW s \in SUBSET (1 .. p + 1), p + 1 \notin s
      PROVE  s \in SUBSET (1 .. p) /\ h[s] = g[s]
  <2>1. \A x \in s : x \in 1 .. p
    <3>1. \A x \in s : x \in 1 .. p + 1 /\ x # p + 1
      BY <1>8
    <3> QED BY <1>5, <3>1
  <2> QED BY <1>8, <2>1
<1>9. ASSUME NEW s \in SUBSET (1 .. p + 1), p + 1 \in s
      PROVE  /\ s # {} /\ Max(s) = p + 1 /\ s \ {p + 1} \in SUBSET (1 .. p)
             /\ h[s] = F[<<p + 1, h[s \ {p + 1}]>>] /\ h[s] \in A
  <2>1. Max(s) = p + 1 /\ s \ {p + 1} \in SUBSET (1 .. p)
    BY <1>5, <1>9, MaxOfTop
  <2>2. s \ {p + 1} \in SUBSET (1 .. p + 1) /\ p + 1 \notin s \ {p + 1}
    OBVIOUS
  <2>3. h[s \ {p + 1}] = g[s \ {p + 1}]
    BY <2>2, <1>8
  <2>4. g[s \ {p + 1}] \in A
    BY <2>1
  <2> QED BY <1>5, <1>9, <2>1, <2>3, <2>4
<1>10. h \in [SUBSET (1 .. p + 1) -> A]
  <2>1. \A s \in SUBSET (1 .. p + 1) : h[s] \in A
    <3> SUFFICES ASSUME NEW s \in SUBSET (1 .. p + 1) PROVE h[s] \in A
      OBVIOUS
    <3> HIDE DEF h
    <3> QED BY <1>8, <1>9
  <2> QED BY <2>1
<1>11. FoldsAlong(F, base, p + 1, h)
  <2> SUFFICES ASSUME NEW s \in SUBSET (1 .. p + 1)
               PROVE  h[s] = IF s = {} THEN base ELSE F[<<Max(s), h[s \ {Max(s)}]>>]
    BY DEF FoldsAlong
  <2> HIDE DEF h
  <2>1. CASE p + 1 \in s
    BY <1>9, <2>1
  <2>2. CASE p + 1 \notin s
    <3>1. s \in SUBSET (1 .. p) /\ h[s] = g[s]
      BY <1>8, <2>2
    <3>2. g[s] = IF s = {} THEN base ELSE F[<<Max(s), g[s \ {Max(s)}]>>]
      BY <1>7, <3>1 DEF FoldsAlong
    <3>3. s \ {Max(s)} \in SUBSET (1 .. p + 1) /\ p + 1 \notin s \ {Max(s)}
      BY <2>2
    <3>4. h[s \ {Max(s)}] = g[s \ {Max(s)}]
      BY <3>3, <1>8
    <3> QED BY <3>1, <3>2, <3>4
  <2> QED BY <2>1, <2>2
<1> HIDE DEF h
<1>12. Has(m)
  BY <1>5, <1>10, <1>11 DEF Has
<1> QED BY <1>3, <1>12

\* So a fold goes along the prefixes.
LEMMA PrefixIs ==
  ASSUME NEW n \in Nat, NEW j \in 1 .. n
  PROVE  1 .. j \in SUBSET (1 .. n) /\ 1 .. j # {} /\ Max(1 .. j) = j /\ (1 .. j) \ {j} = 1 .. j - 1
<1>1. 1 .. j \in SUBSET (1 .. n) /\ 1 .. j # {} /\ (1 .. j) \ {j} = 1 .. j - 1
  OBVIOUS
<1>2. Max(1 .. j) = j
  <2> DEFINE p == j - 1
  <2>1. p \in Nat /\ 1 .. j \in SUBSET (1 .. p + 1) /\ p + 1 \in 1 .. j /\ p + 1 = j
    OBVIOUS
  <2> HIDE DEF p
  <2>2. Max(1 .. j) = p + 1
    BY <2>1, MaxOfTop
  <2> QED BY <2>1, <2>2
<1> QED BY <1>1, <1>2

\* What is taken out of a set of positions is one of them.
LEMMA MaxIsIn ==
  ASSUME NEW n \in Nat, NEW s \in SUBSET (1 .. n), s # {}
  PROVE  Max(s) \in 1 .. n /\ s \ {Max(s)} \in SUBSET (1 .. n)
<1>1. \E x \in s : \A y \in s : x >= y
  BY GreatestIs
<1>2. Max(s) \in s
  BY <1>1 DEF Max
<1> QED BY <1>2

\* Induction up to a bound, for the set of the numbers that are good.
LEMMA CountsUpTo ==
  ASSUME NEW n \in Nat, NEW Good, 0 \in Good, \A j \in 1 .. n : j - 1 \in Good => j \in Good
  PROVE  \A j \in 0 .. n : j \in Good
<1> DEFINE Bad == {j \in 0 .. n : j \notin Good}
<1> SUFFICES ASSUME Bad # {} PROVE FALSE
  OBVIOUS
<1>1. Bad \in SUBSET Nat
  OBVIOUS
<1>2. PICK m \in Bad : \A k \in Bad : m <= k
  BY <1>1, LeastNatural
<1>3. m \in 1 .. n
  <2>1. m # 0 /\ m \in 0 .. n
    OBVIOUS
  <2> QED BY ONLY <2>1
<1>4. m - 1 \in 0 .. n /\ ~(m <= m - 1)
  <2>1. n \in Nat
    OBVIOUS
  <2> QED BY ONLY <1>3, <2>1
<1>5. m - 1 \in Good
  BY <1>2, <1>4
<1> QED BY <1>3, <1>5

-----------------------------------------------------------------------------
(* Sums.  SumFunction is a fold; that the recursive function in its          *)
(* definition exists, and that the order of the elements does not matter,     *)
(* are shown by taking a smallest set for which they would fail.            *)

\* Of some finite sets one is smallest: no other one is part of it.
LEMMA SmallestSet ==
  ASSUME NEW Sets, Sets # {}, \A s \in Sets : IsFiniteSet(s)
  PROVE  \E s \in Sets : \A x \in s : s \ {x} \notin Sets
<1> DEFINE Sizes == {Cardinality(s) : s \in Sets}
<1>1. Sizes \in SUBSET Nat /\ Sizes # {}
  BY FS_CardinalityType
<1>2. PICK m \in Sizes : \A k \in Sizes : m <= k
  BY <1>1, LeastNatural
<1>3. PICK s \in Sets : m = Cardinality(s)
  BY <1>2
<1>4. ASSUME NEW x \in s, s \ {x} \in Sets PROVE FALSE
  <2>1. /\ Cardinality(s \ {x}) = Cardinality(s) - 1
        /\ Cardinality(s) \in Nat
    BY FS_RemoveElement, FS_CardinalityType
  <2>2. Cardinality(s) <= Cardinality(s \ {x})
    BY <1>2, <1>3, <1>4
  <2> QED BY <2>1, <2>2
<1> QED BY <1>4

\* g is the function that the definition of the fold chooses.
AddsUp(f, D, g) ==
  g = [s \in SUBSET D |->
         IF s = {} THEN 0
         ELSE LET x == CHOOSE x \in s : TRUE IN f[x] + g[s \ {x}]]

LEMMA SumIsChosen ==
  ASSUME NEW f, NEW s
  PROVE  SumFunctionOnSet(f, s) = (CHOOSE g : AddsUp(f, s, g))[s]
BY DEF SumFunctionOnSet, FoldFunctionOnSet, MapThenFoldSet, AddsUp

LEMMA AddsUpAt ==
  ASSUME NEW f, NEW D, NEW g, AddsUp(f, D, g), NEW s \in SUBSET D
  PROVE  /\ s = {} => g[s] = 0
         /\ s # {} => /\ (CHOOSE x \in s : TRUE) \in s
                      /\ g[s] = f[CHOOSE x \in s : TRUE] + g[s \ {CHOOSE x \in s : TRUE}]
BY DEF AddsUp

\* Two such functions agree where what they add does.
LEMMA AddsUpOnce ==
  ASSUME NEW f, NEW D, NEW g, AddsUp(f, D, g),
         NEW h, NEW E, NEW k, AddsUp(h, E, k),
         NEW s \in SUBSET D, s \in SUBSET E, IsFiniteSet(s), \A x \in s : f[x] = h[x]
  PROVE  g[s] = k[s]
<1> SUFFICES ASSUME g[s] # k[s] PROVE FALSE
  OBVIOUS
<1> DEFINE Bad == {t \in SUBSET s : g[t] # k[t]}
<1>1. \A t \in Bad : IsFiniteSet(t)
  BY FS_Subset
<1>2. PICK t \in Bad : \A x \in t : t \ {x} \notin Bad
  BY <1>1, SmallestSet
<1>3. t \in SUBSET D /\ t \in SUBSET E /\ g[t] # k[t]
  OBVIOUS
<1>4. CASE t = {}
  <2>1. g[t] = 0
    BY <1>3, <1>4, AddsUpAt
  <2>2. k[t] = 0
    BY <1>3, <1>4, AddsUpAt
  <2> QED BY <1>3, <2>1, <2>2
<1>5. CASE t # {}
  <2> DEFINE x == CHOOSE x \in t : TRUE
  <2>1. /\ x \in t
        /\ g[t] = f[x] + g[t \ {x}]
        /\ k[t] = h[x] + k[t \ {x}]
    BY <1>3, <1>5, AddsUpAt
  <2>2. g[t \ {x}] = k[t \ {x}]
    BY <1>2, <2>1
  <2> QED BY <2>1, <2>2
<1> QED BY <1>4, <1>5

LEMMA AddsUpBelow ==
  ASSUME NEW f, NEW D, NEW g, AddsUp(f, D, g), NEW E \in SUBSET D
  PROVE  AddsUp(f, E, [s \in SUBSET E |-> g[s]])
<1> DEFINE h == [s \in SUBSET E |-> g[s]]
<1>1. ASSUME NEW s \in SUBSET E
      PROVE  h[s] = IF s = {} THEN 0
                    ELSE LET x == CHOOSE x \in s : TRUE IN f[x] + h[s \ {x}]
  <2> DEFINE x == CHOOSE x \in s : TRUE
  <2>1. s \in SUBSET D /\ h[s] = g[s]
    OBVIOUS
  <2>2. CASE s = {}
    BY <2>1, <2>2, AddsUpAt
  <2>3. CASE s # {}
    <3>1. g[s] = f[x] + g[s \ {x}]
      BY <2>1, <2>3, AddsUpAt
    <3>2. h[s \ {x}] = g[s \ {x}]
      OBVIOUS
    <3> QED BY <2>1, <2>3, <3>1, <3>2
  <2> QED BY <2>2, <2>3
<1> QED BY <1>1 DEF AddsUp

\* For a finite set there is one.
LEMMA AddsUpExists ==
  ASSUME NEW f, NEW D, IsFiniteSet(D)
  PROVE  \E g : AddsUp(f, D, g)
<1> SUFFICES ASSUME ~\E g : AddsUp(f, D, g) PROVE FALSE
  OBVIOUS
<1> DEFINE Bad == {s \in SUBSET D : ~\E g : AddsUp(f, s, g)}
<1>1. \A s \in Bad : IsFiniteSet(s)
  BY FS_Subset
<1>2. D \in Bad
  OBVIOUS
<1>3. PICK s \in Bad : \A x \in s : s \ {x} \notin Bad
  <2> HIDE DEF Bad
  <2> QED BY <1>1, <1>2, SmallestSet
<1>4. s \in SUBSET D /\ IsFiniteSet(s)
  BY <1>1
<1>5. ASSUME NEW t \in SUBSET s, t # s PROVE \E g : AddsUp(f, t, g)
  <2>1. PICK x \in s : x \notin t
    BY <1>5
  <2>2. s \ {x} \in SUBSET D /\ s \ {x} \notin Bad
    BY <1>3, <1>4
  <2>3. PICK g : AddsUp(f, s \ {x}, g)
    BY <2>2
  <2>4. t \in SUBSET (s \ {x})
    BY <2>1
  <2>5. AddsUp(f, t, [u \in SUBSET t |-> g[u]])
    BY <2>3, <2>4, AddsUpBelow
  <2> QED BY <2>5
<1> DEFINE G(t) == CHOOSE g : AddsUp(f, t, g)
           h    == [t \in SUBSET s |->
                      IF t = {} THEN 0
                      ELSE LET x == CHOOSE x \in t : TRUE IN f[x] + G(t \ {x})[t \ {x}]]
<1>6. ASSUME NEW t \in SUBSET s, t # s PROVE h[t] = G(t)[t]
  <2>1. AddsUp(f, t, G(t))
    BY <1>5, <1>6
  <2>2. CASE t = {}
    BY <2>1, <2>2, AddsUpAt
  <2>3. CASE t # {}
    <3> DEFINE x == CHOOSE x \in t : TRUE
    <3>1. x \in t /\ G(t)[t] = f[x] + G(t)[t \ {x}]
      BY <2>1, <2>3, AddsUpAt
    <3>2. AddsUp(f, t \ {x}, G(t \ {x}))
      <4>1. t \ {x} \in SUBSET s /\ t \ {x} # s
        BY <3>1
      <4> QED BY <4>1, <1>5
    <3>3. IsFiniteSet(t \ {x})
      BY <1>4, FS_Subset
    <3>4. G(t)[t \ {x}] = G(t \ {x})[t \ {x}]
      <4> HIDE DEF G, x
      <4> QED BY <2>1, <3>2, <3>3, AddsUpOnce
    <3>5. h[t] = f[x] + G(t \ {x})[t \ {x}]
      BY <2>3
    <3> QED BY <3>1, <3>4, <3>5
  <2> QED BY <2>2, <2>3
<1>7. ASSUME NEW t \in SUBSET s
      PROVE  h[t] = IF t = {} THEN 0
                    ELSE LET x == CHOOSE x \in t : TRUE IN f[x] + h[t \ {x}]
  <2>1. CASE t = {}
    BY <2>1
  <2>2. CASE t # {}
    <3> DEFINE x == CHOOSE x \in t : TRUE
    <3>1. x \in t
      BY <2>2
    <3>2. t \ {x} \in SUBSET s /\ t \ {x} # s
      BY <3>1
    <3>3. h[t \ {x}] = G(t \ {x})[t \ {x}]
      BY <3>2, <1>6
    <3>4. h[t] = f[x] + G(t \ {x})[t \ {x}]
      BY <2>2
    <3> QED BY <2>2, <3>3, <3>4
  <2> QED BY <2>1, <2>2
<1>8. AddsUp(f, s, h)
  <2> HIDE DEF G
  <2> QED BY <1>7 DEF AddsUp
<1> QED BY <1>8, <1>3

LEMMA SumAddsUp ==
  ASSUME NEW f, NEW D, IsFiniteSet(D)
  PROVE  \E g : AddsUp(f, D, g) /\ \A s \in SUBSET D : SumFunctionOnSet(f, s) = g[s]
<1>1. PICK g : AddsUp(f, D, g)
  BY AddsUpExists
<1>2. ASSUME NEW s \in SUBSET D PROVE SumFunctionOnSet(f, s) = g[s]
  <2> DEFINE k == CHOOSE k : AddsUp(f, s, k)
  <2>1. IsFiniteSet(s)
    BY FS_Subset
  <2>2. AddsUp(f, s, k)
    BY <2>1, AddsUpExists
  <2>3. SumFunctionOnSet(f, s) = k[s]
    BY SumIsChosen
  <2> HIDE DEF k
  <2>4. k[s] = g[s]
    BY <1>1, <2>1, <2>2, AddsUpOnce
  <2> QED BY <2>3, <2>4
<1> QED BY <1>1, <1>2

LEMMA SumOfNothing ==
  ASSUME NEW f PROVE SumFunctionOnSet(f, {}) = 0
<1>1. IsFiniteSet({})
  BY FS_EmptySet
<1>2. PICK g : AddsUp(f, {}, g) /\ \A s \in SUBSET {} : SumFunctionOnSet(f, s) = g[s]
  BY <1>1, SumAddsUp
<1> QED BY <1>2, AddsUpAt

\* The sum over a set, less the element that is chosen first.
LEMMA SumLessChosen ==
  ASSUME NEW f, NEW s, IsFiniteSet(s), s # {}
  PROVE  \E x \in s : SumFunctionOnSet(f, s) = f[x] + SumFunctionOnSet(f, s \ {x})
<1> DEFINE x == CHOOSE x \in s : TRUE
<1>1. PICK g : AddsUp(f, s, g) /\ \A t \in SUBSET s : SumFunctionOnSet(f, t) = g[t]
  BY SumAddsUp
<1>2. x \in s /\ g[s] = f[x] + g[s \ {x}]
  BY <1>1, AddsUpAt
<1> QED BY <1>1, <1>2

\* A sum of naturals is natural, of integers an integer.
LEMMA SumIsNat ==
  ASSUME NEW f, NEW s, IsFiniteSet(s), \A x \in s : f[x] \in Nat
  PROVE  SumFunctionOnSet(f, s) \in Nat
<1> SUFFICES ASSUME SumFunctionOnSet(f, s) \notin Nat PROVE FALSE
  OBVIOUS
<1> DEFINE Bad == {t \in SUBSET s : SumFunctionOnSet(f, t) \notin Nat}
<1>1. \A t \in Bad : IsFiniteSet(t)
  BY FS_Subset
<1>2. PICK t \in Bad : \A x \in t : t \ {x} \notin Bad
  BY <1>1, SmallestSet
<1>3. t # {}
  BY <1>2, SumOfNothing
<1>4. PICK x \in t : SumFunctionOnSet(f, t) = f[x] + SumFunctionOnSet(f, t \ {x})
  BY <1>1, <1>3, SumLessChosen
<1>5. SumFunctionOnSet(f, t \ {x}) \in Nat /\ f[x] \in Nat
  BY <1>2
<1> QED BY <1>2, <1>4, <1>5

LEMMA SumIsInt ==
  ASSUME NEW f, NEW s, IsFiniteSet(s), \A x \in s : f[x] \in Int
  PROVE  SumFunctionOnSet(f, s) \in Int
<1> SUFFICES ASSUME SumFunctionOnSet(f, s) \notin Int PROVE FALSE
  OBVIOUS
<1> DEFINE Bad == {t \in SUBSET s : SumFunctionOnSet(f, t) \notin Int}
<1>1. \A t \in Bad : IsFiniteSet(t)
  BY FS_Subset
<1>2. PICK t \in Bad : \A x \in t : t \ {x} \notin Bad
  BY <1>1, SmallestSet
<1>3. t # {}
  BY <1>2, SumOfNothing
<1>4. PICK x \in t : SumFunctionOnSet(f, t) = f[x] + SumFunctionOnSet(f, t \ {x})
  BY <1>1, <1>3, SumLessChosen
<1>5. SumFunctionOnSet(f, t \ {x}) \in Int /\ f[x] \in Int
  BY <1>2
<1> QED BY <1>2, <1>4, <1>5

\* Any element may be the one that is taken out: the order does not matter.
LEMMA SumLess ==
  ASSUME NEW f, NEW s, IsFiniteSet(s), \A x \in s : f[x] \in Int, NEW x \in s
  PROVE  SumFunctionOnSet(f, s) = f[x] + SumFunctionOnSet(f, s \ {x})
<1> DEFINE Fails(t) == \E y \in t :
             SumFunctionOnSet(f, t) # f[y] + SumFunctionOnSet(f, t \ {y})
<1> SUFFICES ASSUME Fails(s) PROVE FALSE
  OBVIOUS
<1> DEFINE Bad == {t \in SUBSET s : Fails(t)}
<1>1. \A t \in Bad : IsFiniteSet(t)
  BY FS_Subset
<1>2. PICK t \in Bad : \A y \in t : t \ {y} \notin Bad
  <2>1. Bad # {}
    OBVIOUS
  <2> HIDE DEF Bad
  <2> QED BY <1>1, <2>1, SmallestSet
<1>3. PICK y \in t : SumFunctionOnSet(f, t) # f[y] + SumFunctionOnSet(f, t \ {y})
  BY <1>2
<1>4. PICK c \in t : SumFunctionOnSet(f, t) = f[c] + SumFunctionOnSet(f, t \ {c})
  BY <1>1, <1>3, SumLessChosen
<1>5. c # y
  BY <1>3, <1>4
<1>6. SumFunctionOnSet(f, t \ {c}) = f[y] + SumFunctionOnSet(f, (t \ {c}) \ {y})
  BY <1>2, <1>3, <1>4, <1>5
<1>7. SumFunctionOnSet(f, t \ {y}) = f[c] + SumFunctionOnSet(f, (t \ {y}) \ {c})
  BY <1>2, <1>3, <1>4, <1>5
<1>8. (t \ {c}) \ {y} = (t \ {y}) \ {c}
  OBVIOUS
<1>9. SumFunctionOnSet(f, (t \ {c}) \ {y}) \in Int /\ f[c] \in Int /\ f[y] \in Int
  <2>1. IsFiniteSet((t \ {c}) \ {y})
    BY <1>1, FS_Subset
  <2> QED BY <2>1, SumIsInt
<1> DEFINE rest == SumFunctionOnSet(f, (t \ {c}) \ {y})
<1>10. /\ SumFunctionOnSet(f, t) = f[c] + (f[y] + rest)
       /\ SumFunctionOnSet(f, t \ {y}) = f[c] + rest
  BY <1>4, <1>6, <1>7, <1>8
<1>11. rest \in Int /\ f[c] \in Int /\ f[y] \in Int
  BY <1>9
<1> HIDE DEF Bad, Fails, rest
<1>12. f[c] + (f[y] + rest) = f[y] + (f[c] + rest)
  BY <1>11
<1> QED BY <1>3, <1>10, <1>12

LEMMA SumsAgree ==
  ASSUME NEW f, NEW h, NEW s, IsFiniteSet(s), \A x \in s : f[x] = h[x]
  PROVE  SumFunctionOnSet(f, s) = SumFunctionOnSet(h, s)
<1>1. PICK g : AddsUp(f, s, g) /\ \A t \in SUBSET s : SumFunctionOnSet(f, t) = g[t]
  BY SumAddsUp
<1>2. PICK k : AddsUp(h, s, k) /\ \A t \in SUBSET s : SumFunctionOnSet(h, t) = k[t]
  BY SumAddsUp
<1>3. g[s] = k[s]
  BY <1>1, <1>2, AddsUpOnce
<1> QED BY <1>1, <1>2, <1>3

\* More naturals have no smaller sum.
LEMMA SumGrows ==
  ASSUME NEW f, NEW s, IsFiniteSet(s), \A x \in s : f[x] \in Nat, NEW t \in SUBSET s
  PROVE  SumFunctionOnSet(f, t) <= SumFunctionOnSet(f, s)
<1> DEFINE Bad == {u \in SUBSET s : t \subseteq u /\
                    ~(SumFunctionOnSet(f, t) <= SumFunctionOnSet(f, u))}
<1> SUFFICES ASSUME Bad # {} PROVE FALSE
  OBVIOUS
<1>1. \A u \in SUBSET s : IsFiniteSet(u) /\ SumFunctionOnSet(f, u) \in Nat
  <2> SUFFICES ASSUME NEW u \in SUBSET s
               PROVE  IsFiniteSet(u) /\ SumFunctionOnSet(f, u) \in Nat
    OBVIOUS
  <2>1. IsFiniteSet(u)
    BY FS_Subset
  <2> QED BY <2>1, SumIsNat
<1>2. PICK u \in Bad : \A x \in u : u \ {x} \notin Bad
  <2>1. \A u \in Bad : IsFiniteSet(u)
    BY <1>1
  <2> HIDE DEF Bad
  <2> QED BY <2>1, SmallestSet
<1>3. u \in SUBSET s /\ t \subseteq u /\ ~(SumFunctionOnSet(f, t) <= SumFunctionOnSet(f, u))
  BY <1>2
<1>4. PICK x \in u : x \notin t
  <2>1. SumFunctionOnSet(f, t) \in Nat
    BY <1>1
  <2>2. u # t
    BY <1>3, <2>1
  <2> QED BY <1>3, <2>2
<1>5. u \ {x} \in SUBSET s /\ t \subseteq u \ {x} /\ u \ {x} \notin Bad
  BY <1>2, <1>3, <1>4
<1>6. SumFunctionOnSet(f, t) <= SumFunctionOnSet(f, u \ {x})
  BY <1>5
<1>7. SumFunctionOnSet(f, u) = f[x] + SumFunctionOnSet(f, u \ {x})
  <2>1. \A y \in u : f[y] \in Int
    BY <1>3
  <2> QED BY <1>1, <1>3, <2>1, SumLess
<1>8. /\ f[x] \in Nat /\ SumFunctionOnSet(f, t) \in Nat
      /\ SumFunctionOnSet(f, u \ {x}) \in Nat
  BY <1>1, <1>3, <1>5
<1> HIDE DEF Bad
<1> QED BY <1>3, <1>6, <1>7, <1>8
=============================================================================
