---------------------------- MODULE SumTheorems ----------------------------
(***************************************************************************)
(* Sums over finite sets: what the folds of the community modules compute, *)
(* as far as the conservation of mbufs (PacketPath) and the budget of a    *)
(* slot (BudgetHandover) need it; then maxima and folds over sequences,    *)
(* for the fields of a configuration (TorConfig).                          *)
(*                                                                         *)
(* The provers cannot instantiate an induction theorem, whose hypothesis   *)
(* is a predicate.  A set does as well: the least number that is not in it *)
(* (WFMin) gives Induction below, and from it follow induction on the size *)
(* of a set and the existence of the recursive function behind a fold.     *)
(***************************************************************************)
EXTENDS Integers, FiniteSetsExt, Functions, FiniteSetTheorems, WellFoundedInduction, TLAPS

LEMMA Least ==
  ASSUME NEW S \in SUBSET Nat, S # {}
  PROVE  \E n \in S : \A k \in S : n <= k
<1> DEFINE R == OpToRel(<, Nat)
<1>1. IsWellFoundedOn(R, Nat)
  BY NatLessThanWellFounded
<1>2. \A x, y \in Nat : x < y => <<x, y>> \in R
  BY DEF OpToRel
<1> HIDE DEF R
<1>3. PICK n \in S : \A k \in S : <<k, n>> \notin R
  BY <1>1, WFMin
<1>4. \A k \in S : k \in Nat /\ ~(k < n)
  BY <1>2, <1>3
<1>5. n \in Nat
  OBVIOUS
<1> QED
  BY <1>4, <1>5

LEMMA Induction ==
  ASSUME NEW B, 0 \in B, \A n \in Nat : n \in B => n + 1 \in B
  PROVE  \A n \in Nat : n \in B
<1> DEFINE Missing == {n \in Nat : n \notin B}
<1>1. SUFFICES ASSUME Missing # {} PROVE FALSE
  OBVIOUS
<1>2. PICK n \in Missing : \A k \in Missing : n <= k
  BY <1>1, Least
<1>3. n \in Nat /\ n # 0 /\ n - 1 \in Nat
  BY <1>2
<1>4. n - 1 \in B
  BY <1>2, <1>3
<1>5. (n - 1) + 1 = n
  BY <1>3
<1> QED
  BY <1>2, <1>3, <1>4, <1>5

-----------------------------------------------------------------------------
(* The element a fold takes first. *)
Pick(s) == CHOOSE x \in s : TRUE

(* Induction on the subsets of a finite set, one element after the other.  *)
LEMMA SubsetInduction ==
  ASSUME NEW S, IsFiniteSet(S), NEW B, {} \in B,
         \A s \in SUBSET S : s # {} /\ s \ {Pick(s)} \in B => s \in B
  PROVE  \A s \in SUBSET S : s \in B
<1> DEFINE Sizes == {n \in Nat : \A s \in SUBSET S : Cardinality(s) = n => s \in B}
<1>1. \A s \in SUBSET S : IsFiniteSet(s) /\ Cardinality(s) \in Nat
  BY FS_Subset, FS_CardinalityType
<1>2. 0 \in Sizes
  BY <1>1, FS_EmptySet
<1>3. ASSUME NEW n \in Nat, n \in Sizes PROVE n + 1 \in Sizes
  <2>1. SUFFICES ASSUME NEW s \in SUBSET S, Cardinality(s) = n + 1 PROVE s \in B
    OBVIOUS
  <2>2. s # {}
    BY <1>1, <2>1, FS_EmptySet
  <2>3. Pick(s) \in s
    BY <2>2 DEF Pick
  <2>4. s \ {Pick(s)} \in SUBSET S /\ Cardinality(s \ {Pick(s)}) = n
    BY <1>1, <2>1, <2>3, FS_RemoveElement
  <2>5. s \ {Pick(s)} \in B
    BY <1>3, <2>4
  <2> QED
    BY <2>2, <2>5
<1> HIDE DEF Sizes
<1>4. \A n \in Nat : n \in Sizes
  BY <1>2, <1>3, Induction
<1> QED
  BY <1>1, <1>4 DEF Sizes

-----------------------------------------------------------------------------
(* g computes the sums of f over the members of D, as a fold does.         *)
Sums(g, f, D) ==
    g = [s \in D |-> IF s = {} THEN 0 ELSE f[Pick(s)] + g[s \ {Pick(s)}]]

SumOver(f, S) == CHOOSE g : Sums(g, f, SUBSET S)

Sum(f, S) == SumOver(f, S)[S]

(* MapThenSumSet and FoldFunction are this sum. *)
LEMMA SumOfSet ==
  ASSUME NEW f, NEW S
  PROVE  MapThenSumSet(LAMBDA q : f[q], S) = Sum(f, S)
BY DEF MapThenSumSet, MapThenFoldSet, Sum, SumOver, Sums, Pick

LEMMA SumOfFunction ==
  ASSUME NEW f
  PROVE  FoldFunction(+, 0, f) = Sum(f, DOMAIN f)
BY DEF FoldFunction, FoldFunctionOnSet, MapThenFoldSet, Sum, SumOver, Sums, Pick

(* There is such a g for the subsets of a finite set: with one for those   *)
(* of at most n elements there is one for those of n + 1.                  *)
LEMMA SumsExist ==
  ASSUME NEW f, NEW S, IsFiniteSet(S)
  PROVE  \E g : Sums(g, f, SUBSET S)
<1> DEFINE Small(n) == {s \in SUBSET S : Cardinality(s) <= n}
           Sizes == {n \in Nat : \E g : Sums(g, f, Small(n))}
<1>1. \A s \in SUBSET S : IsFiniteSet(s) /\ Cardinality(s) \in Nat
  BY FS_Subset, FS_CardinalityType
<1>2. 0 \in Sizes
  <2> DEFINE g == [s \in Small(0) |-> 0]
  <2>1. \A s \in Small(0) : s = {}
    BY <1>1, FS_EmptySet
  <2>2. Sums(g, f, Small(0))
    BY <2>1 DEF Sums
  <2> QED
    BY <2>2
<1>3. ASSUME NEW n \in Nat, n \in Sizes PROVE n + 1 \in Sizes
  <2>1. PICK g : Sums(g, f, Small(n))
    BY <1>3
  <2> DEFINE h == [s \in Small(n + 1) |-> IF s = {} THEN 0 ELSE f[Pick(s)] + g[s \ {Pick(s)}]]
  <2>2. ASSUME NEW s \in Small(n + 1), s # {}
        PROVE  h[s \ {Pick(s)}] = g[s \ {Pick(s)}]
    <3>1. Pick(s) \in s
      BY <2>2 DEF Pick
    <3>2. Cardinality(s \ {Pick(s)}) = Cardinality(s) - 1
      BY <1>1, <3>1, FS_RemoveElement
    <3>3. s \ {Pick(s)} \in Small(n) /\ s \ {Pick(s)} \in Small(n + 1)
      BY <1>1, <3>2
    <3> HIDE DEF Small
    <3> QED
      BY <2>1, <3>3 DEF Sums
  <2>3. Sums(h, f, Small(n + 1))
    <3> HIDE DEF Small
    <3> QED BY <2>2 DEF Sums
  <2> HIDE DEF h, Small
  <2> QED
    BY <2>3
<1>4. Cardinality(S) \in Nat /\ Small(Cardinality(S)) = SUBSET S
  BY <1>1, FS_Subset, FS_CardinalityType
<1> HIDE DEF Sizes
<1>5. Cardinality(S) \in Sizes
  BY <1>2, <1>3, <1>4, Induction
<1> QED
  BY <1>4, <1>5 DEF Sizes

LEMMA SumNext ==
  ASSUME NEW f, NEW S, IsFiniteSet(S), NEW s \in SUBSET S
  PROVE  SumOver(f, S)[s] = IF s = {} THEN 0
                            ELSE f[Pick(s)] + SumOver(f, S)[s \ {Pick(s)}]
<1> DEFINE g == SumOver(f, S)
<1>1. Sums(g, f, SUBSET S)
  BY SumsExist DEF SumOver
<1> HIDE DEF g
<1>2. g[s] = IF s = {} THEN 0 ELSE f[Pick(s)] + g[s \ {Pick(s)}]
  BY <1>1 DEF Sums
<1> QED
  BY <1>2 DEF g

LEMMA SumNone ==
  ASSUME NEW f, NEW S, IsFiniteSet(S)
  PROVE  SumOver(f, S)[{}] = 0
BY SumNext

LEMMA SumStep ==
  ASSUME NEW f, NEW S, IsFiniteSet(S), NEW s \in SUBSET S, s # {}
  PROVE  SumOver(f, S)[s] = f[Pick(s)] + SumOver(f, S)[s \ {Pick(s)}]
BY SumNext

LEMMA PickIn ==
  ASSUME NEW s, s # {}
  PROVE  Pick(s) \in s
BY DEF Pick

-----------------------------------------------------------------------------
LEMMA SumIsInt ==
  ASSUME NEW S, IsFiniteSet(S), NEW f \in [S -> Int]
  PROVE  Sum(f, S) \in Int
<1> DEFINE B == {s \in SUBSET S : SumOver(f, S)[s] \in Int}
<1>1. {} \in B
  BY SumNone
<1>2. ASSUME NEW s \in SUBSET S, s # {}, s \ {Pick(s)} \in B PROVE s \in B
  <2>1. Pick(s) \in S
    BY <1>2, PickIn
  <2>2. SumOver(f, S)[s] = f[Pick(s)] + SumOver(f, S)[s \ {Pick(s)}]
    BY <1>2, SumStep
  <2> QED
    BY <1>2, <2>1, <2>2
<1> HIDE DEF B
<1>3. S \in B
  BY <1>1, <1>2, SubsetInduction
<1> QED
  BY <1>3 DEF B, Sum

(* Nothing to add: the sum is zero. *)
LEMMA SumZero ==
  ASSUME NEW S, IsFiniteSet(S), NEW f, \A x \in S : f[x] = 0
  PROVE  Sum(f, S) = 0
<1> DEFINE B == {s \in SUBSET S : SumOver(f, S)[s] = 0}
<1>1. {} \in B
  BY SumNone
<1>2. ASSUME NEW s \in SUBSET S, s # {}, s \ {Pick(s)} \in B PROVE s \in B
  <2>1. f[Pick(s)] = 0
    BY <1>2, PickIn
  <2>2. SumOver(f, S)[s] = f[Pick(s)] + SumOver(f, S)[s \ {Pick(s)}]
    BY <1>2, SumStep
  <2> QED
    BY <1>2, <2>1, <2>2
<1> HIDE DEF B
<1>3. S \in B
  BY <1>1, <1>2, SubsetInduction
<1> QED
  BY <1>3 DEF B, Sum

(* A sum changes by what one of its terms changes by. *)
LEMMA SumChange ==
  ASSUME NEW S, IsFiniteSet(S), NEW f \in [S -> Int], NEW h \in [S -> Int],
         NEW q \in S, \A x \in S : x # q => h[x] = f[x]
  PROVE  Sum(h, S) = Sum(f, S) + (h[q] - f[q])
<1> DEFINE F == SumOver(f, S)
           H == SumOver(h, S)
           B == {s \in SUBSET S : /\ F[s] \in Int
                                  /\ q \in s => H[s] = F[s] + (h[q] - f[q])
                                  /\ q \notin s => H[s] = F[s]}
<1>1. {} \in B
  BY SumNone
<1>2. ASSUME NEW s \in SUBSET S, s # {}, s \ {Pick(s)} \in B PROVE s \in B
  <2> DEFINE p == Pick(s)
  <2> HIDE DEF B
  <2>1. p \in s /\ p \in S
    BY <1>2, PickIn
  <2>2. /\ F[s] = f[p] + F[s \ {p}]
        /\ H[s] = h[p] + H[s \ {p}]
    <3>1. SumOver(f, S)[s] = f[Pick(s)] + SumOver(f, S)[s \ {Pick(s)}]
      BY <1>2, SumStep
    <3>2. SumOver(h, S)[s] = h[Pick(s)] + SumOver(h, S)[s \ {Pick(s)}]
      BY <1>2, SumStep
    <3> QED BY <3>1, <3>2
  <2> HIDE DEF F, H, p
  <2>4. /\ F[s \ {p}] \in Int
        /\ q \in s \ {p} => H[s \ {p}] = F[s \ {p}] + (h[q] - f[q])
        /\ q \notin s \ {p} => H[s \ {p}] = F[s \ {p}]
    BY <1>2 DEF B, p
  <2>5. f[p] \in Int /\ h[p] \in Int /\ f[q] \in Int /\ h[q] \in Int
    BY <2>1
  <2>3. F[s] \in Int
    BY <2>2, <2>4, <2>5
  <2>6. CASE p = q
    <3>1. q \in s /\ H[s \ {p}] = F[s \ {p}]
      BY <2>1, <2>4, <2>6
    <3>2. H[s] = F[s] + (h[q] - f[q])
      BY <2>2, <2>4, <2>5, <2>6, <3>1
    <3> QED
      BY <2>3, <3>1, <3>2 DEF B
  <2>7. CASE p # q
    <3>1. h[p] = f[p]
      BY <2>1, <2>7
    <3>2. q \in s => H[s] = F[s] + (h[q] - f[q])
      BY <2>2, <2>4, <2>5, <2>7, <3>1
    <3>3. q \notin s => H[s] = F[s]
      BY <2>2, <2>4, <2>5, <2>7, <3>1
    <3> QED
      BY <2>3, <3>2, <3>3 DEF B
  <2> QED
    BY <2>6, <2>7
<1> HIDE DEF B
<1>3. S \in B
  BY <1>1, <1>2, SubsetInduction
<1> QED
  BY <1>3 DEF B, Sum

(* The sum of a constant. *)
LEMMA SumConstant ==
  ASSUME NEW S, IsFiniteSet(S), NEW c \in Int, NEW f, \A x \in S : f[x] = c
  PROVE  Sum(f, S) = c * Cardinality(S)
<1> DEFINE B == {s \in SUBSET S : SumOver(f, S)[s] = c * Cardinality(s)}
<1>1. {} \in B
  BY SumNone, FS_EmptySet
<1>2. ASSUME NEW s \in SUBSET S, s # {}, s \ {Pick(s)} \in B PROVE s \in B
  <2>1. Pick(s) \in s /\ f[Pick(s)] = c
    BY <1>2, PickIn
  <2>2. SumOver(f, S)[s] = c + SumOver(f, S)[s \ {Pick(s)}]
    BY <1>2, <2>1, SumStep
  <2>3. IsFiniteSet(s) /\ Cardinality(s) \in Nat
    BY FS_Subset, FS_CardinalityType
  <2>4. Cardinality(s \ {Pick(s)}) = Cardinality(s) - 1
    BY <2>1, <2>3, FS_RemoveElement
  <2>5. SumOver(f, S)[s] = c + c * (Cardinality(s) - 1)
    BY <1>2, <2>2, <2>4
  <2>6. \A n \in Nat : c + c * (n - 1) = c * n
    OBVIOUS
  <2> QED
    BY <2>3, <2>5, <2>6
<1> HIDE DEF B
<1>3. S \in B
  BY <1>1, <1>2, SubsetInduction
<1> QED
  BY <1>3 DEF B, Sum

(* Terms that are not negative: no sum is, and none is below a term.       *)
LEMMA SumIsNat ==
  ASSUME NEW S, IsFiniteSet(S), NEW f \in [S -> Nat]
  PROVE  Sum(f, S) \in Nat
<1> DEFINE B == {s \in SUBSET S : SumOver(f, S)[s] \in Nat}
<1>1. {} \in B
  BY SumNone
<1>2. ASSUME NEW s \in SUBSET S, s # {}, s \ {Pick(s)} \in B PROVE s \in B
  <2>1. Pick(s) \in S
    BY <1>2, PickIn
  <2>2. SumOver(f, S)[s] = f[Pick(s)] + SumOver(f, S)[s \ {Pick(s)}]
    BY <1>2, SumStep
  <2> QED
    BY <1>2, <2>1, <2>2
<1> HIDE DEF B
<1>3. S \in B
  BY <1>1, <1>2, SubsetInduction
<1> QED
  BY <1>3 DEF B, Sum

-----------------------------------------------------------------------------
(***************************************************************************)
(* FoldLeft goes over the domain of a sequence, the greatest index first.  *)
(***************************************************************************)
LEMMA MaxIn ==
  ASSUME NEW n \in Nat, NEW s \in SUBSET (1 .. n), s # {}
  PROVE  Max(s) \in s /\ \A y \in s : y <= Max(s)
<1> DEFINE Bounds == {k \in Nat : \A y \in s : y <= k}
<1>1. n \in Bounds /\ Bounds \in SUBSET Nat
  OBVIOUS
<1>2. PICK k \in Bounds : \A b \in Bounds : k <= b
  BY <1>1, Least
<1>3. k \in Nat /\ \A y \in s : y <= k /\ y \in Nat /\ y > 0
  BY <1>2
<1>4. k \in s
  <2>1. SUFFICES ASSUME k \notin s PROVE FALSE
    OBVIOUS
  <2>2. \A y \in s : y <= k - 1 /\ k - 1 \in Nat
    BY <1>3, <2>1
  <2>3. k - 1 \in Bounds
    BY <2>2
  <2> QED
    BY <1>2, <1>3, <2>3
<1>5. \E x \in s : \A y \in s : x >= y
  BY <1>3, <1>4
<1> QED
  BY <1>3, <1>5 DEF Max

LEMMA MaxOfPrefix ==
  ASSUME NEW n \in Nat, NEW k \in 1 .. n
  PROVE  Max(1 .. k) = k /\ (1 .. k) \ {k} = 1 .. k - 1
<1>1. Max(1 .. k) \in 1 .. k /\ \A y \in 1 .. k : y <= Max(1 .. k)
  <2>1. 1 .. k \in SUBSET (1 .. n) /\ 1 .. k # {} /\ k \in Nat
    OBVIOUS
  <2> QED
    BY <2>1, MaxIn
<1> QED
  BY <1>1

(* There is a function that folds step over the subsets of 1 .. n.  Its    *)
(* values stay in V, where step is defined.                                *)
FoldsOver(g, step, base, D) ==
    \A s \in D : g[s] = IF s = {} THEN base ELSE step[<<Max(s), g[s \ {Max(s)}]>>]

LEMMA FoldExists ==
  ASSUME NEW n \in Nat, NEW V, NEW base \in V, NEW step \in [(1 .. n) \X V -> V]
  PROVE  \E g \in [SUBSET (1 .. n) -> V] : FoldsOver(g, step, base, SUBSET (1 .. n))
<1> DEFINE S == 1 .. n
           Small(m) == {s \in SUBSET S : Cardinality(s) <= m}
           Sizes == {m \in Nat : \E g \in [SUBSET S -> V] : FoldsOver(g, step, base, Small(m))}
<1>1. IsFiniteSet(S) /\ \A s \in SUBSET S : IsFiniteSet(s) /\ Cardinality(s) \in Nat
  <2>1. IsFiniteSet(1 .. n)
    BY FS_Interval
  <2> QED
    BY <2>1, FS_Subset, FS_CardinalityType
<1>2. 0 \in Sizes
  <2> DEFINE g == [s \in SUBSET S |-> base]
  <2>1. \A s \in Small(0) : s = {}
    BY <1>1, FS_EmptySet
  <2>2. FoldsOver(g, step, base, Small(0)) /\ g \in [SUBSET S -> V]
    BY <2>1 DEF FoldsOver
  <2> QED
    BY <2>2
<1>3. ASSUME NEW m \in Nat, m \in Sizes PROVE m + 1 \in Sizes
  <2>1. PICK g \in [SUBSET S -> V] : FoldsOver(g, step, base, Small(m))
    BY <1>3
  <2> DEFINE h == [s \in SUBSET S |->
                    IF s = {} THEN base ELSE step[<<Max(s), g[s \ {Max(s)}]>>]]
  <2>2. ASSUME NEW s \in SUBSET S, s # {}
        PROVE  /\ Max(s) \in S /\ s \ {Max(s)} \in SUBSET S
               /\ s \in Small(m + 1) => s \ {Max(s)} \in Small(m)
    <3>1. Max(s) \in s
      BY <2>2, MaxIn
    <3>2. Cardinality(s \ {Max(s)}) = Cardinality(s) - 1
      BY <1>1, <3>1, FS_RemoveElement
    <3>3. Cardinality(s) \in Nat
      BY <1>1
    <3> HIDE DEF S, h
    <3>4. Max(s) \in S /\ s \ {Max(s)} \in SUBSET S
      BY <3>1
    <3>5. Cardinality(s) <= m + 1 => Cardinality(s \ {Max(s)}) <= m
      BY <3>2, <3>3
    <3> QED
      BY <3>4, <3>5
  <2>3. h \in [SUBSET S -> V]
    <3>1. ASSUME NEW s \in SUBSET S PROVE h[s] \in V
      <4>1. CASE s = {}
        BY <4>1
      <4>2. CASE s # {}
        <5>1. <<Max(s), g[s \ {Max(s)}]>> \in S \X V
          BY <2>1, <2>2, <4>2
        <5> HIDE DEF S
        <5> QED
          BY <4>2, <5>1 DEF S
      <4> QED
        BY <4>1, <4>2
    <3> QED
      BY <3>1
  <2>4. ASSUME NEW s \in Small(m)
        PROVE  h[s] = g[s]
    BY <2>1, <2>4 DEF FoldsOver
  <2>5. FoldsOver(h, step, base, Small(m + 1))
    <3>1. SUFFICES ASSUME NEW s \in Small(m + 1)
                   PROVE  h[s] = IF s = {} THEN base ELSE step[<<Max(s), h[s \ {Max(s)}]>>]
      BY DEF FoldsOver
    <3>2. CASE s = {}
      BY <3>2
    <3>3. CASE s # {}
      <4>1. h[s \ {Max(s)}] = g[s \ {Max(s)}]
        BY <2>2, <2>4, <3>3
      <4> QED
        BY <3>3, <4>1
    <3> QED
      BY <3>2, <3>3
  <2> HIDE DEF h, Small
  <2> QED
    BY <2>3, <2>5
<1>4. Cardinality(S) \in Nat /\ Small(Cardinality(S)) = SUBSET S
  BY <1>1, FS_Subset, FS_CardinalityType
<1> HIDE DEF Sizes
<1>5. Cardinality(S) \in Sizes
  BY <1>2, <1>3, <1>4, Induction
<1> QED
  BY <1>4, <1>5 DEF Sizes

=============================================================================
