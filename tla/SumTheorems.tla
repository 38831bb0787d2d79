----------------------------- MODULE SumTheorems -----------------------------
(***************************************************************************)
(* Facts about SumFunctionOnSet(f, S), the sum of f[i] over a finite set   *)
(* S, that proofs about totals need: it is a number, any element may be    *)
(* split off, and it depends on f inside S only.                           *)
(*                                                                         *)
(* The induction is over a set of numbers instead of a predicate, because  *)
(* the provers do not instantiate theorems about predicates: WFMin gives   *)
(* a least element of what is left over.                                   *)
(***************************************************************************)
EXTENDS Integers, Functions, FiniteSetTheorems, TLAPS

\* A set of numbers with 0 and with the successor of each member is all of Nat.
LEMMA NatSetInduction ==
    ASSUME NEW T \in SUBSET Nat, 0 \in T, \A n \in T : n + 1 \in T
    PROVE  T = Nat
<1>1. SUFFICES ASSUME Nat \ T # {} PROVE FALSE
  OBVIOUS
<1>2. PICK x \in Nat \ T : \A y \in Nat \ T : ~(<<y, x>> \in OpToRel(<, Nat))
  BY <1>1, NatLessThanWellFounded, WFMin
<1>3. x # 0 /\ x - 1 \in Nat /\ x - 1 < x
  OBVIOUS
<1>4. <<x - 1, x>> \in OpToRel(<, Nat)
  BY <1>3 DEF OpToRel
<1>5. x - 1 \in T
  BY <1>2, <1>3, <1>4
<1> QED
  BY <1>3, <1>5

-----------------------------------------------------------------------------
\* The fold takes the elements of a set in some order.

Pick(s) == CHOOSE x \in s : TRUE

LEMMA PickIsElement == \A s : s # {} => Pick(s) \in s
BY DEF Pick

\* g sums f over every subset of S.
Sums(g, f, S) ==
    g = [s \in SUBSET S |-> IF s = {} THEN 0 ELSE f[Pick(s)] + g[s \ {Pick(s)}]]

SubsetsUpTo(S, n) == {s \in SUBSET S : Cardinality(s) <= n}

\* Such a g exists for the subsets of up to n elements, so for all.
LEMMA SumsExist ==
    ASSUME NEW f, NEW S, IsFiniteSet(S)
    PROVE  \E g : Sums(g, f, S)
<1> DEFINE Step(g, s) == IF s = {} THEN 0 ELSE f[Pick(s)] + g[s \ {Pick(s)}]
           Exists(n)  == \E g : g = [s \in SubsetsUpTo(S, n) |-> Step(g, s)]
           T          == {n \in Nat : Exists(n)}
<1>1. \A s \in SUBSET S : IsFiniteSet(s) /\ Cardinality(s) \in Nat
  BY FS_Subset, FS_CardinalityType
<1>2. 0 \in T
  <2>1. \A s \in SubsetsUpTo(S, 0) : s = {}
    BY <1>1, FS_EmptySet DEF SubsetsUpTo
  <2> DEFINE g == [s \in SubsetsUpTo(S, 0) |-> 0]
  <2>2. g = [s \in SubsetsUpTo(S, 0) |-> Step(g, s)]
    BY <2>1
  <2> QED
    BY <2>2
<1>3. ASSUME NEW n \in T PROVE n + 1 \in T
  <2>1. PICK g : g = [s \in SubsetsUpTo(S, n) |-> Step(g, s)]
    BY <1>3
  <2> DEFINE h == [s \in SubsetsUpTo(S, n + 1) |-> Step(g, s)]
  <2>2. ASSUME NEW s \in SubsetsUpTo(S, n + 1) PROVE h[s] = Step(h, s)
    <3>1. CASE s = {}
      BY <3>1
    <3>2. CASE s # {}
      <4> DEFINE r == s \ {Pick(s)}
      <4>1. Pick(s) \in s /\ r \in SUBSET S /\ Cardinality(s) <= n + 1 /\ s \in SUBSET S
        BY <3>2, PickIsElement DEF SubsetsUpTo
      <4>2. Cardinality(r) = Cardinality(s) - 1
        BY <1>1, <4>1, FS_RemoveElement
      <4>3. r \in SubsetsUpTo(S, n) /\ r \in SubsetsUpTo(S, n + 1)
        BY <1>1, <4>1, <4>2 DEF SubsetsUpTo
      <4>4. h[r] = Step(g, r) /\ g[r] = Step(g, r)
        <5>1. h[r] = Step(g, r)
          BY <4>3
        <5> HIDE DEF h
        <5>2. g[r] = Step(g, r)
          BY <2>1, <4>3
        <5> QED
          BY <5>1, <5>2
      <4>5. h[s] = f[Pick(s)] + g[r]
        BY <3>2
      <4> HIDE DEF h
      <4> QED
        BY <3>2, <4>4, <4>5
    <3> QED
      BY <3>1, <3>2
  <2>3. h = [s \in SubsetsUpTo(S, n + 1) |-> Step(h, s)]
    <3>1. h = [s \in SubsetsUpTo(S, n + 1) |-> h[s]]
      OBVIOUS
    <3> HIDE DEF h
    <3> QED
      BY <2>2, <3>1
  <2> HIDE DEF h
  <2>4. Exists(n + 1)
    BY <2>3
  <2> HIDE DEF Exists
  <2> QED
    BY <1>3, <2>4
<1>4. T = Nat
  <2> HIDE DEF T
  <2>1. T \in SUBSET Nat
    BY DEF T
  <2> QED
    BY <1>2, <1>3, <2>1, NatSetInduction
<1>5. SubsetsUpTo(S, Cardinality(S)) = SUBSET S
  BY FS_Subset DEF SubsetsUpTo
<1>6. Cardinality(S) \in T
  BY <1>1, <1>4
<1> QED
  BY <1>5, <1>6 DEF Sums

\* SumFunctionOnSet is such a g, whatever else the CHOOSE in its fold could have chosen.
LEMMA SumIsFold ==
    ASSUME NEW f, NEW S, IsFiniteSet(S)
    PROVE  \E g : Sums(g, f, S) /\ SumFunctionOnSet(f, S) = g[S]
<1>0. PICK g : Sums(g, f, S)
  BY SumsExist
<1>1. g = [s \in SUBSET S |-> IF s = {} THEN 0 ELSE f[CHOOSE x \in s : TRUE]
                                              + g[s \ {CHOOSE x \in s : TRUE}]]
  BY <1>0, Zenon DEF Sums, Pick
<1>2. \E h : /\ h = [s \in SUBSET S |-> IF s = {} THEN 0 ELSE f[CHOOSE x \in s : TRUE]
                                                      + h[s \ {CHOOSE x \in s : TRUE}]]
             /\ SumFunctionOnSet(f, S) = h[S]
  BY <1>1, Zenon DEF SumFunctionOnSet, FoldFunctionOnSet, MapThenFoldSet
<1> QED
  BY <1>2 DEF Sums, Pick

\* Two such functions agree where what they sum agrees, also if one is of a larger set.
LEMMA SumsAgree ==
    ASSUME NEW S, IsFiniteSet(S), NEW T \in SUBSET S, NEW f, NEW e,
           \A x \in T : f[x] = e[x],
           NEW g, Sums(g, f, S), NEW h, Sums(h, e, T)
    PROVE  \A s \in SUBSET T : g[s] = h[s]
<1> DEFINE N == {n \in Nat : \A s \in SUBSET T : Cardinality(s) = n => g[s] = h[s]}
<1>1. \A s \in SUBSET T : IsFiniteSet(s) /\ Cardinality(s) \in Nat
  BY FS_Subset, FS_CardinalityType
<1>2. 0 \in N
  <2>1. ASSUME NEW s \in SUBSET T, Cardinality(s) = 0 PROVE g[s] = h[s]
    BY <1>1, <2>1, FS_EmptySet DEF Sums
  <2> QED
    BY <2>1
<1>3. ASSUME NEW n \in N PROVE n + 1 \in N
  <2>1. ASSUME NEW s \in SUBSET T, Cardinality(s) = n + 1 PROVE g[s] = h[s]
    <3>1. s # {}
      BY <2>1, FS_EmptySet
    <3> DEFINE r == s \ {Pick(s)}
    <3>2. Pick(s) \in s /\ r \in SUBSET T
      BY <3>1, PickIsElement
    <3>3. Cardinality(r) = n
      <4>1. IsFiniteSet(s) /\ Cardinality(s) = n + 1
        BY <1>1, <2>1
      <4>2. Cardinality(r) = Cardinality(s) - 1
        BY <3>2, <4>1, FS_RemoveElement
      <4> HIDE DEF r
      <4> QED
        BY <4>1, <4>2
    <3>4. g[r] = h[r]
      BY <1>3, <3>2, <3>3
    <3>5. g[s] = f[Pick(s)] + g[r] /\ h[s] = e[Pick(s)] + h[r]
      BY <3>1 DEF Sums
    <3> QED
      BY <3>2, <3>4, <3>5
  <2> QED
    BY <1>3, <2>1
<1>4. N = Nat
  <2> HIDE DEF N
  <2>1. N \in SUBSET Nat
    BY DEF N
  <2> QED
    BY <1>2, <1>3, <2>1, NatSetInduction
<1> QED
  BY <1>1, <1>4

\* Of numbers, a sum is a number, and any element can be split off.
LEMMA SumsSplit ==
    ASSUME NEW S, IsFiniteSet(S), NEW f, \A x \in S : f[x] \in Int, NEW g, Sums(g, f, S)
    PROVE  \A s \in SUBSET S : /\ g[s] \in Int
                               /\ \A x \in s : g[s] = f[x] + g[s \ {x}]
<1> DEFINE Good(s) == g[s] \in Int /\ \A x \in s : g[s] = f[x] + g[s \ {x}]
           N == {n \in Nat : \A s \in SUBSET S : Cardinality(s) <= n => Good(s)}
<1>1. \A s \in SUBSET S : IsFiniteSet(s) /\ Cardinality(s) \in Nat
  BY FS_Subset, FS_CardinalityType
<1>2. 0 \in N
  <2>1. ASSUME NEW s \in SUBSET S, Cardinality(s) <= 0 PROVE Good(s)
    <3>1. s = {}
      BY <1>1, <2>1, FS_EmptySet
    <3>2. g[{}] = 0
      BY DEF Sums
    <3> QED
      BY <3>1, <3>2
  <2> QED
    BY <2>1
<1>3. ASSUME NEW n \in N PROVE n + 1 \in N
  <2> HIDE DEF Good
  <2>1. ASSUME NEW s \in SUBSET S, Cardinality(s) <= n + 1 PROVE Good(s)
    <3>1. CASE s = {}
      BY <1>2, <3>1, FS_EmptySet
    <3>2. CASE s # {}
      <4> DEFINE p == Pick(s)
      <4>1. p \in s /\ p \in S /\ g[s] = f[p] + g[s \ {p}]
        BY <3>2, PickIsElement DEF Sums
      <4> HIDE DEF p
      <4>2. ASSUME NEW x \in s PROVE Good(s \ {x})
        <5>1. IsFiniteSet(s) /\ Cardinality(s) \in Nat /\ s \ {x} \in SUBSET S
          BY <1>1
        <5>2. Cardinality(s \ {x}) = Cardinality(s) - 1
          BY <5>1, FS_RemoveElement
        <5>3. Cardinality(s \ {x}) <= n
          BY <1>3, <2>1, <5>1, <5>2
        <5> QED
          BY <1>3, <5>1, <5>3
      <4>3. \A x \in s : g[s \ {x}] \in Int
        BY <4>2 DEF Good
      <4>4. ASSUME NEW x \in s, x # p PROVE g[s] = f[x] + g[s \ {x}]
        <5> DEFINE q == (s \ {p}) \ {x}
        <5>1. q = (s \ {x}) \ {p} /\ q \in SUBSET S
          OBVIOUS
        <5>2. g[s \ {p}] = f[x] + g[q]
          BY <4>1, <4>2, <4>4 DEF Good
        <5>3. g[s \ {x}] = f[p] + g[q]
          <6>1. p \in s \ {x}
            BY <4>1, <4>4
          <6> QED
            BY <4>2, <5>1, <6>1 DEF Good
        <5>4. g[q] \in Int
          <6>1. q \subseteq s \ {x} /\ IsFiniteSet(s \ {x}) /\ s \ {x} \in SUBSET S
            BY <1>1
          <6>2. Cardinality(q) <= Cardinality(s \ {x})
            BY <6>1, FS_Subset
          <6>3. IsFiniteSet(s) /\ Cardinality(s) \in Nat
            BY <1>1
          <6>4. Cardinality(s \ {x}) = Cardinality(s) - 1
            BY <6>3, FS_RemoveElement
          <6>5. Cardinality(q) \in Nat
            BY <1>1, <5>1
          <6>6. Cardinality(q) <= n
            BY <1>3, <2>1, <6>2, <6>3, <6>4, <6>5
          <6> QED
            BY <1>3, <5>1, <6>6 DEF Good
        <5> HIDE DEF q
        <5>5. f[x] \in Int /\ f[p] \in Int
          BY <4>1
        <5> QED
          BY <4>1, <4>3, <4>4, <5>2, <5>3, <5>4, <5>5
      <4>5. g[s] \in Int
        <5>1. f[p] \in Int /\ g[s \ {p}] \in Int
          BY <4>1, <4>3
        <5> QED
          BY <4>1, <5>1
      <4> QED
        BY <4>1, <4>4, <4>5 DEF Good
    <3> QED
      BY <3>1, <3>2
  <2> QED
    BY <1>3, <2>1
<1>4. N = Nat
  <2> HIDE DEF N
  <2>1. N \in SUBSET Nat
    BY DEF N
  <2> QED
    BY <1>2, <1>3, <2>1, NatSetInduction
<1> HIDE DEF Good
<1>5. \A s \in SUBSET S : Good(s)
  BY <1>1, <1>4
<1> QED
  BY <1>5 DEF Good

-----------------------------------------------------------------------------
(***************************************************************************)
(* What is said of SumFunctionOnSet, and cited elsewhere.                  *)
(***************************************************************************)

\* Nothing adds up to 0.
LEMMA SumOfNothing == \A f : SumFunctionOnSet(f, {}) = 0
<1> TAKE f
<1>1. PICK g : Sums(g, f, {}) /\ SumFunctionOnSet(f, {}) = g[{}]
  BY SumIsFold, FS_EmptySet
<1> QED
  BY <1>1 DEF Sums

\* The sum of integers is an integer.
LEMMA SumIsInt ==
    ASSUME NEW S, IsFiniteSet(S), NEW f, \A x \in S : f[x] \in Int
    PROVE  SumFunctionOnSet(f, S) \in Int
<1>1. PICK g : Sums(g, f, S) /\ SumFunctionOnSet(f, S) = g[S]
  BY SumIsFold
<1>2. g[S] \in Int
  BY <1>1, SumsSplit
<1> QED
  BY <1>1, <1>2

\* The sum over a set is that over a part of it if the functions agree there.
LEMMA SumsOfPart ==
    ASSUME NEW S, IsFiniteSet(S), NEW T \in SUBSET S, NEW f, NEW e,
           \A y \in T : f[y] = e[y], NEW g, Sums(g, f, S)
    PROVE  SumFunctionOnSet(e, T) = g[T]
<1>1. IsFiniteSet(T)
  BY FS_Subset
<1>2. PICK h : Sums(h, e, T) /\ SumFunctionOnSet(e, T) = h[T]
  BY <1>1, SumIsFold
<1>3. \A s \in SUBSET T : g[s] = h[s]
  <2>1. Sums(h, e, T)
    BY <1>2
  <2> QED
    BY <2>1, SumsAgree
<1> QED
  BY <1>2, <1>3

\* It depends on the function inside the set only.
LEMMA SumAgrees ==
    ASSUME NEW S, IsFiniteSet(S), NEW f, NEW e, \A x \in S : f[x] = e[x]
    PROVE  SumFunctionOnSet(f, S) = SumFunctionOnSet(e, S)
<1>1. PICK g : Sums(g, f, S) /\ SumFunctionOnSet(f, S) = g[S]
  BY SumIsFold
<1>2. SumFunctionOnSet(e, S) = g[S]
  BY <1>1, SumsOfPart
<1> QED
  BY <1>1, <1>2

\* An element of the set can be split off.
LEMMA SumSplit ==
    ASSUME NEW S, IsFiniteSet(S), NEW f, \A x \in S : f[x] \in Int, NEW x \in S
    PROVE  SumFunctionOnSet(f, S) = f[x] + SumFunctionOnSet(f, S \ {x})
<1>1. PICK g : Sums(g, f, S) /\ SumFunctionOnSet(f, S) = g[S]
  BY SumIsFold
<1>2. \A s \in SUBSET S : g[s] \in Int /\ \A y \in s : g[s] = f[y] + g[s \ {y}]
  <2>1. Sums(g, f, S)
    BY <1>1
  <2> QED
    BY <2>1, SumsSplit
<1>3. SumFunctionOnSet(f, S \ {x}) = g[S \ {x}]
  <2> DEFINE T == S \ {x}
  <2>1. T \in SUBSET S
    OBVIOUS
  <2> HIDE DEF T
  <2>2. SumFunctionOnSet(f, T) = g[T]
    BY <1>1, <2>1, SumsOfPart
  <2> QED
    BY <2>2 DEF T
<1> QED
  BY <1>1, <1>2, <1>3

\* A sum of natural numbers is one.
LEMMA SumIsNat ==
    ASSUME NEW S, IsFiniteSet(S), NEW f, \A x \in S : f[x] \in Nat
    PROVE  SumFunctionOnSet(f, S) \in Nat
<1> DEFINE N == {n \in Nat : \A s \in SUBSET S :
                    Cardinality(s) = n => SumFunctionOnSet(f, s) \in Nat}
<1>1. \A s \in SUBSET S : IsFiniteSet(s) /\ Cardinality(s) \in Nat
  BY FS_Subset, FS_CardinalityType
<1>2. 0 \in N
  <2>1. ASSUME NEW s \in SUBSET S, Cardinality(s) = 0 PROVE SumFunctionOnSet(f, s) \in Nat
    <3>1. s = {}
      BY <1>1, <2>1, FS_EmptySet
    <3> QED
      BY <3>1, SumOfNothing
  <2> QED
    BY <2>1
<1>3. ASSUME NEW n \in N PROVE n + 1 \in N
  <2>1. ASSUME NEW s \in SUBSET S, Cardinality(s) = n + 1
        PROVE  SumFunctionOnSet(f, s) \in Nat
    <3>1. IsFiniteSet(s) /\ s # {}
      BY <1>1, <2>1, FS_EmptySet
    <3>2. PICK x \in s : TRUE
      BY <3>1
    <3>3. Cardinality(s \ {x}) = Cardinality(s) - 1
      BY <3>1, FS_RemoveElement
    <3>4. Cardinality(s \ {x}) = n /\ s \ {x} \in SUBSET S
      BY <2>1, <3>3
    <3>5. SumFunctionOnSet(f, s \ {x}) \in Nat
      BY <1>3, <3>4
    <3>6. \A y \in s : f[y] \in Int
      OBVIOUS
    <3>7. SumFunctionOnSet(f, s) = f[x] + SumFunctionOnSet(f, s \ {x})
      BY <3>1, <3>6, SumSplit
    <3>8. f[x] \in Nat
      OBVIOUS
    <3> QED
      BY <3>5, <3>7, <3>8
  <2> QED
    BY <1>3, <2>1
<1>4. N = Nat
  <2> HIDE DEF N
  <2>1. N \in SUBSET Nat
    BY DEF N
  <2> QED
    BY <1>2, <1>3, <2>1, NatSetInduction
<1> QED
  BY <1>1, <1>4

\* One more element adds its value.
LEMMA SumWithOneMore ==
    ASSUME NEW S, IsFiniteSet(S), NEW x, x \notin S,
           NEW f, f[x] \in Int, \A y \in S : f[y] \in Int
    PROVE  SumFunctionOnSet(f, S \union {x}) = SumFunctionOnSet(f, S) + f[x]
<1> DEFINE T == S \union {x}
<1>1. IsFiniteSet(T) /\ x \in T
  BY FS_AddElement
<1>2. \A y \in T : f[y] \in Int
  OBVIOUS
<1>3. T \ {x} = S
  OBVIOUS
<1> HIDE DEF T
<1>4. SumFunctionOnSet(f, T) = f[x] + SumFunctionOnSet(f, T \ {x})
  BY <1>1, <1>2, SumSplit
<1>5. SumFunctionOnSet(f, S) \in Int
  BY SumIsInt
<1>6. SumFunctionOnSet(f, T) = f[x] + SumFunctionOnSet(f, S)
  BY <1>3, <1>4
<1>7. SumFunctionOnSet(f, T) = SumFunctionOnSet(f, S) + f[x]
  BY <1>5, <1>6
<1> QED
  BY <1>7 DEF T

\* A function that changes at one place changes the sum by as much.
LEMMA SumChangedAtOne ==
    ASSUME NEW S, IsFiniteSet(S), NEW x \in S, NEW f, NEW e,
           \A y \in S : f[y] \in Int /\ e[y] \in Int,
           \A y \in S \ {x} : e[y] = f[y]
    PROVE  SumFunctionOnSet(e, S) = SumFunctionOnSet(f, S) + (e[x] - f[x])
<1>1. IsFiniteSet(S \ {x})
  BY FS_Subset
<1>2. SumFunctionOnSet(e, S \ {x}) = SumFunctionOnSet(f, S \ {x})
  BY <1>1, SumAgrees
<1>3. SumFunctionOnSet(e, S) = e[x] + SumFunctionOnSet(e, S \ {x})
  BY SumSplit
<1>4. SumFunctionOnSet(f, S) = f[x] + SumFunctionOnSet(f, S \ {x})
  BY SumSplit
<1>5. SumFunctionOnSet(f, S \ {x}) \in Int
  BY <1>1, SumIsInt
<1>6. e[x] \in Int /\ f[x] \in Int
  OBVIOUS
<1> QED
  BY <1>2, <1>3, <1>4, <1>5, <1>6

\* Zeros add up to 0.
LEMMA SumOfZeros ==
    ASSUME NEW S, IsFiniteSet(S), NEW f, \A x \in S : f[x] = 0
    PROVE  SumFunctionOnSet(f, S) = 0
<1> DEFINE N == {n \in Nat : \A s \in SUBSET S :
                    Cardinality(s) = n => SumFunctionOnSet(f, s) = 0}
<1>1. \A s \in SUBSET S : IsFiniteSet(s) /\ Cardinality(s) \in Nat
  BY FS_Subset, FS_CardinalityType
<1>2. 0 \in N
  <2>1. ASSUME NEW s \in SUBSET S, Cardinality(s) = 0 PROVE SumFunctionOnSet(f, s) = 0
    <3>1. s = {}
      BY <1>1, <2>1, FS_EmptySet
    <3> QED
      BY <3>1, SumOfNothing
  <2> QED
    BY <2>1
<1>3. ASSUME NEW n \in N PROVE n + 1 \in N
  <2>1. ASSUME NEW s \in SUBSET S, Cardinality(s) = n + 1
        PROVE  SumFunctionOnSet(f, s) = 0
    <3>1. IsFiniteSet(s) /\ s # {}
      BY <1>1, <2>1, FS_EmptySet
    <3>2. PICK x \in s : TRUE
      BY <3>1
    <3>3. Cardinality(s \ {x}) = Cardinality(s) - 1
      BY <3>1, FS_RemoveElement
    <3>4. Cardinality(s \ {x}) = n /\ s \ {x} \in SUBSET S
      BY <2>1, <3>3
    <3>5. SumFunctionOnSet(f, s \ {x}) = 0
      BY <1>3, <3>4
    <3>6. \A y \in s : f[y] \in Int
      OBVIOUS
    <3>7. SumFunctionOnSet(f, s) = f[x] + SumFunctionOnSet(f, s \ {x})
      BY <3>1, <3>6, SumSplit
    <3>8. f[x] = 0
      OBVIOUS
    <3> QED
      BY <3>5, <3>7, <3>8
  <2> QED
    BY <1>3, <2>1
<1>4. N = Nat
  <2> HIDE DEF N
  <2>1. N \in SUBSET Nat
    BY DEF N
  <2> QED
    BY <1>2, <1>3, <2>1, NatSetInduction
<1> QED
  BY <1>1, <1>4
=============================================================================
