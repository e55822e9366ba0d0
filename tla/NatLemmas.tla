----------------------------- MODULE NatLemmas ------------------------------
(***************************************************************************)
(* Facts about natural numbers that the proofs of several components use,  *)
(* and what they give for recursive functions: induction over the members  *)
(* of a set, iteration, and the folds of sequences from left to right.     *)
(***************************************************************************)
EXTENDS Integers, FiniteSets, FiniteSetsExt, FiniteSetTheorems, TLAPS

\* A finite non-empty set of naturals has a least element.  (Strict inclusion
\* is well-founded on the finite sets {i \in T : i <= k}.)
LEMMA LeastElement ==
  ASSUME NEW T, T \subseteq Nat, IsFiniteSet(T), T # {}
  PROVE  \E m \in T : \A j \in T : m <= j
<1> DEFINE Below(k) == {i \in T : i <= k}
           Fam == {Below(k) : k \in T}
<1>1. Fam \subseteq FiniteSubsetsOf(T)
  <2>1. \A k \in T : IsFiniteSet(Below(k))
    BY FS_Subset
  <2> QED  BY <2>1 DEF FiniteSubsetsOf
<1>2. Fam # {}
  OBVIOUS
<1> HIDE DEF Fam
<1>3. PICK B \in Fam : \A C \in Fam : ~ (<<C, B>> \in StrictSubsetOrdering(T))
  BY <1>1, <1>2, FS_StrictSubsetOrderingWellFounded, WFMin
<1>4. PICK m \in T : B = Below(m)
  BY DEF Fam
<1>5. ASSUME NEW j \in T, ~ (m <= j)
      PROVE  FALSE
  <2>1. Below(j) \in Fam
    BY DEF Fam
  <2>2. Below(j) \subseteq Below(m) /\ m \notin Below(j) /\ m \in Below(m)
    <3>1. j \in Nat /\ m \in Nat /\ j < m
      BY <1>5
    <3>2. \A i \in T : i \in Nat
      OBVIOUS
    <3>3. \A i \in Below(j) : i \in Below(m)
      BY <3>1, <3>2
    <3>4. m \notin Below(j)
      BY <3>1
    <3>5. m \in Below(m)
      BY <3>1
    <3> QED  BY <3>3, <3>4, <3>5
  <2>3. <<Below(j), Below(m)>> \in StrictSubsetOrdering(T)
    BY <2>2 DEF StrictSubsetOrdering
  <2> QED  BY <2>1, <2>3, <1>3, <1>4
<1> QED  BY <1>5

\* So has any other.
LEMMA LeastOf ==
  ASSUME NEW S, S \subseteq Nat, S # {}
  PROVE  Min(S) \in S /\ \A j \in S : Min(S) <= j
<1>1. PICK k : k \in S
  OBVIOUS
<1> DEFINE T == S \cap (0 .. k)
<1>2. T \subseteq Nat /\ T # {} /\ IsFiniteSet(T)
  <2>1. IsFiniteSet(0 .. k) /\ T \in SUBSET (0 .. k)
    BY <1>1, FS_Interval
  <2> QED  BY <1>1, <2>1, FS_Subset
<1>3. PICK m \in T : \A j \in T : m <= j
  BY <1>2, LeastElement
<1>4. m \in S /\ \A j \in S : m <= j
  <2>1. \A j \in S : j \in Nat /\ (j <= k => j \in T)
    OBVIOUS
  <2>2. m \in Nat /\ m <= k /\ k \in Nat
    BY <1>1
  <2> QED  BY <1>3, <2>1, <2>2
<1> QED  BY <1>4 DEF Min

\* Induction up to a bound, for the numbers in a set: this form the provers can
\* instantiate.
LEMMA UpTo ==
  ASSUME NEW C \in Nat, NEW S, 0 \in S,
         \A n \in 0 .. C : n # C /\ n \in S => n + 1 \in S
  PROVE  \A n \in 0 .. C : n \in S
<1> DEFINE T == {n \in 0 .. C : n \notin S}
<1>1. SUFFICES ASSUME T # {} PROVE FALSE
  OBVIOUS
<1>2. T \subseteq Nat /\ IsFiniteSet(T)
  <2>1. T \in SUBSET (0 .. C) /\ T \subseteq Nat /\ 0 \in Int /\ C \in Int
    OBVIOUS
  <2> HIDE DEF T
  <2>2. IsFiniteSet(0 .. C)
    BY <2>1, FS_Interval
  <2>3. IsFiniteSet(T)
    BY <2>1, <2>2, FS_Subset
  <2> QED  BY <2>1, <2>3
<1>3. PICK m \in T : \A j \in T : m <= j
  BY <1>1, <1>2, LeastElement
<1>4. m \in 0 .. C /\ m # 0 /\ m - 1 \in 0 .. C /\ m - 1 # C /\ m - 1 + 1 = m
  BY <1>3
<1>5. m - 1 \notin T
  BY <1>3, <1>4
<1> QED
  BY <1>3, <1>4, <1>5

\* What H gives when it is applied to s again and again, up to C times.  (Names for
\* what the next lemma is about, so that the provers can instantiate it.)
Maps(H, D) == H \in [D -> D]
Iteration(f, D, H, s, C) ==
  /\ f \in [0 .. C -> D]
  /\ f[0] = s /\ \A n \in 1 .. C : f[n] = H[f[n - 1]]

\* The recursion has a solution.
LEMMA Iterates ==
  ASSUME NEW D, NEW H, Maps(H, D), NEW s \in D, NEW C \in Nat
  PROVE  \E f : Iteration(f, D, H, s, C)
<1> USE DEF Maps
<1> DEFINE Sol(c, f) == f = [n \in 0 .. c |-> IF n = 0 THEN s ELSE H[f[n - 1]]]
           S == {c \in 0 .. C : \E f \in [0 .. c -> D] : Sol(c, f)}
<1>1. 0 \in S
  <2> DEFINE g == [n \in 0 .. 0 |-> s]
  <2>1. g \in [0 .. 0 -> D]
    OBVIOUS
  <2>2. g = [n \in 0 .. 0 |-> IF n = 0 THEN s ELSE H[g[n - 1]]]
    OBVIOUS
  <2>3. \E f \in [0 .. 0 -> D] : Sol(0, f)
    BY <2>1, <2>2
  <2>4. 0 \in 0 .. C
    OBVIOUS
  <2> HIDE DEF Sol, g
  <2> QED  BY <2>3, <2>4
<1>2. ASSUME NEW c \in 0 .. C, c # C, c \in S
      PROVE  c + 1 \in S
  <2>1. PICK f \in [0 .. c -> D] : Sol(c, f)
    BY <1>2
  <2> DEFINE g == [n \in 0 .. c + 1 |-> IF n = c + 1 THEN H[f[c]] ELSE f[n]]
  <2>2. c \in Nat /\ c + 1 \in 0 .. C
    BY <1>2
  <2>3. g \in [0 .. c + 1 -> D]
    BY <2>2
  <2>4. ASSUME NEW n \in 0 .. c + 1
        PROVE  g[n] = IF n = 0 THEN s ELSE H[g[n - 1]]
    <3>1. CASE n = c + 1
      BY <3>1, <2>2
    <3>2. CASE n # c + 1
      <4>1. n \in 0 .. c /\ (n # 0 => n - 1 \in 0 .. c + 1 /\ n - 1 # c + 1)
        BY <3>2, <2>2
      <4>2. f[n] = IF n = 0 THEN s ELSE H[f[n - 1]]
        BY <2>1, <4>1
      <4> QED  BY <3>2, <4>1, <4>2
    <3> QED  BY <3>1, <3>2
  <2>5. Sol(c + 1, g)
    BY <2>4
  <2> QED  BY <2>2, <2>3, <2>5
<1> HIDE DEF S
<1>3. \A c \in 0 .. C : c \in S
  BY <1>1, <1>2, UpTo
<1>4. C \in S
  BY <1>3
<1>5. PICK f \in [0 .. C -> D] : Sol(C, f)
  BY <1>4 DEF S
<1>6. Iteration(f, D, H, s, C)
  BY <1>5 DEF Iteration
<1> QED  BY <1>6

\* A set of numbers up to a bound has a greatest one.
LEMMA MaxOf ==
  ASSUME NEW n \in Nat, NEW S, S \subseteq 1 .. n, S # {}
  PROVE  Max(S) \in S /\ \A j \in S : j <= Max(S)
<1> DEFINE T == {n - j : j \in S}
<1>0. \A j \in S : j \in Int /\ n - j \in 0 .. n
  OBVIOUS
<1>1. T \subseteq 0 .. n /\ T # {}
  BY <1>0
<1>2. T \subseteq Nat /\ IsFiniteSet(T)
  <2>1. T \subseteq Nat /\ T \in SUBSET (0 .. n) /\ 0 \in Int /\ n \in Int
    BY <1>1
  <2> HIDE DEF T
  <2>2. IsFiniteSet(0 .. n)
    BY <2>1, FS_Interval
  <2>3. IsFiniteSet(T)
    BY <2>1, <2>2, FS_Subset
  <2> QED  BY <2>1, <2>3
<1> HIDE DEF T
<1>3. PICK m \in T : \A j \in T : m <= j
  BY <1>1, <1>2, LeastElement
<1>4. PICK k \in S : m = n - k
  BY DEF T
<1>5. ASSUME NEW j \in S
      PROVE  k >= j
  <2>1. n - j \in T
    BY DEF T
  <2>2. n - k <= n - j
    BY <2>1, <1>3, <1>4
  <2> QED  BY <2>2, <1>0
<1>6. \E x \in S : \A y \in S : x >= y
  BY <1>5
<1>7. Max(S) \in S /\ \A y \in S : Max(S) >= y
  BY <1>6 DEF Max
<1>8. \A y \in S : y <= Max(S)
  <2> DEFINE M == Max(S)
  <2>1. M \in S /\ \A y \in S : M >= y
    BY <1>7
  <2> HIDE DEF M
  <2>2. \A y \in S : y <= M
    BY <2>1, <1>0
  <2> QED  BY <2>2 DEF M
<1> QED  BY <1>7, <1>8

\* The sets that a fold from left to right goes through.
LEMMA Prefix ==
  ASSUME NEW k \in Nat, k # 0
  PROVE  1 .. k # {} /\ Max(1 .. k) = k /\ (1 .. k) \ {k} = 1 .. (k - 1)
<1>1. k \in 1 .. k
  OBVIOUS
<1>2. Max(1 .. k) \in 1 .. k /\ \A j \in 1 .. k : j <= Max(1 .. k)
  BY <1>1, MaxOf
<1>3. Max(1 .. k) = k
  BY <1>1, <1>2
<1>4. (1 .. k) \ {k} = 1 .. (k - 1)
  OBVIOUS
<1> QED  BY <1>1, <1>3, <1>4

\* it is what folding n elements gives on each set of places, when b is folded with
\* the element at place i by G[<<b, i>>].
Folded(it, D, G, b, n) ==
  /\ it \in [SUBSET (1 .. n) -> D]
  /\ it = [S \in SUBSET (1 .. n) |->
             IF S = {} THEN b ELSE G[<<it[S \ {Max(S)}], Max(S)>>]]

\* A fold has a solution.
LEMMA Folds ==
  ASSUME NEW n \in Nat, NEW D, NEW G, G \in [D \X (1 .. n) -> D], NEW b \in D
  PROVE  \E it : Folded(it, D, G, b, n)
<1> DEFINE S == {k \in 0 .. n : \E it : Folded(it, D, G, b, k)}
<1>1. 0 \in S
  <2> DEFINE it == [R \in SUBSET (1 .. 0) |-> b]
  <2>1. SUBSET (1 .. 0) = {{}}
    OBVIOUS
  <2>2. Folded(it, D, G, b, 0)
    BY <2>1 DEF Folded
  <2> QED  BY <2>2
<1>2. ASSUME NEW k \in 0 .. n, k # n, k \in S
      PROVE  k + 1 \in S
  <2>1. PICK f : Folded(f, D, G, b, k)
    BY <1>2
  <2> DEFINE it == [R \in SUBSET (1 .. k + 1) |->
                      IF k + 1 \in R THEN G[<<f[R \ {k + 1}], k + 1>>] ELSE f[R]]
  <2>2. k \in Nat /\ k + 1 \in 1 .. n /\ k + 1 \in 0 .. n /\ k + 1 \in Nat
    BY <1>2
  <2>3. \A R \in SUBSET (1 .. k + 1) :
          /\ R \ {k + 1} \in SUBSET (1 .. k)
          /\ k + 1 \notin R => R \in SUBSET (1 .. k)
    BY <2>2
  <2>4. f \in [SUBSET (1 .. k) -> D]
    BY <2>1 DEF Folded
  <2>5. it \in [SUBSET (1 .. k + 1) -> D]
    BY <2>2, <2>3, <2>4
  <2>6. ASSUME NEW R \in SUBSET (1 .. k + 1)
        PROVE  it[R] = IF R = {} THEN b ELSE G[<<it[R \ {Max(R)}], Max(R)>>]
    <3>1. CASE k + 1 \in R
      <4>1. Max(R) = k + 1
        <5> DEFINE M == Max(R)
        <5>1. R \subseteq 1 .. k + 1 /\ k + 1 \in Nat /\ R # {}
          BY <2>2, <3>1
        <5>2. M \in R /\ \A j \in R : j <= M
          BY <5>1, MaxOf
        <5> HIDE DEF M
        <5>3. M \in 1 .. k + 1 /\ k + 1 <= M
          BY <5>1, <5>2, <3>1
        <5>4. M = k + 1
          BY <5>3, <2>2
        <5> QED  BY <5>4 DEF M
      <4>2. R \ {k + 1} \in SUBSET (1 .. k + 1) /\ k + 1 \notin R \ {k + 1}
        OBVIOUS
      <4>3. it[R \ {k + 1}] = f[R \ {k + 1}]
        BY <4>2
      <4> QED  BY <3>1, <4>1, <4>3
    <3>2. CASE k + 1 \notin R
      <4>1. R \in SUBSET (1 .. k) /\ it[R] = f[R]
        BY <2>3, <3>2
      <4>2. f[R] = IF R = {} THEN b ELSE G[<<f[R \ {Max(R)}], Max(R)>>]
        BY <2>1, <4>1 DEF Folded
      <4>3. /\ R \ {Max(R)} \in SUBSET (1 .. k + 1) /\ k + 1 \notin R \ {Max(R)}
        BY <3>2
      <4>4. it[R \ {Max(R)}] = f[R \ {Max(R)}]
        BY <4>3
      <4> QED  BY <4>1, <4>2, <4>4
    <3> QED  BY <3>1, <3>2
  <2>7. Folded(it, D, G, b, k + 1)
    <3> HIDE DEF it
    <3>1. it = [R \in SUBSET (1 .. k + 1) |-> it[R]]
      BY <2>5
    <3> QED  BY <2>5, <2>6, <3>1 DEF Folded
  <2> QED  BY <2>2, <2>7
<1> HIDE DEF S
<1>3. n \in S
  BY <1>1, <1>2, UpTo
<1> QED  BY <1>3 DEF S

\* it folds by G on the sets that a fold from left to right goes through.
FoldsBy(it, D, G, b, n) ==
  /\ it[{}] = b
  /\ \A k \in 1 .. n : it[1 .. (k - 1)] \in D => it[1 .. k] = G[<<it[1 .. (k - 1)], k>>]

\* What it goes through: b, then one element after the other.
Folding(acc, it, D, G, b, n) ==
  /\ acc \in [0 .. n -> D] /\ acc[n] = it[1 .. n]
  /\ acc[0] = b /\ \A k \in 1 .. n : acc[k] = G[<<acc[k - 1], k>>]

LEMMA FoldSteps ==
  ASSUME NEW n \in Nat, NEW D, NEW G, G \in [D \X (1 .. n) -> D], NEW b \in D, NEW it,
         FoldsBy(it, D, G, b, n)
  PROVE  \E acc : Folding(acc, it, D, G, b, n)
<1> USE DEF FoldsBy
<1> DEFINE S == {k \in 0 .. n : it[1 .. k] \in D}
           acc == [k \in 0 .. n |-> it[1 .. k]]
<1>1. 1 .. 0 = {}
  OBVIOUS
<1>2. 0 \in S
  BY <1>1
<1>3. ASSUME NEW k \in 0 .. n, k # n, k \in S
      PROVE  k + 1 \in S
  <2>1. k + 1 \in 1 .. n /\ k + 1 \in 0 .. n /\ (k + 1) - 1 = k
    BY <1>3
  <2>2. it[1 .. ((k + 1) - 1)] \in D
    BY <1>3, <2>1
  <2>3. it[1 .. (k + 1)] = G[<<it[1 .. k], k + 1>>]
    BY <2>1, <2>2
  <2> QED  BY <1>3, <2>1, <2>3
<1> HIDE DEF S
<1>4. \A k \in 0 .. n : k \in S
  BY <1>2, <1>3, UpTo
<1>5. \A k \in 0 .. n : it[1 .. k] \in D
  BY <1>4 DEF S
<1>6. \A k \in 1 .. n : k \in 0 .. n /\ k - 1 \in 0 .. n
  OBVIOUS
<1>7. Folding(acc, it, D, G, b, n)
  BY <1>1, <1>5, <1>6 DEF Folding
<1> QED  BY <1>7
=============================================================================
