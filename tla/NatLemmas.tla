----------------------------- MODULE NatLemmas -----------------------------
(***************************************************************************)
(* Facts about natural numbers that the proofs of the allocator and of the *)
(* reference counts rest on and the library does not state without an      *)
(* operator parameter: least and greatest elements, induction over a set   *)
(* of numbers, and the powers of two, counted as sets of subsets.          *)
(***************************************************************************)
EXTENDS Integers, FiniteSets, FiniteSetTheorems, TLAPS

(* The numbers are well founded under <, the relation written as a set.    *)
LEMMA LessThanWellFounded ==
  IsWellFoundedOn({ss \in Nat \X Nat : ss[1] < ss[2]}, Nat)
  BY NatLessThanWellFounded DEF OpToRel

(* A set of numbers that is not empty has a least element.                 *)
LEMMA LeastElement ==
  ASSUME NEW T \in SUBSET Nat, T # {}
  PROVE  \E m \in T : \A k \in T : m <= k
<1> DEFINE R == {ss \in Nat \X Nat : ss[1] < ss[2]}
<1>1. IsWellFoundedOn(R, Nat)
  BY LessThanWellFounded
<1>2. \A x, y \in Nat : x < y => <<x, y>> \in R
  OBVIOUS
<1> HIDE DEF R
<1>3. PICK m \in T : \A y \in T : ~ (<<y, m>> \in R)
  BY <1>1, WFMin, Zenon
<1>4. \A k \in T : ~ (k < m)
  BY <1>2, <1>3
<1> QED BY <1>4

(* A bounded set of numbers that is not empty has a greatest element.      *)
LEMMA GreatestElement ==
  ASSUME NEW T \in SUBSET Nat, T # {}, NEW n \in Nat, \A k \in T : k <= n
  PROVE  \E m \in T : \A k \in T : k <= m
<1> DEFINE U == {j \in Nat : \A k \in T : k <= j}
<1>1. U \in SUBSET Nat /\ U # {}
  OBVIOUS
<1>2. PICK m \in U : \A j \in U : m <= j
  BY <1>1, LeastElement
<1>3. m \in T
  <2> SUFFICES ASSUME m \notin T PROVE FALSE
    OBVIOUS
  <2>1. \A k \in T : k <= m - 1
    OBVIOUS
  <2>2. m - 1 \in Nat
    <3>1. PICK k \in T : TRUE
      OBVIOUS
    <3> QED BY <2>1, <3>1
  <2>3. m - 1 \in U
    BY <2>1, <2>2
  <2> QED BY <1>2, <2>3
<1> QED BY <1>3

(* A set of numbers that holds 0 and the successor of each of its elements *)
(* holds every number.                                                     *)
LEMMA SetInduction ==
  ASSUME NEW S \in SUBSET Nat, 0 \in S, \A n \in S : n + 1 \in S
  PROVE  S = Nat
<1> SUFFICES ASSUME Nat \ S # {} PROVE FALSE
  OBVIOUS
<1>1. PICK m \in Nat \ S : \A k \in Nat \ S : m <= k
  BY LeastElement
<1>2. m # 0 /\ m - 1 \in Nat
  OBVIOUS
<1>3. m - 1 \in S
  BY <1>1, <1>2
<1> QED BY <1>2, <1>3

-----------------------------------------------------------------------------
(* Powers of two are positive numbers.                                     *)
LEMMA PowType ==
  ASSUME NEW k \in Nat
  PROVE  2 ^ k \in Nat /\ 2 ^ k >= 1
<1>1. IsFiniteSet(1 .. k) /\ Cardinality(1 .. k) = k
  BY FS_Interval
<1>2. IsFiniteSet(SUBSET (1 .. k)) /\ Cardinality(SUBSET (1 .. k)) = 2 ^ k
  BY <1>1, FS_SUBSET
<1>3. SUBSET (1 .. k) # {}
  OBVIOUS
<1> QED BY <1>2, <1>3, FS_EmptySet, FS_CardinalityType

(* 2^(j+k) = 2^j * 2^k: a subset of 1..j+k is a subset of 1..j and one of  *)
(* j+1..j+k.                                                               *)
LEMMA PowSum ==
  ASSUME NEW j \in Nat, NEW k \in Nat
  PROVE  2 ^ (j + k) = 2 ^ j * 2 ^ k
<1> DEFINE A == 1 .. j
           B == j + 1 .. j + k
           C == 1 .. j + k
           f == [s \in SUBSET C |-> <<s \cap A, s \cap B>>]
<1>1. /\ IsFiniteSet(SUBSET A) /\ Cardinality(SUBSET A) = 2 ^ j
      /\ IsFiniteSet(SUBSET B) /\ Cardinality(SUBSET B) = 2 ^ k
      /\ IsFiniteSet(SUBSET C) /\ Cardinality(SUBSET C) = 2 ^ (j + k)
  <2>1. IsFiniteSet(A) /\ Cardinality(A) = j
    BY FS_Interval
  <2>2. IsFiniteSet(B) /\ Cardinality(B) = k
    BY FS_Interval
  <2>3. IsFiniteSet(C) /\ Cardinality(C) = j + k
    <3>1. PICK m \in Nat : m = j + k
      OBVIOUS
    <3>2. IsFiniteSet(1 .. m) /\ Cardinality(1 .. m) = m
      BY FS_Interval
    <3> QED BY <3>1, <3>2
  <2> HIDE DEF A, B, C
  <2> QED BY <2>1, <2>2, <2>3, FS_SUBSET
<1>2. C = A \cup B /\ A \cap B = {}
  OBVIOUS
<1> HIDE DEF A, B, C
<1>3. f \in [SUBSET C -> (SUBSET A) \X (SUBSET B)]
  OBVIOUS
<1>4. ASSUME NEW s \in SUBSET C, NEW t \in SUBSET C, f[s] = f[t]
      PROVE  s = t
  <2>1. s \cap A = t \cap A /\ s \cap B = t \cap B
    BY <1>4
  <2> QED BY <2>1, <1>2
<1>5. ASSUME NEW p \in (SUBSET A) \X (SUBSET B)
      PROVE  \E s \in SUBSET C : f[s] = p
  <2>1. p[1] \cup p[2] \in SUBSET C
    BY <1>2
  <2>2. (p[1] \cup p[2]) \cap A = p[1] /\ (p[1] \cup p[2]) \cap B = p[2]
    BY <1>2
  <2>3. f[p[1] \cup p[2]] = <<p[1], p[2]>>
    BY <2>1, <2>2
  <2>4. <<p[1], p[2]>> = p
    OBVIOUS
  <2> HIDE DEF f
  <2> QED BY <2>1, <2>3, <2>4
<1>6. f \in Bijection(SUBSET C, (SUBSET A) \X (SUBSET B))
  <2>1. f \in Injection(SUBSET C, (SUBSET A) \X (SUBSET B))
    BY <1>3, <1>4 DEF Injection, IsInjective
  <2>2. f \in Surjection(SUBSET C, (SUBSET A) \X (SUBSET B))
    BY <1>3, <1>5 DEF Surjection
  <2> QED BY <2>1, <2>2 DEF Bijection
<1>7. Cardinality((SUBSET A) \X (SUBSET B)) = Cardinality(SUBSET C)
  BY <1>1, <1>6, FS_Bijection DEF ExistsBijection
<1>8. Cardinality((SUBSET A) \X (SUBSET B))
        = Cardinality(SUBSET A) * Cardinality(SUBSET B)
  BY <1>1, FS_Product
<1> QED BY <1>1, <1>7, <1>8

(* One more power doubles.                                                 *)
LEMMA PowNext ==
  ASSUME NEW k \in Nat
  PROVE  2 ^ (k + 1) = 2 * 2 ^ k
<1>1. 2 ^ (k + 1) = 2 ^ k * 2 ^ 1
  BY PowSum
<1>2. 2 ^ 1 = 2
  OBVIOUS
<1> QED BY <1>1, <1>2, PowType

(* Powers of two grow.                                                     *)
LEMMA PowMonotone ==
  ASSUME NEW j \in Nat, NEW k \in Nat, j <= k
  PROVE  2 ^ j <= 2 ^ k
<1>1. k - j \in Nat /\ k = j + (k - j)
  OBVIOUS
<1>2. 2 ^ k = 2 ^ j * 2 ^ (k - j)
  BY <1>1, PowSum
<1>3. \A a, b \in Nat : b >= 1 => a <= a * b
  OBVIOUS
<1> QED BY <1>1, <1>2, <1>3, PowType

(* 2^k is greater than k.                                                  *)
LEMMA PowAbove ==
  ASSUME NEW k \in Nat
  PROVE  k < 2 ^ k
<1> DEFINE S == {n \in Nat : n < 2 ^ n}
<1>1. 0 \in S
  BY PowType
<1>2. ASSUME NEW n \in S PROVE n + 1 \in S
  BY PowNext, PowType
<1>3. S = Nat
  BY <1>1, <1>2, SetInduction
<1> QED BY <1>3

-----------------------------------------------------------------------------
(* The quotient and the remainder of a division.                           *)
LEMMA DivBounds ==
  ASSUME NEW n \in Nat, NEW p \in Nat, p >= 1
  PROVE  /\ n \div p \in Nat
         /\ p * (n \div p) <= n /\ n < p * (n \div p) + p
  OBVIOUS

(* Division by the same number keeps the order.                            *)
LEMMA DivMonotone ==
  ASSUME NEW m \in Nat, NEW n \in Nat, NEW p \in Nat, p >= 1, m <= n
  PROVE  m \div p <= n \div p
<1> DEFINE a == m \div p
           b == n \div p
<1>1. a \in Nat /\ b \in Nat /\ p * a <= m /\ n < p * b + p
  BY DivBounds
<1> HIDE DEF a, b
<1>2. p * a < p * (b + 1)
  BY <1>1
<1>3. a < b + 1
  BY <1>1, <1>2
<1>4. a <= b
  BY <1>1, <1>3
<1> QED BY <1>4 DEF a, b

(* The remainder of a number between s and 2s.                              *)
LEMMA ModOnce ==
  ASSUME NEW s \in Nat, NEW q \in Nat, s <= q, q < 2 * s
  PROVE  q % s = q - s
  OBVIOUS
=============================================================================
